----------------------------- MODULE MapperProofs -----------------------------
(* Theorems on the Cumulocity mapper.                                           *)
(*                                                                              *)
(* For any devices, health endpoints, durations of the timers and capacity of   *)
(* the boxes: a monitored device always has its next heartbeat in preparation,  *)
(* and no timer is overdue.                                                     *)
(*                                                                              *)
(* For any operations and crashes, the cloud sending an operation again only    *)
(* when nothing of it is on its way: the cloud is told the truth, once, and     *)
(* before the command is cleared.                                               *)
EXTENDS Availability, CloudOperations, SelectionTheorems, WellFoundedInduction

------------------------------------------------------------------------------
(* The availability monitoring.                                                *)

\* The current timer is the most urgent one.
CurrentFirst ==
  /\ current = 0 <=> timers = <<>>
  /\ \A i \in DOMAIN timers : timers[current].left <= timers[i].left

IndInv == TypeOK /\ CurrentFirst /\ Monitored

Timers == [payload : Payloads, left : Int]

\* The value is in the sequence.
In(q, x) == \E i \in DOMAIN q : q[i] = x

\* The parts of Pending.
Timed(ts, d) == \E i \in DOMAIN ts : ts[i].payload = d
Signalled(box, d) == \E i \in DOMAIN box : "timeout" \in DOMAIN box[i] /\ box[i].timeout = d

------------------------------------------------------------------------------
(* Sequences.                                                                  *)

LEMMA HeadAndTail ==
  ASSUME NEW S, NEW q \in Seq(S), q # <<>>
  PROVE  /\ Head(q) \in S /\ Tail(q) \in Seq(S) /\ Len(Tail(q)) = Len(q) - 1
         /\ \A x : In(q, x) <=> x = Head(q) \/ In(Tail(q), x)
<1>1. /\ Head(q) \in S /\ Tail(q) \in Seq(S) /\ Len(Tail(q)) = Len(q) - 1 /\ Head(q) = q[1]
      /\ Len(q) \in Nat \ {0} /\ DOMAIN q = 1 .. Len(q) /\ DOMAIN Tail(q) = 1 .. Len(q) - 1
      /\ \A i \in 1 .. Len(q) - 1 : Tail(q)[i] = q[i + 1]
  BY HeadTailProperties
<1>2. ASSUME NEW x, In(q, x), x # Head(q) PROVE In(Tail(q), x)
  <2>1. PICK i \in 1 .. Len(q) : q[i] = x
    BY <1>1, <1>2 DEF In
  <2>2. i # 1
    BY <1>1, <1>2, <2>1
  <2>3. i - 1 \in 1 .. Len(q) - 1 /\ (i - 1) + 1 = i
    BY <1>1, <2>2
  <2> QED
    BY <1>1, <2>1, <2>3 DEF In
<1>3. ASSUME NEW x, x = Head(q) \/ In(Tail(q), x) PROVE In(q, x)
  <2>1. 1 \in DOMAIN q
    BY <1>1
  <2>2. \A i \in 1 .. Len(q) - 1 : i + 1 \in DOMAIN q
    BY <1>1
  <2> QED
    BY <1>1, <1>3, <2>1, <2>2 DEF In
<1> QED
  BY <1>1, <1>2, <1>3

LEMMA Appended ==
  ASSUME NEW S, NEW q \in Seq(S), NEW y \in S
  PROVE  /\ Append(q, y) \in Seq(S) /\ Len(Append(q, y)) = Len(q) + 1
         /\ \A x : In(Append(q, y), x) <=> x = y \/ In(q, x)
<1>1. /\ Append(q, y) \in Seq(S) /\ Len(Append(q, y)) = Len(q) + 1 /\ Len(q) \in Nat
      /\ DOMAIN q = 1 .. Len(q) /\ DOMAIN Append(q, y) = 1 .. Len(q) + 1
      /\ \A i \in 1 .. Len(q) : Append(q, y)[i] = q[i]
      /\ Append(q, y)[Len(q) + 1] = y
  BY AppendProperties
<1>2. \A i \in 1 .. Len(q) + 1 : i \in 1 .. Len(q) \/ i = Len(q) + 1
  BY <1>1
<1>3. Len(q) + 1 \in 1 .. Len(q) + 1 /\ \A i \in 1 .. Len(q) : i \in 1 .. Len(q) + 1
  BY <1>1
<1> QED
  BY <1>1, <1>2, <1>3 DEF In

LEMMA Removed ==
  ASSUME NEW S, NEW q \in Seq(S), NEW k \in DOMAIN q
  PROVE  /\ RemoveAt(q, k) \in Seq(S) /\ Len(RemoveAt(q, k)) = Len(q) - 1
         /\ \A x : In(RemoveAt(q, k), x) => In(q, x)
         /\ \A x : In(q, x) => x = q[k] \/ In(RemoveAt(q, k), x)
<1> DEFINE p == SubSeq(q, 1, k - 1)
           s == SubSeq(q, k + 1, Len(q))
           r == RemoveAt(q, k)
<1>1. DOMAIN q = 1 .. Len(q) /\ Len(q) \in Nat /\ k \in 1 .. Len(q) /\ \A i \in 1 .. Len(q) : q[i] \in S
  BY LenProperties
<1>2. p \in Seq(S) /\ Len(p) = k - 1 /\ \A i \in 1 .. k - 1 : p[i] = q[i]
  <2>1. \A i \in 1 .. k - 1 : q[i] \in S
    BY <1>1
  <2> QED
    BY <1>1, <2>1, SubSeqProperties
<1>3. s \in Seq(S) /\ Len(s) = Len(q) - k /\ \A i \in 1 .. Len(q) - k : s[i] = q[k + i]
  <2>1. \A i \in k + 1 .. Len(q) : q[i] \in S
    BY <1>1
  <2> QED
    BY <1>1, <2>1, SubSeqProperties
<1>4. r = p \o s
  BY DEF RemoveAt
<1> HIDE DEF p, s, r
<1>5. /\ r \in Seq(S) /\ Len(r) = Len(q) - 1
      /\ \A i \in 1 .. Len(q) - 1 : r[i] = IF i <= k - 1 THEN p[i] ELSE s[i - (k - 1)]
  <2>1. /\ p \o s \in Seq(S) /\ Len(p \o s) = Len(p) + Len(s)
        /\ \A i \in 1 .. Len(p) + Len(s) : (p \o s)[i] = IF i <= Len(p) THEN p[i] ELSE s[i - Len(p)]
    BY <1>2, <1>3, ConcatProperties
  <2>2. Len(p) + Len(s) = Len(q) - 1
    BY <1>1, <1>2, <1>3
  <2> QED
    BY <1>2, <1>4, <2>1, <2>2
<1>6. DOMAIN r = 1 .. Len(q) - 1
  BY <1>5, LenProperties
<1>7. ASSUME NEW i \in DOMAIN r PROVE \E j \in DOMAIN q : q[j] = r[i]
  <2>1. CASE i <= k - 1
    BY <1>1, <1>2, <1>5, <1>6, <2>1
  <2>2. CASE i > k - 1
    <3>1. i - (k - 1) \in 1 .. Len(q) - k /\ k + (i - (k - 1)) = i + 1 /\ i + 1 \in DOMAIN q
      BY <1>1, <1>6, <2>2
    <3> QED
      BY <1>1, <1>3, <1>5, <1>6, <2>2, <3>1
  <2> QED
    BY <1>1, <1>6, <2>1, <2>2
<1>8. ASSUME NEW j \in DOMAIN q, j # k PROVE \E i \in DOMAIN r : r[i] = q[j]
  <2>1. CASE j < k
    <3>1. j \in 1 .. k - 1 /\ j \in 1 .. Len(q) - 1 /\ j <= k - 1
      BY <1>1, <2>1
    <3> QED
      BY <1>2, <1>5, <1>6, <3>1
  <2>2. CASE j > k
    <3>1. /\ j - 1 \in 1 .. Len(q) - 1 /\ ~(j - 1 <= k - 1)
          /\ (j - 1) - (k - 1) \in 1 .. Len(q) - k /\ k + ((j - 1) - (k - 1)) = j
      BY <1>1, <2>2
    <3> QED
      BY <1>3, <1>5, <1>6, <3>1
  <2> QED
    BY <1>1, <1>8, <2>1, <2>2
<1> QED
  BY <1>5, <1>7, <1>8 DEF In, r

\* First finds the most urgent of the timers.
LEMMA FirstIsFirst ==
  ASSUME NEW ts \in Seq(Timers), ts # <<>>, NEW n \in Nat, \A i \in DOMAIN ts : ts[i].left + n >= 0
  PROVE  First(ts) \in DOMAIN ts /\ \A i \in DOMAIN ts : ts[First(ts)].left <= ts[i].left
<1>1. /\ DOMAIN ts = 1 .. Len(ts) /\ Len(ts) \in Nat \ {0}
      /\ \A i \in DOMAIN ts : ts[i].left \in Int /\ ts[i].left + n \in Nat
  <2>1. DOMAIN ts = 1 .. Len(ts) /\ Len(ts) \in Nat \ {0} /\ \A i \in DOMAIN ts : ts[i] \in Timers
    BY EmptySeq, LenProperties
  <2>2. \A i \in DOMAIN ts : ts[i].left \in Int
    BY <2>1 DEF Timers
  <2> QED
    BY <2>1, <2>2
<1>2. ASSUME NEW S, S \subseteq Nat, S # {} PROVE \E x \in S : \A y \in S : x <= y
  <2>1. PICK x \in S : \A y \in S : ~(<<y, x>> \in OpToRel(<, Nat))
    BY <1>2, NatLessThanWellFounded, WFMin
  <2>2. ASSUME NEW y \in S PROVE x <= y
    <3>1. x \in Nat /\ y \in Nat /\ <<y, x>> \in Nat \X Nat
      BY <1>2
    <3>2. ~(<<y, x>>[1] < <<y, x>>[2])
      BY <2>1, <3>1, Zenon DEF OpToRel
    <3> QED
      BY <3>1, <3>2
  <2> QED
    BY <2>2
<1>3. PICK k \in DOMAIN ts : \A i \in DOMAIN ts : ts[k].left <= ts[i].left
  <2> DEFINE L == {ts[i].left + n : i \in DOMAIN ts}
  <2>1. L \subseteq Nat /\ L # {}
    BY <1>1
  <2>2. PICK x \in L : \A y \in L : x <= y
    <3> HIDE DEF L
    <3> QED
      BY <1>2, <2>1
  <2>3. PICK k \in DOMAIN ts : x = ts[k].left + n
    BY <2>2
  <2>4. ASSUME NEW i \in DOMAIN ts PROVE ts[k].left <= ts[i].left
    <3>1. ts[k].left + n <= ts[i].left + n
      BY <2>2, <2>3
    <3> QED
      BY <1>1, <3>1
  <2> QED
    BY <2>4
<1>4. PICK m \in DOMAIN ts : ts[m].left = ts[k].left /\ \A i \in DOMAIN ts : ts[i].left = ts[k].left => i <= m
  <2> DEFINE D == {Len(ts) - i : i \in {j \in DOMAIN ts : ts[j].left = ts[k].left}}
  <2>1. D \subseteq Nat /\ D # {}
    BY <1>1
  <2>2. PICK x \in D : \A y \in D : x <= y
    <3> HIDE DEF D
    <3> QED
      BY <1>2, <2>1
  <2>3. PICK m \in DOMAIN ts : ts[m].left = ts[k].left /\ x = Len(ts) - m
    BY <2>2
  <2>4. ASSUME NEW i \in DOMAIN ts, ts[i].left = ts[k].left PROVE i <= m
    <3>1. Len(ts) - i \in D
      BY <2>4
    <3>2. Len(ts) - m <= Len(ts) - i
      BY <2>2, <2>3, <3>1
    <3> QED
      BY <1>1, <3>2
  <2> QED
    BY <2>3, <2>4
<1>5. \A j \in DOMAIN ts : ts[m].left < ts[j].left \/ (ts[m].left = ts[j].left /\ j <= m)
  BY <1>1, <1>3, <1>4
<1> DEFINE P(i) == \A j \in DOMAIN ts : ts[i].left < ts[j].left \/ (ts[i].left = ts[j].left /\ j <= i)
<1>6. First(ts) = CHOOSE i \in DOMAIN ts : P(i)
  BY DEF First
<1>7. First(ts) \in DOMAIN ts /\ P(First(ts))
  BY <1>5, <1>6, Zenon
<1> QED
  BY <1>1, <1>7

------------------------------------------------------------------------------
(* What a step does to Pending, part by part.                                  *)

LEMMA PendingParts ==
  /\ \A d : Pending(d) <=> \/ sending = d \/ firing = d \/ In(requests, d)
                           \/ Timed(timers, d) \/ Signalled(inbox, d)
  /\ \A d : Pending(d)' <=> \/ sending' = d \/ firing' = d \/ In(requests', d)
                            \/ Timed(timers', d) \/ Signalled(inbox', d)
  BY DEF Pending, In, Timed, Signalled

LEMMA Elements ==
  /\ \A ts, d : Timed(ts, d) <=> \E x : In(ts, x) /\ x.payload = d
  /\ \A box, d : Signalled(box, d) <=> \E x : In(box, x) /\ "timeout" \in DOMAIN x /\ x.timeout = d
  BY DEF Timed, Signalled, In

LEMMA Received ==
  ASSUME inbox \in Seq(Messages), NEW m \in Messages
  PROVE  /\ Append(inbox, m) \in Seq(Messages) /\ Len(Append(inbox, m)) = Len(inbox) + 1
         /\ \A d : Signalled(Append(inbox, m), d) <=>
                   Signalled(inbox, d) \/ ("timeout" \in DOMAIN m /\ m.timeout = d)
<1>1. /\ Append(inbox, m) \in Seq(Messages) /\ Len(Append(inbox, m)) = Len(inbox) + 1
      /\ \A x : In(Append(inbox, m), x) <=> x = m \/ In(inbox, x)
  BY Appended
<1> QED
  BY <1>1, Elements

LEMMA Processed ==
  ASSUME inbox \in Seq(Messages), inbox # <<>>
  PROVE  /\ Head(inbox) \in Messages /\ Tail(inbox) \in Seq(Messages)
         /\ Len(Tail(inbox)) = Len(inbox) - 1
         /\ \A d : Signalled(inbox, d) <=>
               \/ Signalled(Tail(inbox), d)
               \/ "timeout" \in DOMAIN Head(inbox) /\ Head(inbox).timeout = d
<1>1. /\ Head(inbox) \in Messages /\ Tail(inbox) \in Seq(Messages)
      /\ Len(Tail(inbox)) = Len(inbox) - 1
      /\ \A x : In(inbox, x) <=> x = Head(inbox) \/ In(Tail(inbox), x)
  BY HeadAndTail
<1> QED
  BY <1>1, Elements

LEMMA MessageKinds ==
  ASSUME NEW m \in Messages
  PROVE  /\ "endpoint" \in DOMAIN m => "timeout" \notin DOMAIN m /\ m.device \in Devices
         /\ "service" \in DOMAIN m => /\ "timeout" \notin DOMAIN m /\ m.service \in Endpoints
                                      /\ m.status \in {"up", "down"}
         /\ "timeout" \in DOMAIN m => m.timeout \in Devices
<1>1. CASE m \in [device : Devices, endpoint : Endpoints \cup {"invalid"}, id : BOOLEAN]
  BY <1>1
<1>2. CASE m \in [service : Endpoints, status : {"up", "down"}]
  BY <1>2
<1>3. CASE m \in [timeout : Devices]
  BY <1>3
<1> QED
  BY <1>1, <1>2, <1>3 DEF Messages

\* The timers are left alone.
LEMMA TimersAsTheyAre ==
  ASSUME IndInv, UNCHANGED <<timers, current, late>>,
         TypeOK', \A d \in Devices : endpoint'[d] # Nothing <=> Pending(d)'
  PROVE  IndInv'
  BY DEF IndInv, CurrentFirst, Monitored, OnTime

------------------------------------------------------------------------------
(* The messages of the other components.                                       *)

LEMMA RegisterStep ==
  ASSUME IndInv, NEW d \in Devices, Register(d)
  PROVE  IndInv'
<1>1. PICK e \in {Agent[d], "invalid"} \cup Endpoints, id \in BOOLEAN :
        inbox' = Append(inbox, Registration(d, e, id))
  BY DEF Register
<1>2. Registration(d, e, id) \in Messages /\ "timeout" \notin DOMAIN Registration(d, e, id)
  BY AvailabilityAssumption DEF Registration, Messages
<1>3. /\ Append(inbox, Registration(d, e, id)) \in Seq(Messages)
      /\ Len(inbox') = Len(inbox) + 1 /\ \A f : Signalled(inbox', f) <=> Signalled(inbox, f)
  BY <1>1, <1>2, Received DEF IndInv, TypeOK
<1>4. /\ UNCHANGED <<requests, timers, current, firing, late, endpoint, health, sending, told, synced>>
      /\ beat' = Nothing /\ updates' = updates + 1 /\ updates < MaxUpdates /\ Len(inbox) < Capacity
  BY DEF Register, timerVars
<1>5. TypeOK'
  <2>1. Len(inbox) + 1 <= Capacity
    BY <1>4, TimerAssumption DEF IndInv, TypeOK
  <2> QED
    BY <1>1, <1>3, <1>4, <2>1, AvailabilityAssumption DEF IndInv, TypeOK, TimerTypeOK
<1>6. \A f \in Devices : endpoint'[f] # Nothing <=> Pending(f)'
  BY <1>3, <1>4, PendingParts DEF IndInv, Monitored
<1> QED
  BY <1>4, <1>5, <1>6, TimersAsTheyAre

LEMMA TellHealthStep ==
  ASSUME IndInv, NEW e \in Endpoints, TellHealth(e)
  PROVE  IndInv'
<1>1. PICK s \in {"up", "down"} : inbox' = Append(inbox, HealthStatus(e, s))
  BY DEF TellHealth
<1>2. HealthStatus(e, s) \in Messages /\ "timeout" \notin DOMAIN HealthStatus(e, s)
  BY DEF HealthStatus, Messages
<1>3. /\ Append(inbox, HealthStatus(e, s)) \in Seq(Messages)
      /\ Len(inbox') = Len(inbox) + 1 /\ \A f : Signalled(inbox', f) <=> Signalled(inbox, f)
  BY <1>1, <1>2, Received DEF IndInv, TypeOK
<1>4. /\ UNCHANGED <<requests, timers, current, firing, late, endpoint, health, sending, told, synced, updates>>
      /\ beat' = Nothing /\ Len(inbox) < Capacity
  BY DEF TellHealth, timerVars
<1>5. TypeOK'
  <2>1. Len(inbox) + 1 <= Capacity
    BY <1>4, TimerAssumption DEF IndInv, TypeOK
  <2> QED
    BY <1>1, <1>3, <1>4, <2>1 DEF IndInv, TypeOK, TimerTypeOK
<1>6. \A f \in Devices : endpoint'[f] # Nothing <=> Pending(f)'
  BY <1>3, <1>4, PendingParts DEF IndInv, Monitored
<1> QED
  BY <1>4, <1>5, <1>6, TimersAsTheyAre

\* A request of a timer.
LEMMA RequestedAdds ==
  ASSUME TypeOK, NEW p \in Payloads, Requested(p)
  PROVE  /\ requests' \in Seq(Payloads) /\ Len(requests') <= Capacity
         /\ \A d : In(requests', d) <=> d = p \/ In(requests, d)
<1>1. requests \in Seq(Payloads) /\ Len(requests) \in Nat /\ Capacity \in Nat /\ Len(requests) < Capacity
  BY TimerAssumption DEF TypeOK, TimerTypeOK, Requested
<1>2. requests' = Append(requests, p)
  BY DEF Requested
<1> QED
  BY <1>1, <1>2, Appended

LEMMA RequestStep ==
  ASSUME IndInv, RequestSync \/ StartHeartbeatTimer
  PROVE  IndInv'
<1>1. CASE RequestSync
  <2>1. Sync \in Payloads /\ Sync \notin Devices
    BY AvailabilityAssumption
  <2>2. /\ requests' \in Seq(Payloads) /\ Len(requests') <= Capacity
        /\ \A d : In(requests', d) <=> d = Sync \/ In(requests, d)
    BY <1>1, <2>1, RequestedAdds DEF RequestSync, IndInv
  <2>3. /\ UNCHANGED <<timers, current, firing, late, inbox, endpoint, health, sending, told, updates>>
        /\ beat' = Nothing /\ synced' = TRUE
    BY <1>1 DEF RequestSync
  <2>4. TypeOK'
    BY <2>2, <2>3 DEF IndInv, TypeOK, TimerTypeOK
  <2>5. \A d \in Devices : endpoint'[d] # Nothing <=> Pending(d)'
    BY <2>1, <2>2, <2>3, PendingParts DEF IndInv, Monitored
  <2> QED
    BY <2>3, <2>4, <2>5, TimersAsTheyAre
<1>2. CASE StartHeartbeatTimer
  <2>1. sending \in Devices /\ sending \in Payloads /\ Nothing \notin Devices
    BY <1>2, AvailabilityAssumption DEF StartHeartbeatTimer, IndInv, TypeOK
  <2>2. /\ requests' \in Seq(Payloads) /\ Len(requests') <= Capacity
        /\ \A d : In(requests', d) <=> d = sending \/ In(requests, d)
    BY <1>2, <2>1, RequestedAdds DEF StartHeartbeatTimer, IndInv
  <2>3. /\ UNCHANGED <<timers, current, firing, late, inbox, endpoint, health, told, synced, updates>>
        /\ beat' = Nothing /\ sending' = Nothing
    BY <1>2 DEF StartHeartbeatTimer
  <2>4. TypeOK'
    BY <2>2, <2>3 DEF IndInv, TypeOK, TimerTypeOK
  <2>5. \A d \in Devices : endpoint'[d] # Nothing <=> Pending(d)'
    BY <2>1, <2>2, <2>3, PendingParts DEF IndInv, Monitored
  <2> QED
    BY <2>3, <2>4, <2>5, TimersAsTheyAre
<1> QED
  BY <1>1, <1>2

------------------------------------------------------------------------------
(* The availability actor.                                                     *)

LEMMA ProcessRegistrationStep ==
  ASSUME IndInv, ProcessRegistration
  PROVE  IndInv'
<1> DEFINE m == Head(inbox)
           taken == m.endpoint \in Endpoints /\ m.id /\ endpoint[m.device] # m.endpoint
<1>1. /\ sending = Nothing /\ inbox # <<>> /\ "endpoint" \in DOMAIN m /\ inbox' = Tail(inbox)
      /\ UNCHANGED <<requests, timers, current, firing, late, health, synced, updates>> /\ beat' = Nothing
      /\ endpoint' = IF taken THEN [endpoint EXCEPT ![m.device] = m.endpoint] ELSE endpoint
      /\ told' = IF taken THEN told \cup {m.device} ELSE told
      /\ sending' = IF taken THEN m.device ELSE Nothing
  BY DEF ProcessRegistration, Receives, timerVars
<1>2. inbox \in Seq(Messages) /\ Len(inbox) \in Nat /\ Len(inbox) <= Capacity
  BY DEF IndInv, TypeOK
<1>3. /\ m \in Messages /\ Tail(inbox) \in Seq(Messages) /\ Len(Tail(inbox)) = Len(inbox) - 1
      /\ m.device \in Devices /\ "timeout" \notin DOMAIN m
      /\ \A d : Signalled(inbox', d) <=> Signalled(inbox, d)
  BY <1>1, <1>2, Processed, MessageKinds
<1> HIDE DEF m
<1>4. Len(inbox') <= Capacity /\ inbox' \in Seq(Messages)
  BY <1>1, <1>2, <1>3, TimerAssumption
<1>5. Nothing \notin Devices /\ Nothing \notin Endpoints
  BY AvailabilityAssumption
<1>6. TypeOK'
  BY <1>1, <1>3, <1>4 DEF IndInv, TypeOK, TimerTypeOK
<1>7. \A d \in Devices : endpoint'[d] # Nothing <=> Pending(d)'
  <2>1. CASE taken
    BY <1>1, <1>3, <1>5, <2>1, PendingParts DEF IndInv, TypeOK, Monitored
  <2>2. CASE ~taken
    BY <1>1, <1>3, <1>5, <2>2, PendingParts DEF IndInv, Monitored
  <2> QED
    BY <2>1, <2>2
<1> QED
  BY <1>1, <1>6, <1>7, TimersAsTheyAre

LEMMA ProcessHealthStep ==
  ASSUME IndInv, ProcessHealth
  PROVE  IndInv'
<1> DEFINE m == Head(inbox)
<1>1. /\ inbox # <<>> /\ "service" \in DOMAIN m /\ inbox' = Tail(inbox) /\ beat' = Nothing
      /\ UNCHANGED <<requests, timers, current, firing, late, endpoint, sending, told, synced, updates>>
      /\ health' = [health EXCEPT ![m.service] = m.status]
  BY DEF ProcessHealth, Receives, timerVars
<1>2. inbox \in Seq(Messages) /\ Len(inbox) \in Nat /\ Len(inbox) <= Capacity
  BY DEF IndInv, TypeOK
<1>3. /\ Tail(inbox) \in Seq(Messages) /\ Len(Tail(inbox)) = Len(inbox) - 1
      /\ m.service \in Endpoints /\ m.status \in {"up", "down"}
      /\ \A d : Signalled(inbox', d) <=> Signalled(inbox, d)
  BY <1>1, <1>2, Processed, MessageKinds
<1> HIDE DEF m
<1>4. Len(inbox') <= Capacity /\ inbox' \in Seq(Messages)
  BY <1>1, <1>2, <1>3, TimerAssumption
<1>5. TypeOK'
  BY <1>1, <1>3, <1>4 DEF IndInv, TypeOK, TimerTypeOK
<1>6. \A d \in Devices : endpoint'[d] # Nothing <=> Pending(d)'
  BY <1>1, <1>3, PendingParts DEF IndInv, Monitored
<1> QED
  BY <1>1, <1>5, <1>6, TimersAsTheyAre

LEMMA ProcessTimeoutStep ==
  ASSUME IndInv, ProcessTimeout
  PROVE  IndInv'
<1> DEFINE d == Head(inbox).timeout
<1>1. /\ sending = Nothing /\ inbox # <<>> /\ "timeout" \in DOMAIN Head(inbox)
      /\ inbox' = Tail(inbox)
      /\ UNCHANGED <<requests, timers, current, firing, late, endpoint, health, told, synced, updates>>
      /\ beat' \in {d, Nothing}
      /\ sending' = IF endpoint[d] # Nothing THEN d ELSE Nothing
  BY DEF ProcessTimeout, Receives, timerVars
<1>2. inbox \in Seq(Messages) /\ Len(inbox) \in Nat /\ Len(inbox) <= Capacity
  BY DEF IndInv, TypeOK
<1>3. /\ Tail(inbox) \in Seq(Messages) /\ Len(Tail(inbox)) = Len(inbox) - 1 /\ d \in Devices
      /\ \A f : Signalled(inbox, f) <=> Signalled(inbox', f) \/ d = f
  BY <1>1, <1>2, Processed, MessageKinds
<1> HIDE DEF d
<1>4. endpoint[d] # Nothing /\ sending' = d /\ Nothing \notin Devices
  BY <1>1, <1>3, PendingParts, AvailabilityAssumption DEF IndInv, Monitored
<1>5. Len(inbox') <= Capacity /\ inbox' \in Seq(Messages)
  BY <1>1, <1>2, <1>3, TimerAssumption
<1>6. TypeOK'
  BY <1>1, <1>3, <1>4, <1>5 DEF IndInv, TypeOK, TimerTypeOK
<1>7. \A f \in Devices : endpoint'[f] # Nothing <=> Pending(f)'
  BY <1>1, <1>3, <1>4, PendingParts DEF IndInv, Monitored
<1> QED
  BY <1>1, <1>6, <1>7, TimersAsTheyAre

------------------------------------------------------------------------------
(* The timer actor.                                                            *)

LEMMA TimeLeft ==
  ASSUME TypeOK, Monitored, NEW i \in DOMAIN timers
  PROVE  /\ timers[i] \in Timers /\ timers[i].payload \in Payloads
         /\ timers[i].left \in Int /\ timers[i].left + late >= 0
<1>1. timers[i] \in Timers
  <2>1. timers \in Seq(Timers)
    BY DEF TypeOK, TimerTypeOK, Timers
  <2> QED
    BY <2>1
<1>2. timers[i].payload \in Payloads /\ timers[i].left \in Int
  BY <1>1 DEF Timers
<1> QED
  BY <1>1, <1>2 DEF Monitored, OnTime

LEMMA HandleRequestStep ==
  ASSUME IndInv, Timer, HandleRequest
  PROVE  IndInv'
<1> DEFINE t == [payload |-> Head(requests), left |-> Duration[Head(requests)]]
<1>1. /\ requests # <<>> /\ requests' = Tail(requests) /\ timers' = Append(timers, t)
      /\ current' = IF current = 0 \/ t.left <= timers[current].left THEN Len(timers) + 1 ELSE current
      /\ UNCHANGED <<firing, late, inbox, endpoint, health, sending, told, synced, updates>> /\ beat' = Nothing
  BY DEF Timer, HandleRequest, MoreUrgent
<1>2. /\ requests \in Seq(Payloads) /\ timers \in Seq(Timers) /\ current \in 0 .. Len(timers)
      /\ Len(requests) <= Capacity /\ Len(requests) \in Nat /\ Len(timers) \in Nat
      /\ DOMAIN timers = 1 .. Len(timers) /\ late \in Nat
  BY TimerAssumption DEF IndInv, TypeOK, TimerTypeOK, Timers
<1>3. /\ Head(requests) \in Payloads /\ requests' \in Seq(Payloads)
      /\ Len(requests') = Len(requests) - 1
      /\ \A d : In(requests, d) <=> d = Head(requests) \/ In(requests', d)
  BY <1>1, <1>2, HeadAndTail
<1>4. t \in Timers /\ t.left \in Nat /\ t.payload = Head(requests)
  BY <1>3, TimerAssumption DEF Timers
<1> HIDE DEF t
<1>5. /\ timers' \in Seq(Timers) /\ Len(timers') = Len(timers) + 1
      /\ \A x : In(timers', x) <=> x = t \/ In(timers, x)
      /\ \A i \in 1 .. Len(timers) : timers'[i] = timers[i]
      /\ timers'[Len(timers) + 1] = t /\ DOMAIN timers' = 1 .. Len(timers) + 1
  BY <1>1, <1>2, <1>4, Appended, AppendProperties
<1>6. \A d : Timed(timers', d) <=> Timed(timers, d) \/ d = Head(requests)
  BY <1>4, <1>5, Elements
<1>7. current' \in 1 .. Len(timers')
  BY <1>1, <1>2, <1>5
<1>8. TypeOK'
  <2>1. Len(requests') <= Capacity
    BY <1>2, <1>3, TimerAssumption
  <2> QED
    BY <1>1, <1>3, <1>5, <1>7, <2>1 DEF IndInv, TypeOK, TimerTypeOK, Timers
<1>9. \A i \in 1 .. Len(timers) : timers[i].left \in Int /\ timers[i].left + late >= 0
  BY <1>2, TimeLeft DEF IndInv
<1>10. CurrentFirst' /\ OnTime'
  <2>1. /\ current = 0 => Len(timers) = 0
        /\ \A i \in 1 .. Len(timers) : timers[current].left <= timers[i].left
    BY <1>2 DEF IndInv, CurrentFirst
  <2>2. \A i \in DOMAIN timers' : i \in 1 .. Len(timers) \/ i = Len(timers) + 1
    BY <1>2, <1>5
  <2>3. CASE current = 0 \/ t.left <= timers[current].left
    <3>1. timers'[current'] = t
      BY <1>1, <1>5, <2>3
    <3>2. \A i \in 1 .. Len(timers) : t.left <= timers[i].left
      BY <1>2, <1>4, <1>9, <2>1, <2>3
    <3>3. \A i \in DOMAIN timers' : timers'[current'].left <= timers'[i].left /\ timers'[i].left + late >= 0
      <4> SUFFICES ASSUME NEW i \in DOMAIN timers'
                   PROVE  timers'[current'].left <= timers'[i].left /\ timers'[i].left + late >= 0
        OBVIOUS
      <4>1. CASE i \in 1 .. Len(timers)
        BY <1>5, <1>9, <3>1, <3>2, <4>1
      <4>2. CASE i = Len(timers) + 1
        BY <1>2, <1>4, <1>5, <3>1, <4>2
      <4> QED
        BY <2>2, <4>1, <4>2
    <3>4. current' # 0 /\ timers' # <<>>
      BY <1>2, <1>5, <1>7
    <3> QED
      BY <1>1, <3>3, <3>4 DEF CurrentFirst, OnTime
  <2>4. CASE ~(current = 0 \/ t.left <= timers[current].left)
    <3>1. current' = current /\ current \in 1 .. Len(timers) /\ timers'[current'] = timers[current]
      BY <1>1, <1>2, <1>5, <2>4
    <3>2. timers[current].left <= t.left
      BY <1>4, <1>9, <2>4, <3>1
    <3>3. \A i \in DOMAIN timers' : timers'[current'].left <= timers'[i].left /\ timers'[i].left + late >= 0
      <4> SUFFICES ASSUME NEW i \in DOMAIN timers'
                   PROVE  timers'[current'].left <= timers'[i].left /\ timers'[i].left + late >= 0
        OBVIOUS
      <4>1. CASE i \in 1 .. Len(timers)
        BY <1>5, <1>9, <2>1, <3>1, <4>1
      <4>2. CASE i = Len(timers) + 1
        BY <1>2, <1>4, <1>5, <3>1, <3>2, <4>2
      <4> QED
        BY <2>2, <4>1, <4>2
    <3>4. current' # 0 /\ timers' # <<>>
      BY <1>2, <1>5, <1>7
    <3> QED
      BY <1>1, <3>3, <3>4 DEF CurrentFirst, OnTime
  <2> QED
    BY <2>3, <2>4
<1>11. \A d \in Devices : endpoint'[d] # Nothing <=> Pending(d)'
  BY <1>1, <1>3, <1>6, PendingParts DEF IndInv, Monitored
<1> QED
  BY <1>8, <1>10, <1>11 DEF IndInv, Monitored

LEMMA ElapseStep ==
  ASSUME IndInv, Timer, Elapse
  PROVE  IndInv'
<1>1. /\ firing = Nothing /\ current # 0 /\ firing' = timers[current].payload
      /\ timers' = RemoveAt(timers, current) /\ current' = First(timers')
      /\ UNCHANGED <<requests, late, inbox, endpoint, health, sending, told, synced, updates>>
      /\ beat' = Nothing
  BY DEF Timer, Elapse
<1>2. /\ timers \in Seq(Timers) /\ current \in DOMAIN timers
  BY <1>1 DEF IndInv, TypeOK, TimerTypeOK, Timers
<1>3. /\ timers' \in Seq(Timers)
      /\ \A x : In(timers', x) => In(timers, x)
      /\ \A x : In(timers, x) => x = timers[current] \/ In(timers', x)
  BY <1>1, <1>2, Removed
<1>4. firing' \in Payloads /\ In(timers, timers[current])
  BY <1>1, <1>2, TimeLeft DEF IndInv, In
<1>5. \A d : Timed(timers, d) <=> Timed(timers', d) \/ d = firing'
  BY <1>1, <1>3, <1>4, Elements
<1>6. OnTime'
  <2>1. \A x : In(timers, x) => x.left + late >= 0
    BY DEF IndInv, Monitored, OnTime, In
  <2> QED
    BY <1>1, <1>3, <2>1 DEF OnTime, In
<1>7. CurrentFirst' /\ current' \in 0 .. Len(timers')
  <2>1. CASE timers' = <<>>
    BY <1>1, <2>1 DEF First, CurrentFirst
  <2>2. CASE timers' # <<>>
    <3>1. /\ First(timers') \in DOMAIN timers'
          /\ \A i \in DOMAIN timers' : timers'[First(timers')].left <= timers'[i].left
      <4>1. late' \in Nat
        BY <1>1, TimerAssumption DEF IndInv, TypeOK, TimerTypeOK
      <4> QED
        BY <1>3, <1>6, <2>2, <4>1, FirstIsFirst DEF OnTime
    <3>2. DOMAIN timers' = 1 .. Len(timers') /\ Len(timers') \in Nat
      BY <1>3
    <3> QED
      BY <1>1, <2>2, <3>1, <3>2 DEF CurrentFirst
  <2> QED
    BY <2>1, <2>2
<1>8. TypeOK'
  BY <1>1, <1>3, <1>4, <1>7 DEF IndInv, TypeOK, TimerTypeOK, Timers
<1>9. \A d \in Devices : endpoint'[d] # Nothing <=> Pending(d)'
  BY <1>1, <1>5, PendingParts, AvailabilityAssumption DEF IndInv, Monitored
<1> QED
  BY <1>6, <1>7, <1>8, <1>9 DEF IndInv, Monitored

LEMMA SendTimeoutStep ==
  ASSUME IndInv, SendTimeout
  PROVE  IndInv'
<1>1. /\ firing # Nothing /\ firing' = Nothing /\ beat' = Nothing
      /\ UNCHANGED <<requests, timers, current, late, endpoint, health, sending, told, synced, updates>>
      /\ IF firing = Sync THEN UNCHANGED inbox
         ELSE Len(inbox) < Capacity /\ inbox' = Append(inbox, TimerComplete(firing))
  BY DEF SendTimeout, Triggered
<1>2. inbox \in Seq(Messages) /\ Len(inbox) \in Nat /\ Len(inbox) <= Capacity
  BY DEF IndInv, TypeOK
<1>3. Nothing \notin Devices /\ Sync \notin Devices
  BY AvailabilityAssumption
<1>4. CASE firing = Sync
  <2>1. TypeOK'
    BY <1>1, <1>4 DEF IndInv, TypeOK, TimerTypeOK
  <2>2. \A d \in Devices : endpoint'[d] # Nothing <=> Pending(d)'
    BY <1>1, <1>3, <1>4, PendingParts DEF IndInv, Monitored
  <2> QED
    BY <1>1, <2>1, <2>2, TimersAsTheyAre
<1>5. CASE firing # Sync
  <2>1. firing \in Devices
    BY <1>1, <1>5, AvailabilityAssumption DEF IndInv, TypeOK, TimerTypeOK
  <2>2. /\ TimerComplete(firing) \in Messages /\ "timeout" \in DOMAIN TimerComplete(firing)
        /\ TimerComplete(firing).timeout = firing
    BY <2>1 DEF TimerComplete, Messages
  <2>3. /\ inbox' \in Seq(Messages) /\ Len(inbox') = Len(inbox) + 1
        /\ \A d : Signalled(inbox', d) <=> Signalled(inbox, d) \/ firing = d
    BY <1>1, <1>2, <1>5, <2>2, Received
  <2>4. Len(inbox') <= Capacity
    BY <1>1, <1>2, <1>5, <2>3, TimerAssumption
  <2>5. TypeOK'
    BY <1>1, <2>3, <2>4 DEF IndInv, TypeOK, TimerTypeOK
  <2>6. \A d \in Devices : endpoint'[d] # Nothing <=> Pending(d)'
    BY <1>1, <1>3, <2>1, <2>3, PendingParts DEF IndInv, Monitored
  <2> QED
    BY <1>1, <2>5, <2>6, TimersAsTheyAre
<1> QED
  BY <1>4, <1>5

LEMMA TickStep ==
  ASSUME IndInv, Tick
  PROVE  IndInv'
<1>1. /\ timers' = [i \in DOMAIN timers |-> [timers[i] EXCEPT !.left = @ - 1]]
      /\ \/ timers[current].left > 0 /\ late' = late
         \/ late < MaxLate /\ late' = late + 1
      /\ UNCHANGED <<requests, current, firing, inbox, endpoint, health, sending, told, synced, updates>>
      /\ beat' = Nothing /\ timers # <<>>
  BY DEF Tick, Elapsing
<1>2. /\ timers \in Seq(Timers) /\ DOMAIN timers = 1 .. Len(timers) /\ Len(timers) \in Nat
      /\ current \in 1 .. Len(timers) /\ late \in 0 .. MaxLate /\ MaxLate \in Nat
  BY <1>1, TimerAssumption DEF IndInv, TypeOK, TimerTypeOK, Timers, CurrentFirst
<1>3. \A i \in DOMAIN timers : /\ timers[i] \in Timers /\ timers[i].left \in Int
                               /\ timers[i].left + late >= 0
                               /\ timers[current].left <= timers[i].left
  BY <1>2, TimeLeft DEF IndInv, CurrentFirst
<1>4. \A i \in DOMAIN timers : /\ timers'[i] \in Timers /\ timers'[i].left = timers[i].left - 1
                               /\ timers'[i].payload = timers[i].payload
  BY <1>1, <1>3 DEF Timers
<1>5. /\ timers' \in Seq(Timers) /\ DOMAIN timers' = DOMAIN timers /\ Len(timers') = Len(timers)
      /\ timers' # <<>>
  <2>1. timers' \in [1 .. Len(timers) -> Timers]
    BY <1>1, <1>2, <1>4
  <2> QED
    BY <1>2, <2>1, SeqDef
<1>6. OnTime' /\ CurrentFirst'
  <2>1. timers[current].left \in Int /\ current' = current /\ current \in DOMAIN timers
    BY <1>1, <1>2, <1>3
  <2>2. \A i \in DOMAIN timers : (timers[i].left - 1) + late' >= 0
    BY <1>1, <1>2, <1>3, <2>1
  <2>3. ASSUME NEW i \in DOMAIN timers'
        PROVE  timers'[i].left + late' >= 0 /\ timers'[current'].left <= timers'[i].left
    BY <1>3, <1>4, <1>5, <2>1, <2>2
  <2> QED
    BY <1>5, <2>1, <2>3 DEF OnTime, CurrentFirst
<1>7. TypeOK'
  BY <1>1, <1>2, <1>5 DEF IndInv, TypeOK, TimerTypeOK, Timers
<1>8. \A d : Timed(timers', d) <=> Timed(timers, d)
  BY <1>4, <1>5 DEF Timed
<1>9. \A d \in Devices : endpoint'[d] # Nothing <=> Pending(d)'
  BY <1>1, <1>8, PendingParts DEF IndInv, Monitored
<1> QED
  BY <1>6, <1>7, <1>9 DEF IndInv, Monitored

------------------------------------------------------------------------------

LEMMA InvInit == Init => IndInv
<1> SUFFICES ASSUME Init PROVE IndInv
  OBVIOUS
<1>1. TypeOK
  <2>1. TimerTypeOK
    BY TimerAssumption DEF Init, TimerInit, TimerTypeOK
  <2>2. inbox \in Seq(Messages) /\ Len(inbox) <= Capacity
    BY TimerAssumption DEF Init
  <2>3. /\ endpoint \in [Devices -> Endpoints \cup {Nothing}]
        /\ health \in [Endpoints -> {"up", "down", Nothing}]
    BY AvailabilityAssumption DEF Init
  <2>4. /\ sending \in Devices \cup {Nothing} /\ beat \in Devices \cup {Nothing}
        /\ told \subseteq Devices /\ synced \in BOOLEAN
    BY AvailabilityAssumption DEF Init
  <2>5. updates \in 0 .. MaxUpdates
    BY AvailabilityAssumption DEF Init
  <2> QED
    BY <2>1, <2>2, <2>3, <2>4, <2>5 DEF TypeOK
<1>2. CurrentFirst /\ OnTime
  BY DEF Init, TimerInit, CurrentFirst, OnTime
<1>3. \A d : ~In(requests, d) /\ ~Timed(timers, d) /\ ~Signalled(inbox, d)
  BY DEF Init, TimerInit, In, Timed, Signalled
<1>4. \A d \in Devices : endpoint[d] # Nothing <=> Pending(d)
  BY <1>3, PendingParts, AvailabilityAssumption DEF Init, TimerInit
<1> QED
  BY <1>1, <1>2, <1>4 DEF IndInv, Monitored

LEMMA InvNext == IndInv /\ [Next]_vars => IndInv'
<1> SUFFICES ASSUME IndInv, [Next]_vars PROVE IndInv'
  OBVIOUS
<1>1. CASE UNCHANGED vars
  <2>1. UNCHANGED <<requests, timers, current, firing, late, inbox, endpoint, health, sending, told, beat,
                    synced, updates>>
    BY <1>1 DEF vars, timerVars, availabilityVars
  <2>2. TypeOK'
    BY <2>1 DEF IndInv, TypeOK, TimerTypeOK
  <2>3. \A d \in Devices : endpoint'[d] # Nothing <=> Pending(d)'
    BY <2>1 DEF IndInv, Monitored, Pending
  <2> QED
    BY <2>1, <2>2, <2>3, TimersAsTheyAre
<1>2. CASE Next
  BY <1>2, RegisterStep, TellHealthStep, RequestStep, ProcessRegistrationStep, ProcessHealthStep,
     ProcessTimeoutStep, HandleRequestStep, ElapseStep, SendTimeoutStep, TickStep
  DEF Next, Steps, Timer
<1> QED
  BY <1>1, <1>2

\* A monitored device always has its next heartbeat in preparation - a timer, a
\* request of one or a timeout on its way - and an unmonitored one never; and a
\* timer is overdue only for the time the timer actor has spent awaiting room for a
\* timeout, the actor always sleeping for the most urgent one
\* (process_timer_complete, start_timer).
THEOREM DevicesStayMonitored == Spec => []Monitored
<1>1. IndInv => Monitored
  BY DEF IndInv
<1> QED
  BY <1>1, InvInit, InvNext, PTL DEF Spec

------------------------------------------------------------------------------
(* The operations.                                                             *)

\* What is in a queue: one of some messages, one of B only before those of A, one
\* of B before each of A.
Has(q, A) == \E i \in DOMAIN q : q[i] \in A
NoneAfter(q, A, B) == \A i, j \in DOMAIN q : i < j /\ q[i] \in A => q[j] \notin B
Led(q, A, B) == \A i \in DOMAIN q : q[i] \in A => \E j \in DOMAIN q : j < i /\ q[j] \in B

Live == {"init", "executing"} \cup Final
Told == {"executing"} \cup Final

\* The messages about an operation.
Request(o) == {Operations(<<o>>)}
Commands(o, S) == {Command(o, s) : s \in S}
Statuses(o, S) == {Status(o, s) : s \in S}
Showing(o, S) == {Shows(o, x) : x \in S}
Listing(o) == {ListRequest(o)}
InOf(o) == Request(o) \cup Commands(o, Live \cup {Cleared})
UpOf(o) == Statuses(o, Told)
OutOf(o) == Commands(o, {"init", Cleared}) \cup UpOf(o) \cup Showing(o, {"target", "applied"}) \cup Listing(o)

\* Those that say it is being executed, and those that say it is over.
Going(o) == Statuses(o, {"executing"}) \cup Showing(o, {"target"})
Over(o) == Statuses(o, Final) \cup Showing(o, {"applied"})

AnyIn == UNION {InOf(o) : o \in Ops}
AnyUp == (UNION {UpOf(o) : o \in Ops}) \cup {PendingRequest}
AnyOut == (UNION {OutOf(o) : o \in Ops}) \cup {PendingRequest}
Queued == incoming \in Seq(AnyIn) /\ uplink \in Seq(AnyUp) /\ out \in Seq(AnyOut)

\* What the agent has done is on the topic, until the command is cleared.
TopicTrue(o) ==
  /\ topic[o] \in Final => ran[o] = topic[o]
  /\ topic[o] \in {"init", "executing"} => ran[o] = None

\* The command has been created; what is known of commands is of those.
Begun(o) == topic[o] # Cleared \/ ran[o] # None
Valid(o) == kind[o] \notin {"invalid", "dropped"}
BegunFirst(o) ==
  /\ tasks[o] # <<>> \/ Has(incoming, Commands(o, Live \cup {Cleared})) \/ o \in active => Begun(o)
  /\ Begun(o) \/ Has(out, Commands(o, {"init"})) => Valid(o)

\* Nothing has been said or done of an operation.
Blank(o) == ~Begun(o) /\ ~Has(out, UpOf(o)) /\ ~Has(uplink, UpOf(o))
Fresh(o) == Blank(o) /\ cloud[o] = "pending"

\* A request is handled once, or while the command is active.
RequestedOnce(o) ==
  /\ cloud[o] = None => Blank(o)
  /\ Has(incoming, Request(o)) => Fresh(o) \/ o \in active
  /\ Has(out, Commands(o, {"init"})) => Fresh(o) /\ ~Has(incoming, Request(o))
  /\ NoneAfter(incoming, Request(o), Request(o))
  /\ NoneAfter(incoming, Commands(o, {Cleared}), Request(o))
  /\ NoneAfter(out, Commands(o, {"init"}), Commands(o, {"init"}))

\* What the cloud is told, or will be, is true.
Says(o, s) == cloud[o] = s \/ Has(uplink, Statuses(o, {s})) \/ Has(out, Statuses(o, {s}))
SaidTruly(o) ==
  /\ Says(o, "successful") => ran[o] = "successful" /\ (kind[o] \in Files => o \in stored)
  /\ Says(o, "failed") =>
       \/ ran[o] = "failed"
       \/ ran[o] = "successful" /\ kind[o] \in Files \cup {"custom"}
       \/ kind[o] = "invalid"
  /\ shown[o] = "applied" \/ Has(out, Showing(o, {"applied"})) => ran[o] = "successful"
  /\ \A s \in Final : Has(incoming, Commands(o, {s})) \/ Has(tasks[o], {s}) => ran[o] = s

\* From the agent to the cloud, that an operation is over comes last.
OverCloud(o) == cloud[o] \in Final
OverUplink(o) == OverCloud(o) \/ Has(uplink, Statuses(o, Final)) \/ shown[o] = "applied"
OverOut(o) == OverUplink(o) \/ Has(out, Over(o))
OverTasks(o) == OverOut(o) \/ Has(tasks[o], Final)
InOrder(o) ==
  /\ OverCloud(o) => ~Has(uplink, Statuses(o, {"executing"}))
  /\ OverUplink(o) => ~Has(out, Going(o))
  /\ OverOut(o) => ~Has(tasks[o], {"executing"})
  /\ OverTasks(o) => ~Has(incoming, Commands(o, {"executing"}))
  /\ NoneAfter(uplink, Statuses(o, Final), Statuses(o, {"executing"}))
  /\ NoneAfter(out, Over(o), Going(o))
  /\ NoneAfter(tasks[o], Final, {"executing"})
  /\ NoneAfter(incoming, Commands(o, Final), Commands(o, {"executing"}))

\* One task ends an operation, and clears its command.
EndedOnce(o) ==
  /\ Has(incoming, Commands(o, Final)) => topic[o] \in Final \/ running[o] \in Final
  /\ Has(incoming, Commands(o, {Cleared})) => topic[o] = Cleared
  /\ Has(tasks[o], Final) \/ Has(out, Commands(o, {Cleared})) =>
       topic[o] \in Final /\ running[o] \in Final
  /\ Has(tasks[o], Final) => ~Has(out, Commands(o, {Cleared}))
  /\ NoneAfter(tasks[o], Final, Final)
  /\ NoneAfter(out, Commands(o, {Cleared}), Commands(o, {Cleared}))

\* What is published before a command is cleared.
Reported(o) == cloud[o] \in Final \/ Has(uplink, Statuses(o, Final))
Lists(o) == kind[o] \in {"software_update", "device_profile"}
Applies(o) == kind[o] \in {"config_update", "firmware_update", "device_profile"} /\ ran[o] = "successful"
ClearedLast(o) ==
  /\ Reported(o) \/ Led(out, Commands(o, {Cleared}), Statuses(o, Final))
  /\ Lists(o) => o \in listed \/ Led(out, Commands(o, {Cleared}), Listing(o))
  /\ Applies(o) => shown[o] = "applied" \/ Led(out, Commands(o, {Cleared}), Showing(o, {"applied"}))
  /\ ran[o] # None /\ topic[o] = Cleared =>
       Reported(o) /\ (Lists(o) => o \in listed) /\ (Applies(o) => shown[o] = "applied")

OpInv(o) ==
  /\ TopicTrue(o) /\ BegunFirst(o) /\ RequestedOnce(o) /\ SaidTruly(o) /\ InOrder(o)
  /\ EndedOnce(o) /\ ClearedLast(o)

OperationsInv == OperationsTypeOK /\ Queued /\ \A o \in Ops : OpInv(o)

------------------------------------------------------------------------------
(* Queues.                                                                     *)

LEMMA ConcatAt ==
  ASSUME NEW S, NEW q \in Seq(S), NEW r \in Seq(S)
  PROVE  /\ q \o r \in Seq(S) /\ Len(q) \in Nat /\ Len(r) \in Nat
         /\ DOMAIN q = 1 .. Len(q) /\ DOMAIN r = 1 .. Len(r)
         /\ DOMAIN (q \o r) = 1 .. Len(q) + Len(r)
         /\ \A i \in 1 .. Len(q) + Len(r) : (q \o r)[i] = IF i <= Len(q) THEN q[i] ELSE r[i - Len(q)]
<1>1. q \o r \in Seq(S) /\ Len(q \o r) = Len(q) + Len(r) /\ Len(q) \in Nat /\ Len(r) \in Nat
  OBVIOUS
<1>2. DOMAIN (q \o r) = 1 .. Len(q) + Len(r) /\ DOMAIN q = 1 .. Len(q) /\ DOMAIN r = 1 .. Len(r)
  BY <1>1
<1>3. \A i \in 1 .. Len(q) + Len(r) : (q \o r)[i] = IF i <= Len(q) THEN q[i] ELSE r[i - Len(q)]
  OBVIOUS
<1> QED
  BY <1>1, <1>2, <1>3

LEMMA TailAt ==
  ASSUME NEW S, NEW q \in Seq(S), q # <<>>
  PROVE  /\ Head(q) \in S /\ Tail(q) \in Seq(S) /\ Len(q) \in Nat /\ Len(q) >= 1
         /\ DOMAIN q = 1 .. Len(q) /\ DOMAIN Tail(q) = 1 .. Len(q) - 1
         /\ Head(q) = q[1] /\ \A i \in 1 .. Len(q) - 1 : Tail(q)[i] = q[i + 1]
<1>1. /\ Len(q) \in Nat /\ Len(q) >= 1 /\ DOMAIN q = 1 .. Len(q) /\ Tail(q) \in Seq(S)
      /\ Len(Tail(q)) = Len(q) - 1 /\ Head(q) = q[1] /\ Head(q) \in S
  OBVIOUS
<1>2. DOMAIN Tail(q) = 1 .. Len(q) - 1
  BY <1>1
<1>3. \A i \in 1 .. Len(q) - 1 : Tail(q)[i] = q[i + 1]
  OBVIOUS
<1> QED
  BY <1>1, <1>2, <1>3

LEMMA HasConcat ==
  ASSUME NEW S, NEW q \in Seq(S), NEW r \in Seq(S), NEW A
  PROVE  Has(q \o r, A) <=> Has(q, A) \/ Has(r, A)
<1> DEFINE n == Len(q)
           m == Len(r)
<1>0. /\ n \in Nat /\ m \in Nat /\ DOMAIN q = 1 .. n /\ DOMAIN r = 1 .. m
      /\ DOMAIN (q \o r) = 1 .. n + m
      /\ \A i \in 1 .. n + m : (q \o r)[i] = IF i <= n THEN q[i] ELSE r[i - n]
  BY ConcatAt
<1> HIDE DEF n, m
<1>1. ASSUME Has(q \o r, A)
      PROVE  Has(q, A) \/ Has(r, A)
  <2>1. PICK i \in 1 .. n + m : (q \o r)[i] \in A
    BY <1>0, <1>1 DEF Has
  <2>2. CASE i <= n
    <3>1. i \in DOMAIN q /\ q[i] \in A
      BY <1>0, <2>1, <2>2
    <3> QED
      BY <3>1 DEF Has
  <2>3. CASE ~(i <= n)
    <3>1. i - n \in DOMAIN r /\ r[i - n] \in A
      BY <1>0, <2>1, <2>3
    <3> QED
      BY <3>1 DEF Has
  <2> QED
    BY <2>2, <2>3
<1>2. ASSUME Has(q, A)
      PROVE  Has(q \o r, A)
  <2>1. PICK i \in 1 .. n : q[i] \in A
    BY <1>0, <1>2 DEF Has
  <2>2. i \in DOMAIN (q \o r) /\ (q \o r)[i] \in A
    BY <1>0, <2>1
  <2> QED
    BY <2>2 DEF Has
<1>3. ASSUME Has(r, A)
      PROVE  Has(q \o r, A)
  <2>1. PICK i \in 1 .. m : r[i] \in A
    BY <1>0, <1>3 DEF Has
  <2>2. i + n \in 1 .. n + m /\ ~(i + n <= n) /\ (i + n) - n = i
    BY <1>0, <2>1
  <2>3. i + n \in DOMAIN (q \o r) /\ (q \o r)[i + n] \in A
    BY <1>0, <2>1, <2>2
  <2> QED
    BY <2>3 DEF Has
<1> QED
  BY <1>1, <1>2, <1>3

LEMMA HasTail ==
  ASSUME NEW S, NEW q \in Seq(S), q # <<>>, NEW A
  PROVE  Has(q, A) <=> Head(q) \in A \/ Has(Tail(q), A)
<1> DEFINE n == Len(q)
           t == Tail(q)
<1>0. /\ n \in Nat /\ n >= 1 /\ DOMAIN q = 1 .. n /\ DOMAIN t = 1 .. n - 1 /\ Head(q) = q[1]
      /\ \A i \in 1 .. n - 1 : t[i] = q[i + 1]
  BY TailAt
<1> HIDE DEF n, t
<1>1. ASSUME Has(q, A), Head(q) \notin A
      PROVE  Has(t, A)
  <2>1. PICK i \in 1 .. n : q[i] \in A
    BY <1>0, <1>1 DEF Has
  <2>2. i # 1
    BY <1>0, <1>1, <2>1
  <2>3. i - 1 \in DOMAIN t /\ (i - 1) + 1 = i
    BY <1>0, <2>1, <2>2
  <2>4. t[i - 1] \in A
    BY <1>0, <2>1, <2>3
  <2> QED
    BY <2>3, <2>4 DEF Has
<1>2. Head(q) \in A => Has(q, A)
  BY <1>0 DEF Has
<1>3. ASSUME Has(t, A)
      PROVE  Has(q, A)
  <2>1. PICK i \in 1 .. n - 1 : t[i] \in A
    BY <1>0, <1>3 DEF Has
  <2>2. i + 1 \in DOMAIN q /\ q[i + 1] \in A
    BY <1>0, <2>1
  <2> QED
    BY <2>2 DEF Has
<1> QED
  BY <1>1, <1>2, <1>3 DEF t

LEMMA NoneAfterConcat ==
  ASSUME NEW S, NEW q \in Seq(S), NEW r \in Seq(S), NEW A, NEW B
  PROVE  NoneAfter(q \o r, A, B) <=>
           NoneAfter(q, A, B) /\ NoneAfter(r, A, B) /\ (Has(q, A) => ~Has(r, B))
<1> DEFINE n == Len(q)
           m == Len(r)
           w == q \o r
<1>0. /\ n \in Nat /\ m \in Nat /\ DOMAIN q = 1 .. n /\ DOMAIN r = 1 .. m
      /\ DOMAIN w = 1 .. n + m
      /\ \A i \in 1 .. n + m : w[i] = IF i <= n THEN q[i] ELSE r[i - n]
  BY ConcatAt
<1> HIDE DEF n, m, w
<1>a. \A i \in DOMAIN q : i \in DOMAIN w /\ w[i] = q[i] /\ i \in Nat /\ i <= n
  BY <1>0
<1>b. \A i \in DOMAIN r : i + n \in DOMAIN w /\ w[i + n] = r[i] /\ i \in Nat /\ i >= 1
  <2> TAKE i \in DOMAIN r
  <2>1. i + n \in 1 .. n + m /\ ~(i + n <= n) /\ (i + n) - n = i /\ i \in Nat /\ i >= 1
    BY <1>0
  <2> QED
    BY <1>0, <2>1
<1>1. ASSUME NoneAfter(w, A, B)
      PROVE  NoneAfter(q, A, B) /\ NoneAfter(r, A, B) /\ (Has(q, A) => ~Has(r, B))
  <2>1. NoneAfter(q, A, B)
    BY <1>1, <1>a DEF NoneAfter
  <2>2. ASSUME NEW i \in DOMAIN r, NEW j \in DOMAIN r, i < j, r[i] \in A
        PROVE  r[j] \notin B
    <3>1. i + n < j + n
      BY <1>0, <2>2, <1>b
    <3> QED
      BY <1>1, <1>b, <2>2, <3>1 DEF NoneAfter
  <2>3. ASSUME NEW i \in DOMAIN q, NEW j \in DOMAIN r, q[i] \in A
        PROVE  r[j] \notin B
    <3>1. i < j + n
      BY <1>0, <1>a, <1>b, <2>3
    <3> QED
      BY <1>1, <1>a, <1>b, <2>3, <3>1 DEF NoneAfter
  <2>4. NoneAfter(r, A, B)
    BY <2>2 DEF NoneAfter
  <2>5. Has(q, A) => ~Has(r, B)
    BY <2>3 DEF Has
  <2> QED
    BY <2>1, <2>4, <2>5
<1>2. ASSUME NoneAfter(q, A, B), NoneAfter(r, A, B), Has(q, A) => ~Has(r, B)
      PROVE  NoneAfter(w, A, B)
  <2> SUFFICES ASSUME NEW i \in DOMAIN w, NEW j \in DOMAIN w, i < j, w[i] \in A
               PROVE  w[j] \notin B
    BY DEF NoneAfter
  <2>1. i \in 1 .. n + m /\ j \in 1 .. n + m
    BY <1>0
  <2>2. CASE j <= n
    <3>1. i \in DOMAIN q /\ j \in DOMAIN q /\ w[i] = q[i] /\ w[j] = q[j]
      BY <1>0, <2>1, <2>2
    <3> QED
      BY <1>2, <3>1 DEF NoneAfter
  <2>3. CASE ~(j <= n) /\ i <= n
    <3>1. i \in DOMAIN q /\ j - n \in DOMAIN r /\ w[i] = q[i] /\ w[j] = r[j - n]
      BY <1>0, <2>1, <2>3
    <3> QED
      BY <1>2, <3>1 DEF Has
  <2>4. CASE ~(i <= n)
    <3>1. /\ i - n \in DOMAIN r /\ j - n \in DOMAIN r /\ w[i] = r[i - n] /\ w[j] = r[j - n]
          /\ i - n < j - n
      BY <1>0, <2>1, <2>4
    <3> QED
      BY <1>2, <3>1 DEF NoneAfter
  <2> QED
    BY <2>1, <2>2, <2>3, <2>4
<1> QED
  BY <1>1, <1>2 DEF w

LEMMA NoneAfterTail ==
  ASSUME NEW S, NEW q \in Seq(S), q # <<>>, NEW A, NEW B
  PROVE  NoneAfter(q, A, B) <=> NoneAfter(Tail(q), A, B) /\ (Head(q) \in A => ~Has(Tail(q), B))
<1> DEFINE h == Head(q)
           t == Tail(q)
<1>1. h \in S /\ t \in Seq(S) /\ q = <<h>> \o t /\ <<h>> \in Seq(S)
  <2>1. h \in S /\ t \in Seq(S) /\ q = Append(<<>>, h) \o t
    OBVIOUS
  <2>2. Append(<<>>, h) = <<h>>
    OBVIOUS
  <2> QED
    BY <2>1, <2>2
<1> HIDE DEF h, t
<1>2. NoneAfter(<<h>>, A, B)
  BY DEF NoneAfter
<1>3. Has(<<h>>, A) <=> h \in A
  BY DEF Has
<1>4. NoneAfter(<<h>> \o t, A, B) <=> NoneAfter(t, A, B) /\ (h \in A => ~Has(t, B))
  BY <1>1, <1>2, <1>3, NoneAfterConcat
<1>5. NoneAfter(q, A, B) <=> NoneAfter(t, A, B) /\ (h \in A => ~Has(t, B))
  BY <1>1, <1>4
<1> QED
  BY <1>5 DEF h, t

LEMMA LedConcat ==
  ASSUME NEW S, NEW q \in Seq(S), NEW r \in Seq(S), NEW A, NEW B
  PROVE  Led(q \o r, A, B) <=> Led(q, A, B) /\ (Has(q, B) \/ Led(r, A, B))
<1> DEFINE n == Len(q)
           m == Len(r)
           w == q \o r
<1>0. /\ n \in Nat /\ m \in Nat /\ DOMAIN q = 1 .. n /\ DOMAIN r = 1 .. m
      /\ DOMAIN w = 1 .. n + m
      /\ \A i \in 1 .. n + m : w[i] = IF i <= n THEN q[i] ELSE r[i - n]
  BY ConcatAt
<1> HIDE DEF n, m, w
<1>a. \A i \in DOMAIN q : i \in DOMAIN w /\ w[i] = q[i] /\ i \in Nat /\ i <= n
  BY <1>0
<1>b. \A i \in DOMAIN r : i + n \in DOMAIN w /\ w[i + n] = r[i] /\ i \in Nat /\ i >= 1
  <2> TAKE i \in DOMAIN r
  <2>1. i + n \in 1 .. n + m /\ ~(i + n <= n) /\ (i + n) - n = i /\ i \in Nat /\ i >= 1
    BY <1>0
  <2> QED
    BY <1>0, <2>1
<1>c. \A j \in DOMAIN w : \/ j \in DOMAIN q /\ w[j] = q[j]
                          \/ j - n \in DOMAIN r /\ w[j] = r[j - n] /\ ~(j <= n) /\ j \in Nat
  BY <1>0
<1>1. ASSUME Led(w, A, B)
      PROVE  Led(q, A, B) /\ (Has(q, B) \/ Led(r, A, B))
  <2>1. ASSUME NEW i \in DOMAIN q, q[i] \in A
        PROVE  \E j \in DOMAIN q : j < i /\ q[j] \in B
    <3>1. PICK j \in DOMAIN w : j < i /\ w[j] \in B
      BY <1>1, <1>a, <2>1 DEF Led
    <3>2. j \in DOMAIN q /\ w[j] = q[j]
      BY <1>0, <1>a, <1>c, <3>1
    <3> QED
      BY <3>1, <3>2
  <2>2. ASSUME ~Has(q, B), NEW i \in DOMAIN r, r[i] \in A
        PROVE  \E j \in DOMAIN r : j < i /\ r[j] \in B
    <3>1. PICK j \in DOMAIN w : j < i + n /\ w[j] \in B
      BY <1>1, <1>b, <2>2 DEF Led
    <3>2. ~(j \in DOMAIN q /\ w[j] = q[j])
      BY <2>2, <3>1 DEF Has
    <3>3. j - n \in DOMAIN r /\ w[j] = r[j - n] /\ j - n < i
      BY <1>0, <1>b, <1>c, <3>1, <3>2
    <3> QED
      BY <3>1, <3>3
  <2>3. Led(q, A, B)
    BY <2>1 DEF Led
  <2>4. Has(q, B) \/ Led(r, A, B)
    BY <2>2 DEF Led
  <2> QED
    BY <2>3, <2>4
<1>2. ASSUME Led(q, A, B), Has(q, B) \/ Led(r, A, B)
      PROVE  Led(w, A, B)
  <2> SUFFICES ASSUME NEW i \in DOMAIN w, w[i] \in A
               PROVE  \E j \in DOMAIN w : j < i /\ w[j] \in B
    BY DEF Led
  <2>1. CASE i \in DOMAIN q /\ w[i] = q[i]
    <3>1. PICK j \in DOMAIN q : j < i /\ q[j] \in B
      BY <1>2, <2>1 DEF Led
    <3> QED
      BY <1>a, <3>1
  <2>2. CASE i - n \in DOMAIN r /\ w[i] = r[i - n] /\ ~(i <= n) /\ i \in Nat
    <3>1. CASE Has(q, B)
      <4>1. PICK j \in DOMAIN q : q[j] \in B
        BY <3>1 DEF Has
      <4>2. j < i
        BY <1>0, <1>a, <2>2
      <4> QED
        BY <1>a, <4>1, <4>2
    <3>2. CASE Led(r, A, B)
      <4>1. PICK j \in DOMAIN r : j < i - n /\ r[j] \in B
        BY <2>2, <3>2 DEF Led
      <4>2. j + n < i
        BY <1>0, <1>b, <2>2, <4>1
      <4> QED
        BY <1>b, <4>1, <4>2
    <3> QED
      BY <1>2, <3>1, <3>2
  <2> QED
    BY <1>c, <2>1, <2>2
<1> QED
  BY <1>1, <1>2 DEF w

LEMMA LedTail ==
  ASSUME NEW S, NEW q \in Seq(S), q # <<>>, NEW A, NEW B
  PROVE  Led(q, A, B) <=> Head(q) \notin A /\ (Head(q) \in B \/ Led(Tail(q), A, B))
<1> DEFINE h == Head(q)
           t == Tail(q)
<1>1. h \in S /\ t \in Seq(S) /\ q = <<h>> \o t /\ <<h>> \in Seq(S)
  <2>1. h \in S /\ t \in Seq(S) /\ q = Append(<<>>, h) \o t
    OBVIOUS
  <2>2. Append(<<>>, h) = <<h>>
    OBVIOUS
  <2> QED
    BY <2>1, <2>2
<1> HIDE DEF h, t
<1>2. Led(<<h>>, A, B) <=> h \notin A
  BY DEF Led
<1>3. Has(<<h>>, B) <=> h \in B
  BY DEF Has
<1>4. Led(<<h>> \o t, A, B) <=> h \notin A /\ (h \in B \/ Led(t, A, B))
  BY <1>1, <1>2, <1>3, LedConcat
<1>5. Led(q, A, B) <=> h \notin A /\ (h \in B \/ Led(t, A, B))
  BY <1>1, <1>4
<1> QED
  BY <1>5 DEF h, t

LEMMA OfEmpty ==
  ASSUME NEW A, NEW B
  PROVE  ~Has(<<>>, A) /\ NoneAfter(<<>>, A, B) /\ Led(<<>>, A, B)
BY DEF Has, NoneAfter, Led

LEMMA OfOne ==
  ASSUME NEW x, NEW A, NEW B
  PROVE  /\ Has(<<x>>, A) <=> x \in A
         /\ NoneAfter(<<x>>, A, B) /\ (Led(<<x>>, A, B) <=> x \notin A)
BY DEF Has, NoneAfter, Led

\* Without a message of A or of B there is no order to follow.
LEMMA OfNone ==
  ASSUME NEW q, NEW A, NEW B
  PROVE  /\ ~Has(q, A) => NoneAfter(q, A, B) /\ Led(q, A, B)
         /\ ~Has(q, B) => NoneAfter(q, A, B)
BY DEF Has, NoneAfter, Led

LEMMA HasLess ==
  ASSUME NEW q, NEW A, NEW B, A \subseteq B, Has(q, A)
  PROVE  Has(q, B)
BY DEF Has

\* The two queues do not differ by a message of M.
Alike(q, r, M) ==
  /\ \A A \in SUBSET M : Has(r, A) <=> Has(q, A)
  /\ \A A, B \in SUBSET M : NoneAfter(r, A, B) <=> NoneAfter(q, A, B)
  /\ \A A, B \in SUBSET M : Led(r, A, B) <=> Led(q, A, B)

LEMMA AlikeSame ==
  ASSUME NEW q, NEW M
  PROVE  Alike(q, q, M)
BY DEF Alike

LEMMA AlikeConcat ==
  ASSUME NEW S, NEW q \in Seq(S), NEW r \in Seq(S), NEW M, ~Has(r, M)
  PROVE  Alike(q, q \o r, M)
<1>1. ASSUME NEW A \in SUBSET M
      PROVE  ~Has(r, A)
  BY HasLess
<1>2. ASSUME NEW A \in SUBSET M
      PROVE  Has(q \o r, A) <=> Has(q, A)
  BY <1>1, HasConcat
<1>3. ASSUME NEW A \in SUBSET M, NEW B \in SUBSET M
      PROVE  NoneAfter(q \o r, A, B) <=> NoneAfter(q, A, B)
  BY <1>1, NoneAfterConcat, OfNone
<1>4. ASSUME NEW A \in SUBSET M, NEW B \in SUBSET M
      PROVE  Led(q \o r, A, B) <=> Led(q, A, B)
  BY <1>1, LedConcat, OfNone
<1> QED
  BY <1>2, <1>3, <1>4 DEF Alike

LEMMA AlikeTail ==
  ASSUME NEW S, NEW q \in Seq(S), q # <<>>, NEW M, Head(q) \notin M
  PROVE  Alike(q, Tail(q), M)
<1>1. ASSUME NEW A \in SUBSET M
      PROVE  Head(q) \notin A
  OBVIOUS
<1>2. ASSUME NEW A \in SUBSET M
      PROVE  Has(Tail(q), A) <=> Has(q, A)
  BY <1>1, HasTail
<1>3. ASSUME NEW A \in SUBSET M, NEW B \in SUBSET M
      PROVE  NoneAfter(Tail(q), A, B) <=> NoneAfter(q, A, B)
  BY <1>1, NoneAfterTail
<1>4. ASSUME NEW A \in SUBSET M, NEW B \in SUBSET M
      PROVE  Led(Tail(q), A, B) <=> Led(q, A, B)
  BY <1>1, LedTail
<1> QED
  BY <1>2, <1>3, <1>4 DEF Alike

------------------------------------------------------------------------------
(* Messages.                                                                   *)

LEMMA CommandIn ==
  ASSUME NEW o, NEW s, NEW p, NEW S
  PROVE  /\ Command(o, s) \in Commands(p, S) <=> o = p /\ s \in S
         /\ Command(o, s) \notin Request(p) /\ Command(o, s) \notin Statuses(p, S)
         /\ Command(o, s) \notin Showing(p, S) /\ Command(o, s) \notin Listing(p)
         /\ DOMAIN Command(o, s) = {"cmd", "status"} /\ Command(o, s) # PendingRequest
<1>1. DOMAIN Command(o, s) = {"cmd", "status"}
  BY DEF Command
<1>2. /\ \A q : DOMAIN Operations(<<q>>) = {"ops"} /\ DOMAIN ListRequest(q) = {"list"}
      /\ \A q, x : DOMAIN Status(q, x) = {"op", "status"} /\ DOMAIN Shows(q, x) = {"of", "what"}
      /\ DOMAIN PendingRequest = {"op"}
  BY DEF Operations, ListRequest, Status, Shows, PendingRequest
<1>3. Command(o, s).cmd = o /\ Command(o, s).status = s
  BY DEF Command
<1>4. \A q, x : Command(q, x).cmd = q /\ Command(q, x).status = x
  BY DEF Command
<1>5. Command(o, s) \in Commands(p, S) <=> o = p /\ s \in S
  BY <1>3, <1>4 DEF Commands
<1> QED
  BY <1>1, <1>2, <1>5 DEF Request, Statuses, Showing, Listing

LEMMA StatusIn ==
  ASSUME NEW o, NEW s, NEW p, NEW S
  PROVE  /\ Status(o, s) \in Statuses(p, S) <=> o = p /\ s \in S
         /\ Status(o, s) \notin Request(p) /\ Status(o, s) \notin Commands(p, S)
         /\ Status(o, s) \notin Showing(p, S) /\ Status(o, s) \notin Listing(p)
         /\ DOMAIN Status(o, s) = {"op", "status"} /\ Status(o, s) # PendingRequest
<1>1. DOMAIN Status(o, s) = {"op", "status"}
  BY DEF Status
<1>2. /\ \A q : DOMAIN Operations(<<q>>) = {"ops"} /\ DOMAIN ListRequest(q) = {"list"}
      /\ \A q, x : DOMAIN Command(q, x) = {"cmd", "status"} /\ DOMAIN Shows(q, x) = {"of", "what"}
      /\ DOMAIN PendingRequest = {"op"}
  BY DEF Operations, ListRequest, Command, Shows, PendingRequest
<1>4. \A q, x : Status(q, x).op = q /\ Status(q, x).status = x
  BY DEF Status
<1>5. Status(o, s) \in Statuses(p, S) <=> o = p /\ s \in S
  BY <1>4 DEF Statuses
<1> QED
  BY <1>1, <1>2, <1>5 DEF Request, Commands, Showing, Listing

LEMMA ShowsIn ==
  ASSUME NEW o, NEW s, NEW p, NEW S
  PROVE  /\ Shows(o, s) \in Showing(p, S) <=> o = p /\ s \in S
         /\ Shows(o, s) \notin Request(p) /\ Shows(o, s) \notin Commands(p, S)
         /\ Shows(o, s) \notin Statuses(p, S) /\ Shows(o, s) \notin Listing(p)
         /\ DOMAIN Shows(o, s) = {"of", "what"} /\ Shows(o, s) # PendingRequest
<1>1. DOMAIN Shows(o, s) = {"of", "what"}
  BY DEF Shows
<1>2. /\ \A q : DOMAIN Operations(<<q>>) = {"ops"} /\ DOMAIN ListRequest(q) = {"list"}
      /\ \A q, x : DOMAIN Command(q, x) = {"cmd", "status"} /\ DOMAIN Status(q, x) = {"op", "status"}
      /\ DOMAIN PendingRequest = {"op"}
  BY DEF Operations, ListRequest, Command, Status, PendingRequest
<1>4. \A q, x : Shows(q, x).of = q /\ Shows(q, x).what = x
  BY DEF Shows
<1>5. Shows(o, s) \in Showing(p, S) <=> o = p /\ s \in S
  BY <1>4 DEF Showing
<1> QED
  BY <1>1, <1>2, <1>5 DEF Request, Commands, Statuses, Listing

LEMMA RequestIn ==
  ASSUME NEW o, NEW p, NEW S
  PROVE  /\ Operations(<<o>>) \in Request(p) <=> o = p
         /\ Operations(<<o>>) \notin Commands(p, S) /\ DOMAIN Operations(<<o>>) = {"ops"}
<1>1. DOMAIN Operations(<<o>>) = {"ops"} /\ \A q, x : DOMAIN Command(q, x) = {"cmd", "status"}
  BY DEF Operations, Command
<1>2. \A q : Operations(<<q>>).ops[1] = q
  BY DEF Operations
<1> QED
  BY <1>1, <1>2 DEF Request, Commands

LEMMA ListingIn ==
  ASSUME NEW o, NEW p, NEW S
  PROVE  /\ ListRequest(o) \in Listing(p) <=> o = p
         /\ ListRequest(o) \notin Commands(p, S) /\ ListRequest(o) \notin Statuses(p, S)
         /\ ListRequest(o) \notin Showing(p, S)
         /\ DOMAIN ListRequest(o) = {"list"} /\ ListRequest(o) # PendingRequest
<1>1. /\ DOMAIN ListRequest(o) = {"list"} /\ DOMAIN PendingRequest = {"op"}
      /\ \A q, x : DOMAIN Command(q, x) = {"cmd", "status"} /\ DOMAIN Status(q, x) = {"op", "status"}
                   /\ DOMAIN Shows(q, x) = {"of", "what"}
  BY DEF ListRequest, Command, Status, Shows, PendingRequest
<1>2. \A q : ListRequest(q).list = q
  BY DEF ListRequest
<1> QED
  BY <1>1, <1>2 DEF Listing, Commands, Statuses, Showing

LEMMA PendingIn ==
  ASSUME NEW p, NEW S
  PROVE  /\ PendingRequest \notin Commands(p, S) /\ PendingRequest \notin Statuses(p, S)
         /\ PendingRequest \notin Showing(p, S) /\ PendingRequest \notin Listing(p)
         /\ DOMAIN PendingRequest = {"op"}
<1>1. /\ DOMAIN PendingRequest = {"op"} /\ \A q : DOMAIN ListRequest(q) = {"list"}
      /\ \A q, x : DOMAIN Command(q, x) = {"cmd", "status"} /\ DOMAIN Status(q, x) = {"op", "status"}
                   /\ DOMAIN Shows(q, x) = {"of", "what"}
  BY DEF ListRequest, Command, Status, Shows, PendingRequest
<1> QED
  BY <1>1 DEF Listing, Commands, Statuses, Showing

\* The sets of messages the invariant is about.
LEMMA SetsOf ==
  ASSUME NEW o
  PROVE  /\ Request(o) \in SUBSET InOf(o)
         /\ \A S \in SUBSET (Live \cup {Cleared}) : Commands(o, S) \in SUBSET InOf(o)
         /\ \A S \in SUBSET {"init", Cleared} : Commands(o, S) \in SUBSET OutOf(o)
         /\ \A S \in SUBSET Told : Statuses(o, S) \in SUBSET OutOf(o)
         /\ \A S \in SUBSET {"target", "applied"} : Showing(o, S) \in SUBSET OutOf(o)
         /\ Listing(o) \in SUBSET OutOf(o) /\ UpOf(o) \in SUBSET OutOf(o)
         /\ Going(o) \in SUBSET OutOf(o) /\ Over(o) \in SUBSET OutOf(o)
<1>1. Request(o) \in SUBSET InOf(o) /\ Listing(o) \in SUBSET OutOf(o) /\ UpOf(o) \in SUBSET OutOf(o)
  BY DEF InOf, OutOf
<1>2. \A S \in SUBSET (Live \cup {Cleared}) : Commands(o, S) \in SUBSET InOf(o)
  BY DEF InOf, Commands
<1>3. \A S \in SUBSET {"init", Cleared} : Commands(o, S) \in SUBSET OutOf(o)
  BY DEF OutOf, Commands
<1>4. \A S \in SUBSET Told : Statuses(o, S) \in SUBSET OutOf(o)
  BY DEF OutOf, UpOf, Statuses
<1>5. \A S \in SUBSET {"target", "applied"} : Showing(o, S) \in SUBSET OutOf(o)
  BY DEF OutOf, Showing
<1>6. {"executing"} \in SUBSET Told /\ Final \in SUBSET Told
  BY DEF Told
<1>7. {"target"} \in SUBSET {"target", "applied"} /\ {"applied"} \in SUBSET {"target", "applied"}
  OBVIOUS
<1>8. Going(o) \in SUBSET OutOf(o) /\ Over(o) \in SUBSET OutOf(o)
  BY <1>4, <1>5, <1>6, <1>7 DEF Going, Over
<1> QED
  BY <1>1, <1>2, <1>3, <1>4, <1>5, <1>8

\* What messages can be.
LEMMA InKind ==
  ASSUME NEW m, NEW o, m \in InOf(o)
  PROVE  \/ m = Operations(<<o>>)
         \/ \E s \in Live \cup {Cleared} : m = Command(o, s)
BY DEF InOf, Request, Commands

LEMMA OutKind ==
  ASSUME NEW m, NEW o, m \in OutOf(o)
  PROVE  \/ \E s \in {"init", Cleared} : m = Command(o, s)
         \/ \E s \in Told : m = Status(o, s)
         \/ \E x \in {"target", "applied"} : m = Shows(o, x)
         \/ m = ListRequest(o)
BY DEF OutOf, UpOf, Commands, Statuses, Showing, Listing

LEMMA InOfOne ==
  ASSUME NEW m, NEW o, NEW p, m \in InOf(o), m \in InOf(p)
  PROVE  o = p
<1>1. CASE m = Operations(<<o>>)
  BY <1>1, RequestIn DEF InOf
<1>2. ASSUME NEW s \in Live \cup {Cleared}, m = Command(o, s)
      PROVE  o = p
  BY <1>2, CommandIn DEF InOf
<1> QED
  BY <1>1, <1>2, InKind

LEMMA OutOfOne ==
  ASSUME NEW m, NEW o, NEW p, m \in OutOf(o), m \in OutOf(p)
  PROVE  o = p
<1>1. ASSUME NEW s, m = Command(o, s)
      PROVE  o = p
  BY <1>1, CommandIn DEF OutOf, UpOf
<1>2. ASSUME NEW s, m = Status(o, s)
      PROVE  o = p
  BY <1>2, StatusIn DEF OutOf, UpOf
<1>3. ASSUME NEW x, m = Shows(o, x)
      PROVE  o = p
  BY <1>3, ShowsIn DEF OutOf, UpOf
<1>4. CASE m = ListRequest(o)
  BY <1>4, ListingIn DEF OutOf, UpOf
<1> QED
  BY <1>1, <1>2, <1>3, <1>4, OutKind

LEMMA PendingOf ==
  ASSUME NEW o
  PROVE  PendingRequest \notin OutOf(o) /\ PendingRequest \notin UpOf(o)
BY PendingIn DEF OutOf, UpOf

LEMMA OutMembers ==
  ASSUME NEW o
  PROVE  /\ Command(o, "init") \in OutOf(o) /\ Command(o, Cleared) \in OutOf(o) /\ ListRequest(o) \in OutOf(o)
         /\ \A s \in Told : Status(o, s) \in OutOf(o) /\ Status(o, s) \in UpOf(o)
         /\ \A x \in {"target", "applied"} : Shows(o, x) \in OutOf(o)
<1>1. Command(o, "init") \in Commands(o, {"init", Cleared}) /\ Command(o, Cleared) \in Commands(o, {"init", Cleared})
  BY CommandIn
<1>2. /\ \A s \in Told : Status(o, s) \in Statuses(o, Told) /\ ListRequest(o) \in Listing(o)
      /\ \A x \in {"target", "applied"} : Shows(o, x) \in Showing(o, {"target", "applied"})
  BY StatusIn, ShowsIn, ListingIn
<1>3. ListRequest(o) \in Listing(o)
  BY ListingIn
<1> QED
  BY <1>1, <1>2, <1>3 DEF OutOf, UpOf

LEMMA ReportIn ==
  ASSUME NEW o, NEW S
  PROVE  /\ \A s : /\ Status(o, s) \in Statuses(o, S) <=> s \in S
                  /\ Status(o, s) \notin Showing(o, S) /\ Status(o, s) \notin Commands(o, S)
         /\ \A x : /\ Shows(o, x) \in Showing(o, S) <=> x \in S
                  /\ Shows(o, x) \notin Statuses(o, S) /\ Shows(o, x) \notin Commands(o, S)
         /\ ListRequest(o) \notin Statuses(o, S) /\ ListRequest(o) \notin Showing(o, S)
         /\ ListRequest(o) \notin Commands(o, S)
<1>1. \A s : /\ Status(o, s) \in Statuses(o, S) <=> s \in S
             /\ Status(o, s) \notin Showing(o, S) /\ Status(o, s) \notin Commands(o, S)
  BY StatusIn
<1>2. \A x : /\ Shows(o, x) \in Showing(o, S) <=> x \in S
             /\ Shows(o, x) \notin Statuses(o, S) /\ Shows(o, x) \notin Commands(o, S)
  BY ShowsIn
<1> QED
  BY <1>1, <1>2, ListingIn

------------------------------------------------------------------------------
(* The operations a step is not about.                                         *)

\* The step leaves alone what is known of the operation.
Unmoved(o) ==
  /\ Alike(incoming, incoming', InOf(o)) /\ Alike(out, out', OutOf(o)) /\ Alike(uplink, uplink', OutOf(o))
  /\ kind'[o] = kind[o] /\ cloud'[o] = cloud[o] /\ topic'[o] = topic[o] /\ ran'[o] = ran[o]
  /\ shown'[o] = shown[o] /\ running'[o] = running[o] /\ tasks'[o] = tasks[o]
  /\ (o \in stored' <=> o \in stored) /\ (o \in listed' <=> o \in listed)
  /\ (o \in active' <=> o \in active)

LEMMA SomeSets ==
  /\ Live \cup {Cleared} \in SUBSET (Live \cup {Cleared}) /\ {Cleared} \in SUBSET (Live \cup {Cleared})
  /\ Final \in SUBSET (Live \cup {Cleared}) /\ {"executing"} \in SUBSET (Live \cup {Cleared})
  /\ \A s \in Final : {s} \in SUBSET (Live \cup {Cleared}) /\ {s} \in SUBSET Told
  /\ {"init"} \in SUBSET {"init", Cleared} /\ {Cleared} \in SUBSET {"init", Cleared}
  /\ Final \in SUBSET Told /\ {"executing"} \in SUBSET Told
  /\ {"applied"} \in SUBSET {"target", "applied"} /\ {"target"} \in SUBSET {"target", "applied"}
  /\ "successful" \in Final /\ "failed" \in Final
BY DEF Live, Told, Final

LEMMA IncomingAlike ==
  ASSUME NEW o, NEW q, NEW r, Alike(q, r, InOf(o))
  PROVE  /\ Has(r, Request(o)) <=> Has(q, Request(o))
         /\ \A S \in SUBSET (Live \cup {Cleared}) : Has(r, Commands(o, S)) <=> Has(q, Commands(o, S))
         /\ NoneAfter(r, Request(o), Request(o)) <=> NoneAfter(q, Request(o), Request(o))
         /\ NoneAfter(r, Commands(o, {Cleared}), Request(o)) <=> NoneAfter(q, Commands(o, {Cleared}), Request(o))
         /\ NoneAfter(r, Commands(o, Final), Commands(o, {"executing"}))
              <=> NoneAfter(q, Commands(o, Final), Commands(o, {"executing"}))
<1>1. /\ Request(o) \in SUBSET InOf(o)
      /\ \A S \in SUBSET (Live \cup {Cleared}) : Commands(o, S) \in SUBSET InOf(o)
  BY SetsOf
<1>2. Commands(o, {Cleared}) \in SUBSET InOf(o) /\ Commands(o, Final) \in SUBSET InOf(o)
      /\ Commands(o, {"executing"}) \in SUBSET InOf(o)
  BY <1>1, SomeSets
<1> QED
  BY <1>1, <1>2 DEF Alike

LEMMA OutAlike ==
  ASSUME NEW o, NEW q, NEW r, Alike(q, r, OutOf(o))
  PROVE  /\ NoneAfter(r, Statuses(o, Final), Statuses(o, {"executing"}))
              <=> NoneAfter(q, Statuses(o, Final), Statuses(o, {"executing"}))
         /\ \A S \in SUBSET {"init", Cleared} : Has(r, Commands(o, S)) <=> Has(q, Commands(o, S))
         /\ \A S \in SUBSET Told : Has(r, Statuses(o, S)) <=> Has(q, Statuses(o, S))
         /\ Has(r, UpOf(o)) <=> Has(q, UpOf(o))
         /\ Has(r, Showing(o, {"applied"})) <=> Has(q, Showing(o, {"applied"}))
         /\ Has(r, Going(o)) <=> Has(q, Going(o))
         /\ Has(r, Over(o)) <=> Has(q, Over(o))
         /\ NoneAfter(r, Over(o), Going(o)) <=> NoneAfter(q, Over(o), Going(o))
         /\ \A S \in SUBSET {"init", Cleared} :
              NoneAfter(r, Commands(o, S), Commands(o, S)) <=> NoneAfter(q, Commands(o, S), Commands(o, S))
         /\ Led(r, Commands(o, {Cleared}), Statuses(o, Final)) <=> Led(q, Commands(o, {Cleared}), Statuses(o, Final))
         /\ Led(r, Commands(o, {Cleared}), Listing(o)) <=> Led(q, Commands(o, {Cleared}), Listing(o))
         /\ Led(r, Commands(o, {Cleared}), Showing(o, {"applied"}))
              <=> Led(q, Commands(o, {Cleared}), Showing(o, {"applied"}))
<1>1. /\ \A S \in SUBSET {"init", Cleared} : Commands(o, S) \in SUBSET OutOf(o)
      /\ \A S \in SUBSET Told : Statuses(o, S) \in SUBSET OutOf(o)
      /\ Listing(o) \in SUBSET OutOf(o) /\ UpOf(o) \in SUBSET OutOf(o)
      /\ Going(o) \in SUBSET OutOf(o) /\ Over(o) \in SUBSET OutOf(o)
  BY SetsOf
<1>2. /\ Commands(o, {Cleared}) \in SUBSET OutOf(o) /\ Statuses(o, Final) \in SUBSET OutOf(o)
      /\ Statuses(o, {"executing"}) \in SUBSET OutOf(o)
      /\ Showing(o, {"applied"}) \in SUBSET OutOf(o)
  BY <1>1, SomeSets, SetsOf
<1> QED
  BY <1>1, <1>2 DEF Alike

LEMMA UnmovedInv ==
  ASSUME NEW o \in Ops, OpInv(o), Unmoved(o)
  PROVE  OpInv(o)'
<1>1. /\ kind'[o] = kind[o] /\ cloud'[o] = cloud[o] /\ topic'[o] = topic[o] /\ ran'[o] = ran[o]
      /\ shown'[o] = shown[o] /\ running'[o] = running[o] /\ tasks'[o] = tasks[o]
      /\ (o \in stored' <=> o \in stored) /\ (o \in listed' <=> o \in listed)
      /\ (o \in active' <=> o \in active)
  BY DEF Unmoved
<1>2. /\ Has(incoming', Request(o)) <=> Has(incoming, Request(o))
      /\ \A S \in SUBSET (Live \cup {Cleared}) : Has(incoming', Commands(o, S)) <=> Has(incoming, Commands(o, S))
      /\ NoneAfter(incoming', Request(o), Request(o)) <=> NoneAfter(incoming, Request(o), Request(o))
      /\ NoneAfter(incoming', Commands(o, {Cleared}), Request(o))
           <=> NoneAfter(incoming, Commands(o, {Cleared}), Request(o))
      /\ NoneAfter(incoming', Commands(o, Final), Commands(o, {"executing"}))
           <=> NoneAfter(incoming, Commands(o, Final), Commands(o, {"executing"}))
  BY IncomingAlike DEF Unmoved
<1>3. /\ \A S \in SUBSET {"init", Cleared} : Has(out', Commands(o, S)) <=> Has(out, Commands(o, S))
      /\ \A S \in SUBSET Told : Has(out', Statuses(o, S)) <=> Has(out, Statuses(o, S))
      /\ Has(out', UpOf(o)) <=> Has(out, UpOf(o))
      /\ Has(out', Showing(o, {"applied"})) <=> Has(out, Showing(o, {"applied"}))
      /\ Has(out', Going(o)) <=> Has(out, Going(o))
      /\ Has(out', Over(o)) <=> Has(out, Over(o))
      /\ NoneAfter(out', Over(o), Going(o)) <=> NoneAfter(out, Over(o), Going(o))
      /\ \A S \in SUBSET {"init", Cleared} :
           NoneAfter(out', Commands(o, S), Commands(o, S)) <=> NoneAfter(out, Commands(o, S), Commands(o, S))
      /\ Led(out', Commands(o, {Cleared}), Statuses(o, Final)) <=> Led(out, Commands(o, {Cleared}), Statuses(o, Final))
      /\ Led(out', Commands(o, {Cleared}), Listing(o)) <=> Led(out, Commands(o, {Cleared}), Listing(o))
      /\ Led(out', Commands(o, {Cleared}), Showing(o, {"applied"}))
           <=> Led(out, Commands(o, {Cleared}), Showing(o, {"applied"}))
  BY OutAlike DEF Unmoved
<1>4. /\ \A S \in SUBSET Told : Has(uplink', Statuses(o, S)) <=> Has(uplink, Statuses(o, S))
      /\ Has(uplink', UpOf(o)) <=> Has(uplink, UpOf(o))
      /\ NoneAfter(uplink', Statuses(o, Final), Statuses(o, {"executing"}))
           <=> NoneAfter(uplink, Statuses(o, Final), Statuses(o, {"executing"}))
  BY OutAlike DEF Unmoved
<1>5. TopicTrue(o)' /\ (Begun(o)' <=> Begun(o)) /\ (Valid(o)' <=> Valid(o))
  BY <1>1 DEF OpInv, TopicTrue, Begun, Valid
<1>6. BegunFirst(o)'
  BY <1>1, <1>2, <1>3, <1>5, SomeSets DEF OpInv, BegunFirst
<1>7. (Blank(o)' <=> Blank(o)) /\ (Fresh(o)' <=> Fresh(o))
  BY <1>1, <1>3, <1>4, <1>5 DEF Blank, Fresh
<1>8. RequestedOnce(o)'
  BY <1>1, <1>2, <1>3, <1>7, SomeSets DEF OpInv, RequestedOnce
<1>9. \A s \in Final : Says(o, s)' <=> Says(o, s)
  BY <1>1, <1>3, <1>4, SomeSets DEF Says
<1>10. SaidTruly(o)'
  BY <1>1, <1>2, <1>3, <1>9, SomeSets DEF OpInv, SaidTruly
<1>11. /\ (OverCloud(o)' <=> OverCloud(o)) /\ (OverUplink(o)' <=> OverUplink(o))
       /\ (OverOut(o)' <=> OverOut(o)) /\ (OverTasks(o)' <=> OverTasks(o))
  BY <1>1, <1>3, <1>4, SomeSets DEF OverCloud, OverUplink, OverOut, OverTasks
<1>12. InOrder(o)'
  BY <1>1, <1>2, <1>3, <1>4, <1>11, SomeSets DEF OpInv, InOrder
<1>13. EndedOnce(o)'
  BY <1>1, <1>2, <1>3, SomeSets DEF OpInv, EndedOnce
<1>14. (Reported(o)' <=> Reported(o)) /\ (Lists(o)' <=> Lists(o)) /\ (Applies(o)' <=> Applies(o))
  BY <1>1, <1>4, SomeSets DEF Reported, Lists, Applies
<1>15. ClearedLast(o)'
  BY <1>1, <1>3, <1>14 DEF OpInv, ClearedLast
<1> QED
  BY <1>5, <1>6, <1>8, <1>10, <1>12, <1>13, <1>15 DEF OpInv

LEMMA InGrown ==
  ASSUME NEW q \in Seq(AnyIn), NEW o \in Ops, NEW m \in InOf(o)
  PROVE  /\ <<m>> \in Seq(AnyIn) /\ Append(q, m) = q \o <<m>> /\ Append(q, m) \in Seq(AnyIn)
         /\ \A p \in Ops : p # o => Alike(q, Append(q, m), InOf(p))
<1>1. m \in AnyIn
  BY DEF AnyIn
<1>2. <<m>> \in Seq(AnyIn) /\ Append(q, m) \in Seq(AnyIn) /\ Append(q, m) = q \o <<m>>
  BY <1>1
<1>3. ASSUME NEW p \in Ops, p # o
      PROVE  Alike(q, q \o <<m>>, InOf(p))
  <2>1. m \notin InOf(p)
    BY <1>3, InOfOne
  <2>2. ~Has(<<m>>, InOf(p))
    BY <2>1, OfOne
  <2> QED
    BY <1>2, <2>2, AlikeConcat
<1> QED
  BY <1>2, <1>3

LEMMA InTaken ==
  ASSUME NEW q \in Seq(AnyIn), q # <<>>
  PROVE  /\ Head(q) \in AnyIn /\ Tail(q) \in Seq(AnyIn)
         /\ \A o, p \in Ops : p # o /\ Head(q) \in InOf(o) => Alike(q, Tail(q), InOf(p))
<1>1. Head(q) \in AnyIn /\ Tail(q) \in Seq(AnyIn)
  OBVIOUS
<1>2. ASSUME NEW o \in Ops, NEW p \in Ops, p # o, Head(q) \in InOf(o)
      PROVE  Alike(q, Tail(q), InOf(p))
  <2>1. Head(q) \notin InOf(p)
    BY <1>2, InOfOne
  <2> QED
    BY <2>1, AlikeTail
<1> QED
  BY <1>1, <1>2

LEMMA OutGrown ==
  ASSUME NEW q \in Seq(AnyOut), NEW o \in Ops, NEW r \in Seq(OutOf(o))
  PROVE  /\ r \in Seq(AnyOut) /\ q \o r \in Seq(AnyOut)
         /\ \A p \in Ops : p # o => Alike(q, q \o r, OutOf(p))
<1>1. OutOf(o) \subseteq AnyOut
  BY DEF AnyOut
<1>2. r \in Seq(AnyOut)
  BY <1>1, SeqMonotonic
<1>3. q \o r \in Seq(AnyOut)
  BY <1>2
<1>4. ASSUME NEW p \in Ops, p # o
      PROVE  Alike(q, q \o r, OutOf(p))
  <2>1. \A i \in DOMAIN r : r[i] \in OutOf(o)
    OBVIOUS
  <2>2. \A i \in DOMAIN r : r[i] \notin OutOf(p)
    BY <1>4, <2>1, OutOfOne
  <2>3. ~Has(r, OutOf(p))
    BY <2>2 DEF Has
  <2> QED
    BY <1>2, <2>3, AlikeConcat
<1> QED
  BY <1>2, <1>3, <1>4

LEMMA OutTaken ==
  ASSUME NEW q \in Seq(AnyOut), q # <<>>
  PROVE  /\ Head(q) \in AnyOut /\ Tail(q) \in Seq(AnyOut)
         /\ \A o, p \in Ops : p # o /\ Head(q) \in OutOf(o) => Alike(q, Tail(q), OutOf(p))
         /\ \A p \in Ops : Head(q) = PendingRequest => Alike(q, Tail(q), OutOf(p))
<1>1. Head(q) \in AnyOut /\ Tail(q) \in Seq(AnyOut)
  OBVIOUS
<1>2. ASSUME NEW o \in Ops, NEW p \in Ops, p # o, Head(q) \in OutOf(o)
      PROVE  Alike(q, Tail(q), OutOf(p))
  <2>1. Head(q) \notin OutOf(p)
    BY <1>2, OutOfOne
  <2> QED
    BY <2>1, AlikeTail
<1>3. ASSUME NEW p \in Ops, Head(q) = PendingRequest
      PROVE  Alike(q, Tail(q), OutOf(p))
  <2>1. Head(q) \notin OutOf(p)
    BY <1>3, PendingOf
  <2> QED
    BY <2>1, AlikeTail
<1> QED
  BY <1>1, <1>2, <1>3

LEMMA UpIsOut ==
  AnyUp \subseteq AnyOut /\ \A q \in Seq(AnyUp) : q \in Seq(AnyOut)
<1>1. AnyUp \subseteq AnyOut
  <2>1. \A o \in Ops : UpOf(o) \subseteq OutOf(o)
    BY DEF OutOf
  <2> QED
    BY <2>1 DEF AnyUp, AnyOut
<1> QED
  BY <1>1, SeqMonotonic

\* Nothing known of the operation changes but the requests for it.
LEMMA RequestSent ==
  ASSUME Queued, NEW o \in Ops, OpInv(o), NEW r \in Seq(AnyIn), incoming' = incoming \o r,
         ~Has(r, Commands(o, Live \cup {Cleared})), NoneAfter(r, Request(o), Request(o)),
         ~Has(incoming, Request(o)), ~Has(incoming, Commands(o, {Cleared})),
         ~Has(out, Commands(o, {"init"})), Blank(o) \/ o \in active,
         Alike(uplink, uplink', OutOf(o)),
         cloud[o] \in {None, "pending"}, cloud'[o] = "pending",
         UNCHANGED <<kind, topic, ran, stored, effectVars, mapperVars, out>>
  PROVE  OpInv(o)'
<1>0. UNCHANGED <<kind, topic, ran, stored, listed, shown, active, running, tasks, out>>
  BY DEF effectVars, mapperVars
<1>1. incoming \in Seq(AnyIn)
  BY DEF Queued
<1>2. \A S \in SUBSET (Live \cup {Cleared}) : ~Has(r, Commands(o, S))
  <2> TAKE S \in SUBSET (Live \cup {Cleared})
  <2>1. Commands(o, S) \subseteq Commands(o, Live \cup {Cleared})
    BY DEF Commands
  <2> QED
    BY <2>1, HasLess
<1>3. \A S \in SUBSET (Live \cup {Cleared}) : Has(incoming', Commands(o, S)) <=> Has(incoming, Commands(o, S))
  BY <1>1, <1>2, HasConcat
<1>4. NoneAfter(incoming', Commands(o, Final), Commands(o, {"executing"}))
        <=> NoneAfter(incoming, Commands(o, Final), Commands(o, {"executing"}))
  BY <1>1, <1>2, NoneAfterConcat, OfNone, SomeSets
<1>5. /\ NoneAfter(incoming', Request(o), Request(o))
      /\ NoneAfter(incoming', Commands(o, {Cleared}), Request(o))
  <2>1. ~Has(r, Commands(o, {Cleared}))
    BY <1>2, SomeSets
  <2>2. NoneAfter(incoming, Request(o), Request(o)) /\ NoneAfter(incoming, Commands(o, {Cleared}), Request(o))
        /\ NoneAfter(r, Commands(o, {Cleared}), Request(o))
    BY <2>1, OfNone
  <2> QED
    BY <1>1, <2>2, NoneAfterConcat
<1>6. /\ \A S \in SUBSET Told : Has(uplink', Statuses(o, S)) <=> Has(uplink, Statuses(o, S))
      /\ Has(uplink', UpOf(o)) <=> Has(uplink, UpOf(o))
      /\ NoneAfter(uplink', Statuses(o, Final), Statuses(o, {"executing"}))
           <=> NoneAfter(uplink, Statuses(o, Final), Statuses(o, {"executing"}))
  BY OutAlike
<1>7. cloud[o] \notin Final /\ cloud'[o] \notin Final
  BY DEF Final, None
<1>8. TopicTrue(o)' /\ (Begun(o)' <=> Begun(o)) /\ (Valid(o)' <=> Valid(o))
  BY <1>0 DEF OpInv, TopicTrue, Begun, Valid
<1>9. BegunFirst(o)'
  BY <1>0, <1>3, <1>8, SomeSets DEF OpInv, BegunFirst
<1>10. Blank(o) => Fresh(o)'
  BY <1>0, <1>6, <1>8 DEF Blank, Fresh
<1>11. RequestedOnce(o)'
  BY <1>0, <1>5, <1>10, OfNone DEF RequestedOnce, None
<1>12. \A s \in Final : Says(o, s)' <=> Says(o, s)
  BY <1>0, <1>6, <1>7, SomeSets DEF Says
<1>13. SaidTruly(o)'
  BY <1>0, <1>3, <1>12, SomeSets DEF OpInv, SaidTruly
<1>14. /\ (OverCloud(o)' <=> OverCloud(o)) /\ (OverUplink(o)' <=> OverUplink(o))
       /\ (OverOut(o)' <=> OverOut(o)) /\ (OverTasks(o)' <=> OverTasks(o))
  BY <1>0, <1>6, <1>7, SomeSets DEF OverCloud, OverUplink, OverOut, OverTasks
<1>15. InOrder(o)'
  BY <1>0, <1>3, <1>4, <1>6, <1>14, SomeSets DEF OpInv, InOrder
<1>16. EndedOnce(o)'
  BY <1>0, <1>3, SomeSets DEF OpInv, EndedOnce
<1>17. (Reported(o)' <=> Reported(o)) /\ (Lists(o)' <=> Lists(o)) /\ (Applies(o)' <=> Applies(o))
  BY <1>0, <1>6, <1>7, SomeSets DEF Reported, Lists, Applies
<1>18. ClearedLast(o)'
  BY <1>0, <1>17 DEF OpInv, ClearedLast
<1> QED
  BY <1>8, <1>9, <1>11, <1>13, <1>15, <1>16, <1>18 DEF OpInv

LEMMA CreateInv ==
  ASSUME OperationsInv, NEW o \in Ops, CreateOperation(o)
  PROVE  OperationsInv'
<1>0. /\ incoming \in Seq(AnyIn) /\ uplink \in Seq(AnyUp) /\ out \in Seq(AnyOut)
      /\ OperationsTypeOK /\ Queued /\ \A p \in Ops : OpInv(p)
  BY DEF OperationsInv, Queued
<1>1. /\ cloud[o] = None /\ cloud' = [cloud EXCEPT ![o] = "pending"]
      /\ UNCHANGED <<kind, uplink, topic, ran, stored, listed, shown, up, active, running, tasks, out, crashes>>
      /\ UNCHANGED <<effectVars, mapperVars>>
  BY DEF CreateOperation, effectVars, mapperVars
<1>2. PICK r \in {<<>>, <<Operations(<<o>>)>>} : incoming' = incoming \o r /\ r \in Seq(AnyIn)
  <2>1. Operations(<<o>>) \in InOf(o)
    BY RequestIn DEF InOf
  <2>2. CASE incoming' = Append(incoming, Operations(<<o>>))
    BY <1>0, <2>1, <2>2, InGrown
  <2>3. CASE incoming' = incoming
    BY <1>0, <2>3, ConcatEmptySeq
  <2> QED
    BY <2>2, <2>3 DEF CreateOperation
<1>3. OperationsTypeOK'
  BY <1>0, <1>1 DEF OperationsTypeOK
<1>4. Queued'
  BY <1>0, <1>1, <1>2 DEF Queued
<1>5. ASSUME NEW p \in Ops, p # o
      PROVE  OpInv(p)'
  <2>1. ~Has(r, InOf(p))
    <3>1. CASE r = <<>>
      BY <3>1, OfEmpty
    <3>2. CASE r = <<Operations(<<o>>)>>
      <4>1. Operations(<<o>>) \notin InOf(p)
        BY <1>5, RequestIn DEF InOf
      <4> QED
        BY <3>2, <4>1, OfOne
    <3> QED
      BY <1>2, <3>1, <3>2
  <2>2. Alike(incoming, incoming', InOf(p))
    BY <1>0, <1>2, <2>1, AlikeConcat
  <2>3. cloud'[p] = cloud[p]
    BY <1>0, <1>1, <1>5 DEF OperationsTypeOK
  <2>4. Unmoved(p)
    BY <1>1, <2>2, <2>3, AlikeSame DEF Unmoved
  <2> QED
    BY <1>0, <2>4, UnmovedInv
<1>6. OpInv(o)'
  <2>1. Blank(o) /\ ~Begun(o) /\ ~Fresh(o)
    BY <1>0, <1>1 DEF OpInv, RequestedOnce, Blank, Fresh, None
  <2>2. o \notin active /\ ~Has(incoming, Commands(o, Live \cup {Cleared}))
    BY <1>0, <2>1 DEF OpInv, BegunFirst
  <2>3. ~Has(incoming, Request(o)) /\ ~Has(out, Commands(o, {"init"}))
    BY <1>0, <2>1, <2>2 DEF OpInv, RequestedOnce
  <2>4. ~Has(incoming, Commands(o, {Cleared}))
    <3>1. Commands(o, {Cleared}) \subseteq Commands(o, Live \cup {Cleared})
      BY DEF Commands
    <3> QED
      BY <2>2, <3>1, HasLess
  <2>5. ~Has(r, Commands(o, Live \cup {Cleared})) /\ NoneAfter(r, Request(o), Request(o))
    <3>1. CASE r = <<>>
      BY <3>1, OfEmpty
    <3>2. CASE r = <<Operations(<<o>>)>>
      <4>1. Operations(<<o>>) \notin Commands(o, Live \cup {Cleared})
        BY RequestIn
      <4> QED
        BY <3>2, <4>1, OfOne
    <3> QED
      BY <1>2, <3>1, <3>2
  <2>6. cloud'[o] = "pending"
    BY <1>0, <1>1 DEF OperationsTypeOK
  <2>7. Alike(uplink, uplink', OutOf(o))
    BY <1>1, AlikeSame
  <2> QED
    BY <1>0, <1>1, <1>2, <2>1, <2>3, <2>4, <2>5, <2>6, <2>7, RequestSent
<1> QED
  BY <1>3, <1>4, <1>5, <1>6 DEF OperationsInv

------------------------------------------------------------------------------
(* The cloud and the agent.                                                    *)

LEMMA StatusReceived ==
  ASSUME Queued, NEW o \in Ops, OpInv(o), NEW s \in Told,
         uplink # <<>>, Head(uplink) = Status(o, s), uplink' = Tail(uplink), cloud'[o] = s,
         UNCHANGED <<kind, topic, ran, stored, effectVars, incoming, mapperVars, out>>
  PROVE  OpInv(o)'
<1>0. UNCHANGED <<kind, topic, ran, stored, listed, shown, incoming, active, running, tasks, out>>
  BY DEF effectVars, mapperVars
<1>1. uplink \in Seq(AnyUp)
  BY DEF Queued
<1>2. \A A : Has(uplink, A) <=> Status(o, s) \in A \/ Has(uplink', A)
  BY <1>1, HasTail
<1>3. \A S : Status(o, s) \in Statuses(o, S) <=> s \in S
  BY StatusIn
<1>5. /\ NoneAfter(uplink', Statuses(o, Final), Statuses(o, {"executing"}))
      /\ s \in Final => ~Has(uplink', Statuses(o, {"executing"}))
  BY <1>1, <1>3, NoneAfterTail DEF OpInv, InOrder
<1>6. ~Blank(o) /\ cloud[o] # None
  <2>1. Status(o, s) \in UpOf(o)
    BY <1>3 DEF UpOf
  <2>2. Has(uplink, UpOf(o))
    BY <1>2, <2>1
  <2> QED
    BY <2>2 DEF Blank, OpInv, RequestedOnce
<1>7. ~(cloud[o] \in Final /\ s = "executing")
  BY <1>2, <1>3 DEF OpInv, InOrder, OverCloud
<1>8. s # None /\ (s = "executing" \/ s \in Final) /\ "executing" \notin Final
  BY DEF Told, None, Final
<1>9. TopicTrue(o)' /\ (Begun(o)' <=> Begun(o)) /\ (Valid(o)' <=> Valid(o)) /\ BegunFirst(o)'
  BY <1>0 DEF OpInv, TopicTrue, Begun, Valid, BegunFirst
<1>10. RequestedOnce(o)'
  BY <1>0, <1>6, <1>8 DEF OpInv, RequestedOnce, Fresh
<1>11. \A t \in Final : Says(o, t)' => Says(o, t)
  <2> TAKE t \in Final
  <2>1. CASE s = t
    BY <1>2, <1>3, <2>1 DEF Says
  <2>2. CASE s # t
    BY <1>0, <1>2, <2>2 DEF Says
  <2> QED
    BY <2>1, <2>2
<1>12. SaidTruly(o)'
  BY <1>0, <1>11, SomeSets DEF OpInv, SaidTruly
<1>13. /\ OverUplink(o)' => OverUplink(o) /\ (OverCloud(o)' => s \in Final)
  BY <1>0, <1>2, <1>3 DEF OverUplink, OverCloud
<1>14. (OverOut(o)' => OverOut(o)) /\ (OverTasks(o)' => OverTasks(o)) /\ (OverCloud(o)' => s \in Final)
  BY <1>0, <1>13 DEF OverOut, OverTasks, OverCloud
<1>15. InOrder(o)'
  BY <1>0, <1>5, <1>13, <1>14 DEF OpInv, InOrder
<1>16. EndedOnce(o)'
  BY <1>0 DEF OpInv, EndedOnce
<1>17. (Reported(o) => Reported(o)') /\ (Lists(o)' <=> Lists(o)) /\ (Applies(o)' <=> Applies(o))
  BY <1>0, <1>2, <1>3, <1>7, <1>8 DEF Reported, Lists, Applies
<1>18. ClearedLast(o)'
  BY <1>0, <1>17 DEF OpInv, ClearedLast
<1> QED
  BY <1>9, <1>10, <1>12, <1>15, <1>16, <1>18 DEF OpInv

\* The operations sent again.
LEMMA SentAgain ==
  ASSUME NEW P \in SUBSET Ops
  PROVE  LET r == SetToSeq({Operations(<<o>>) : o \in P})
         IN  /\ r \in Seq(AnyIn)
             /\ \A o \in Ops : /\ ~Has(r, Commands(o, Live \cup {Cleared}))
                               /\ NoneAfter(r, Request(o), Request(o))
                               /\ o \notin P => ~Has(r, InOf(o))
<1> DEFINE R == {Operations(<<o>>) : o \in P}
           f == [o \in P |-> Operations(<<o>>)]
           r == SetToSeq(R)
<1>1. IsFiniteSet(P)
  BY OperationAssumption, FS_Subset
<1>2. f \in Surjection(P, R)
  BY DEF Surjection
<1>3. IsFiniteSet(R)
  BY <1>1, <1>2, FS_Surjection
<1> HIDE DEF R, f, r
<1>4. /\ r \in Seq(R) /\ Len(r) \in Nat
      /\ \A i, j \in 1 .. Len(r) : i # j => r[i] # r[j]
  BY <1>3, SetToSeqProperties DEF r
<1>5. R \subseteq AnyIn
  <2>1. \A o \in P : Operations(<<o>>) \in InOf(o)
    BY RequestIn DEF InOf
  <2> QED
    BY <2>1 DEF R, AnyIn
<1>6. r \in Seq(AnyIn)
  BY <1>4, <1>5, SeqMonotonic
<1>7. DOMAIN r = 1 .. Len(r) /\ \A i \in DOMAIN r : r[i] \in R
  BY <1>4
<1>8. \A i \in DOMAIN r : \E o \in P : r[i] = Operations(<<o>>)
  BY <1>7 DEF R
<1>9. ASSUME NEW o \in Ops
      PROVE  ~Has(r, Commands(o, Live \cup {Cleared}))
  <2> SUFFICES ASSUME NEW i \in DOMAIN r
               PROVE  r[i] \notin Commands(o, Live \cup {Cleared})
    BY DEF Has
  <2>1. PICK p \in P : r[i] = Operations(<<p>>)
    BY <1>8
  <2> QED
    BY <2>1, RequestIn
<1>10. ASSUME NEW o \in Ops
       PROVE  NoneAfter(r, Request(o), Request(o))
  <2> SUFFICES ASSUME NEW i \in DOMAIN r, NEW j \in DOMAIN r, i < j, r[i] \in Request(o), r[j] \in Request(o)
               PROVE  FALSE
    BY DEF NoneAfter
  <2>1. r[i] = r[j] /\ i # j
    BY <1>7 DEF Request
  <2> QED
    BY <1>4, <1>7, <2>1
<1>11. ASSUME NEW o \in Ops, o \notin P
       PROVE  ~Has(r, InOf(o))
  <2> SUFFICES ASSUME NEW i \in DOMAIN r
               PROVE  r[i] \notin InOf(o)
    BY DEF Has
  <2>1. PICK p \in P : r[i] = Operations(<<p>>)
    BY <1>8
  <2>2. p # o
    BY <1>11
  <2> QED
    BY <2>1, <2>2, RequestIn DEF InOf
<1> QED
  BY <1>6, <1>9, <1>10, <1>11 DEF r, R

LEMMA CloudReceivesInv ==
  ASSUME OperationsInv, ~Batched, ~Overlapping, CloudReceives
  PROVE  OperationsInv'
<1>0. /\ incoming \in Seq(AnyIn) /\ uplink \in Seq(AnyUp) /\ out \in Seq(AnyOut)
      /\ OperationsTypeOK /\ Queued /\ \A p \in Ops : OpInv(p)
  BY DEF OperationsInv, Queued
<1>1. /\ uplink # <<>> /\ uplink' = Tail(uplink)
      /\ UNCHANGED <<kind, topic, ran, stored, listed, shown, up, active, running, tasks, out, crashes>>
      /\ UNCHANGED <<effectVars, mapperVars>>
  BY DEF CloudReceives, effectVars, mapperVars
<1>2. Head(uplink) \in AnyUp /\ uplink' \in Seq(AnyUp) /\ uplink \in Seq(AnyOut)
  BY <1>0, <1>1, UpIsOut
<1>3. ASSUME NEW o \in Ops, Head(uplink) \in UpOf(o)
      PROVE  OperationsInv'
  <2>1. PICK s \in Told : Head(uplink) = Status(o, s)
    BY <1>3 DEF UpOf, Statuses
  <2>2. Head(uplink) # PendingRequest /\ Head(uplink).op = o /\ Head(uplink).status = s
    BY <2>1, StatusIn DEF Status
  <2>3. cloud' = [cloud EXCEPT ![o] = s] /\ UNCHANGED incoming
    BY <2>2 DEF CloudReceives
  <2>4. OperationsTypeOK'
    BY <1>0, <1>1, <2>3 DEF OperationsTypeOK, Told
  <2>5. Queued'
    BY <1>0, <1>1, <1>2, <2>3 DEF Queued
  <2>6. ASSUME NEW p \in Ops, p # o
        PROVE  OpInv(p)'
    <3>1. Head(uplink) \in OutOf(o)
      BY <1>3 DEF OutOf
    <3>2. Alike(uplink, uplink', OutOf(p))
      BY <1>1, <1>2, <2>6, <3>1, OutTaken
    <3>3. cloud'[p] = cloud[p]
      BY <1>0, <2>3, <2>6 DEF OperationsTypeOK
    <3>4. Unmoved(p)
      BY <1>1, <2>3, <3>2, <3>3, AlikeSame DEF Unmoved
    <3> QED
      BY <1>0, <3>4, UnmovedInv
  <2>7. cloud'[o] = s
    BY <1>0, <2>3 DEF OperationsTypeOK
  <2>8. OpInv(o)'
    BY <1>0, <1>1, <2>1, <2>3, <2>7, StatusReceived
  <2> QED
    BY <2>4, <2>5, <2>6, <2>8 DEF OperationsInv
<1>4. CASE Head(uplink) = PendingRequest
  <2> DEFINE P == {o \in Ops : cloud[o] = "pending" /\ ~Unseen(o)}
             r == SetToSeq({Operations(<<o>>) : o \in P})
  <2>1. UNCHANGED cloud /\ (incoming' = incoming \/ incoming' = incoming \o r)
    BY <1>4 DEF CloudReceives
  <2>2. /\ r \in Seq(AnyIn)
        /\ \A o \in Ops : /\ ~Has(r, Commands(o, Live \cup {Cleared}))
                          /\ NoneAfter(r, Request(o), Request(o))
                          /\ o \notin P => ~Has(r, InOf(o))
    BY SentAgain
  <2> HIDE DEF r, P
  <2>3. incoming' \in Seq(AnyIn)
    <3>1. incoming \o r \in Seq(AnyIn)
      BY <1>0, <2>2, ConcatProperties
    <3> QED
      BY <1>0, <2>1, <3>1
  <2>4. OperationsTypeOK'
    BY <1>0, <1>1, <2>1 DEF OperationsTypeOK
  <2>5. Queued'
    BY <1>0, <1>1, <1>2, <2>3 DEF Queued
  <2>6. \A o \in Ops : Alike(uplink, uplink', OutOf(o))
    BY <1>1, <1>2, <1>4, OutTaken
  <2>7. ASSUME NEW o \in Ops, Alike(incoming, incoming', InOf(o))
        PROVE  OpInv(o)'
    <3>1. Unmoved(o)
      BY <1>1, <2>1, <2>6, <2>7, AlikeSame DEF Unmoved
    <3> QED
      BY <1>0, <3>1, UnmovedInv
  <2>8. ASSUME NEW o \in Ops
        PROVE  OpInv(o)'
    <3>1. CASE incoming' = incoming
      BY <2>7, <3>1, AlikeSame
    <3>2. CASE incoming' = incoming \o r /\ o \notin P
      <4>1. Alike(incoming, incoming', InOf(o))
        BY <1>0, <2>2, <3>2, AlikeConcat
      <4> QED
        BY <2>7, <4>1
    <3>3. CASE incoming' = incoming \o r /\ o \in P
      <4>1. cloud[o] = "pending" /\ ~Unseen(o) /\ OpInv(o)
        BY <1>0, <3>3 DEF P
      <4>2. ~Has(incoming, Request(o))
        <5>1. "ops" \in DOMAIN Operations(<<o>>) /\ Contains(Operations(<<o>>).ops, o)
          BY DEF Operations, Contains
        <5> QED
          BY <4>1, <5>1 DEF Has, Request, Unseen
      <4>3. ~Has(out, UpOf(o)) /\ ~Has(uplink, UpOf(o)) /\ ~Has(out, Commands(o, {"init"}))
        <5>1. \A t \in Told : o \in {Status(o, t)[f] : f \in DOMAIN Status(o, t)}
          BY DEF Status
        <5>2. o \in {Command(o, "init")[f] : f \in DOMAIN Command(o, "init")}
          BY DEF Command
        <5>3. \A q \in {out, uplink} : \A i \in DOMAIN q : o \notin {q[i][f] : f \in DOMAIN q[i]}
          BY <4>1 DEF Unseen
        <5>4. \A q \in {out, uplink} : \A i \in DOMAIN q : q[i] \notin UpOf(o)
          BY <5>1, <5>3 DEF UpOf, Statuses
        <5>5. \A i \in DOMAIN out : out[i] \notin Commands(o, {"init"})
          BY <5>2, <5>3 DEF Commands
        <5> QED
          BY <5>4, <5>5 DEF Has
      <4>4. topic[o] = Cleared \/ o \in active
        BY <4>1 DEF Unseen
      <4>5. topic[o] = Cleared => Blank(o)
        <5>1. ~Has(uplink, Statuses(o, Final))
          <6>1. Statuses(o, Final) \subseteq UpOf(o)
            BY DEF Statuses, UpOf, Told
          <6> QED
            BY <4>3, <6>1, HasLess
        <5>2. ~Reported(o)
          BY <4>1, <5>1 DEF Reported, Final
        <5> QED
          BY <4>1, <4>3, <5>2 DEF OpInv, ClearedLast, Blank, Begun
      <4>6. ~Has(incoming, Commands(o, {Cleared}))
        <5>1. CASE topic[o] = Cleared
          <6>1. ~Has(incoming, Commands(o, Live \cup {Cleared}))
            BY <4>1, <4>5, <5>1 DEF Blank, OpInv, BegunFirst
          <6>2. Commands(o, {Cleared}) \subseteq Commands(o, Live \cup {Cleared})
            BY DEF Commands
          <6> QED
            BY <6>1, <6>2, HasLess
        <5>2. CASE topic[o] # Cleared
          BY <4>1, <5>2 DEF OpInv, EndedOnce
        <5> QED
          BY <5>1, <5>2
      <4>7. cloud'[o] = "pending"
        BY <2>1, <4>1
      <4> QED
        BY <1>0, <1>1, <2>2, <2>6, <3>3, <4>1, <4>2, <4>3, <4>4, <4>5, <4>6, <4>7, RequestSent
    <3> QED
      BY <2>1, <3>1, <3>2, <3>3
  <2> QED
    BY <2>4, <2>5, <2>8 DEF OperationsInv
<1> QED
  BY <1>2, <1>3, <1>4 DEF AnyUp

LEMMA OverParts ==
  ASSUME NEW o, NEW q
  PROVE  /\ Has(q, Statuses(o, Final)) <=> Has(q, Statuses(o, {"successful"})) \/ Has(q, Statuses(o, {"failed"}))
         /\ Has(q, Over(o)) <=> Has(q, Statuses(o, Final)) \/ Has(q, Showing(o, {"applied"}))
         /\ Has(q, Commands(o, Final)) <=> Has(q, Commands(o, {"successful"})) \/ Has(q, Commands(o, {"failed"}))
         /\ Has(q, Final) <=> Has(q, {"successful"}) \/ Has(q, {"failed"})
<1>1. /\ Statuses(o, Final) = Statuses(o, {"successful"}) \cup Statuses(o, {"failed"})
      /\ Commands(o, Final) = Commands(o, {"successful"}) \cup Commands(o, {"failed"})
      /\ Final = {"successful"} \cup {"failed"}
  BY DEF Statuses, Commands, Final
<1>2. \A A, B : Has(q, A \cup B) <=> Has(q, A) \/ Has(q, B)
  BY DEF Has
<1> QED
  BY <1>1, <1>2 DEF Over

\* The outcome of an operation comes from the agent, but for an invalid one.
LEMMA NotOver ==
  ASSUME NEW o \in Ops, OpInv(o), ran[o] = None, kind[o] # "invalid" \/ Fresh(o)
  PROVE  /\ ~OverTasks(o) /\ ~OverOut(o) /\ ~OverUplink(o) /\ ~OverCloud(o)
         /\ ~Has(incoming, Commands(o, Final)) /\ ~Has(tasks[o], Final)
         /\ ~Says(o, "successful") /\ ~Says(o, "failed") /\ shown[o] # "applied"
         /\ ~Has(out, Showing(o, {"applied"}))
<1>0. None # "successful" /\ None # "failed"
  BY DEF None
<1>1. ~Says(o, "successful") /\ shown[o] # "applied" /\ ~Has(out, Showing(o, {"applied"}))
  BY <1>0 DEF OpInv, SaidTruly
<1>2. ~Says(o, "failed")
  <2>1. CASE kind[o] # "invalid"
    BY <1>0, <2>1 DEF OpInv, SaidTruly
  <2>2. CASE Fresh(o)
    <3>1. Statuses(o, {"failed"}) \subseteq UpOf(o)
      BY DEF Statuses, UpOf, Told, Final
    <3>2. ~Has(out, Statuses(o, {"failed"})) /\ ~Has(uplink, Statuses(o, {"failed"}))
      BY <2>2, <3>1, HasLess DEF Fresh, Blank
    <3> QED
      BY <2>2, <3>2 DEF Says, Fresh
  <2> QED
    BY <2>1, <2>2
<1>3. \A s \in Final : ~Has(incoming, Commands(o, {s})) /\ ~Has(tasks[o], {s})
  BY <1>0 DEF OpInv, SaidTruly, Final
<1>4. ~Has(incoming, Commands(o, Final)) /\ ~Has(tasks[o], Final)
  BY <1>3, OverParts, SomeSets
<1>5. ~Has(uplink, Statuses(o, Final)) /\ ~Has(out, Over(o)) /\ cloud[o] \notin Final
  BY <1>1, <1>2, OverParts DEF Says, Final
<1>6. ~OverCloud(o)
  BY <1>5 DEF OverCloud
<1>7. ~OverUplink(o)
  BY <1>1, <1>5, <1>6 DEF OverUplink
<1>8. ~OverOut(o)
  BY <1>5, <1>7 DEF OverOut
<1>9. ~OverTasks(o)
  BY <1>4, <1>8 DEF OverTasks
<1> QED
  BY <1>1, <1>2, <1>4, <1>6, <1>7, <1>8, <1>9

LEMMA AgentInv ==
  ASSUME OperationsInv, NEW o \in Ops, AgentStep(o)
  PROVE  OperationsInv'
<1>0. /\ incoming \in Seq(AnyIn) /\ uplink \in Seq(AnyUp) /\ out \in Seq(AnyOut)
      /\ OperationsTypeOK /\ Queued /\ \A p \in Ops : OpInv(p)
  BY DEF OperationsInv, Queued
<1>1. UNCHANGED <<kind, cloud, uplink, stored, listed, shown, up, active, running, tasks, out, crashes>>
  BY DEF AgentStep, effectVars, mapperVars
<1>2. PICK s \in {"executing"} \cup Final :
        /\ IF s = "executing" THEN topic[o] = "init" ELSE topic[o] = "executing"
        /\ topic' = [topic EXCEPT ![o] = s]
        /\ ran' = IF s \in Final THEN [ran EXCEPT ![o] = s] ELSE ran
        /\ incoming' = Append(incoming, Command(o, s))
  BY DEF AgentStep
<1>3. Command(o, s) \in InOf(o) /\ s \in Live
  <2>1. s \in Live
    BY DEF Live
  <2> QED
    BY <2>1, CommandIn DEF InOf
<1>4. /\ topic'[o] = s /\ \A p \in Ops : p # o => topic'[p] = topic[p] /\ ran'[p] = ran[p]
      /\ ran'[o] = IF s \in Final THEN s ELSE ran[o]
  BY <1>0, <1>2 DEF OperationsTypeOK
<1>5. OperationsTypeOK'
  BY <1>0, <1>1, <1>2 DEF OperationsTypeOK
<1>6. incoming' \in Seq(AnyIn) /\ <<Command(o, s)>> \in Seq(AnyIn) /\ incoming' = incoming \o <<Command(o, s)>>
  BY <1>0, <1>2, <1>3, InGrown
<1>7. Queued'
  BY <1>0, <1>1, <1>6 DEF Queued
<1>8. ASSUME NEW p \in Ops, p # o
      PROVE  OpInv(p)'
  <2>1. Alike(incoming, incoming', InOf(p))
    BY <1>0, <1>2, <1>3, <1>8, InGrown
  <2>2. Unmoved(p)
    BY <1>1, <1>4, <1>8, <2>1, AlikeSame DEF Unmoved
  <2> QED
    BY <1>0, <2>2, UnmovedInv
<1>9. OpInv(o)'
  <2>0. OpInv(o) /\ topic[o] \in {"init", "executing"} /\ ran[o] = None
    BY <1>0, <1>2 DEF OpInv, TopicTrue
  <2>1. topic[o] \notin Final /\ topic[o] # Cleared /\ s # Cleared /\ None \notin Final /\ "executing" \notin Final
    BY <2>0, OperationAssumption DEF Final, None
  <2>2. Begun(o) /\ Begun(o)' /\ Valid(o) /\ Valid(o)' /\ kind[o] # "invalid"
    BY <1>1, <1>4, <2>0, <2>1 DEF Begun, OpInv, BegunFirst, Valid
  <2>3. /\ ~OverTasks(o) /\ ~OverOut(o) /\ ~OverUplink(o) /\ ~OverCloud(o)
        /\ ~Has(incoming, Commands(o, Final)) /\ ~Has(tasks[o], Final)
        /\ ~Says(o, "successful") /\ ~Says(o, "failed") /\ shown[o] # "applied"
        /\ ~Has(out, Showing(o, {"applied"}))
    BY <2>0, <2>2, NotOver
  <2>4. /\ (OverCloud(o)' <=> OverCloud(o)) /\ (OverUplink(o)' <=> OverUplink(o))
        /\ (OverOut(o)' <=> OverOut(o)) /\ (OverTasks(o)' <=> OverTasks(o))
        /\ (Says(o, "successful")' <=> Says(o, "successful")) /\ (Says(o, "failed")' <=> Says(o, "failed"))
    BY <1>1 DEF OverCloud, OverUplink, OverOut, OverTasks, Says
  <2>5. \A A : Has(incoming', A) <=> Has(incoming, A) \/ Command(o, s) \in A
    BY <1>0, <1>6, HasConcat, OfOne
  <2>6. \A A, B : NoneAfter(incoming', A, B) <=> NoneAfter(incoming, A, B) /\ (Has(incoming, A) => Command(o, s) \notin B)
    BY <1>0, <1>6, NoneAfterConcat, OfOne
  <2>7. Command(o, s) \notin Request(o) /\ \A S : Command(o, s) \in Commands(o, S) <=> s \in S
    BY CommandIn
  <2>8. TopicTrue(o)'
    BY <1>4, <2>0, <2>1 DEF TopicTrue, Final
  <2>9. BegunFirst(o)'
    BY <2>2 DEF BegunFirst
  <2>10. ~Has(out, Commands(o, {"init"})) /\ (Has(incoming, Request(o)) => o \in active) /\ cloud[o] # None
    BY <2>0, <2>2 DEF OpInv, RequestedOnce, Fresh, Blank
  <2>11. RequestedOnce(o)'
    BY <1>1, <2>0, <2>2, <2>5, <2>6, <2>7, <2>10 DEF OpInv, RequestedOnce
  <2>12. ~Has(out, Commands(o, {Cleared}))
    BY <2>0, <2>1 DEF OpInv, EndedOnce
  <2>13. \A t \in Final : ~Has(incoming, Commands(o, {t})) /\ ~Has(tasks[o], {t})
    BY <2>3, OverParts DEF Final
  <2>14. SaidTruly(o)'
    BY <1>1, <1>4, <2>3, <2>4, <2>5, <2>7, <2>13 DEF SaidTruly
  <2>15. InOrder(o)'
    BY <1>1, <2>0, <2>3, <2>4, <2>6 DEF OpInv, InOrder
  <2>16. EndedOnce(o)'
    BY <1>1, <1>4, <2>0, <2>1, <2>3, <2>5, <2>7, <2>12 DEF OpInv, EndedOnce
  <2>17. ClearedLast(o)'
    BY <1>1, <1>4, <2>1, <2>12, OfNone DEF ClearedLast
  <2> QED
    BY <2>8, <2>9, <2>11, <2>14, <2>15, <2>16, <2>17 DEF OpInv
<1> QED
  BY <1>5, <1>7, <1>8, <1>9 DEF OperationsInv

------------------------------------------------------------------------------
(* The converter.                                                              *)

LEMMA OneOperation ==
  ASSUME NEW o
  PROVE  DeviceControl(<<o>>) = IF o \in active THEN <<>> ELSE Converted(o)
<1> DEFINE s == [i \in DOMAIN <<o>> |-> Converted(<<o>>[i])]
<1>1. DOMAIN <<o>> = 1 .. 1 /\ <<o>>[1] = o
  OBVIOUS
<1>2. s = [i \in 1 .. 1 |-> Converted(o)]
  BY <1>1
<1>3. DOMAIN s = 1 .. 1 /\ s[1] = Converted(o) /\ Len(s) = 1
  <2>1. DOMAIN s = 1 .. 1 /\ s[1] = Converted(o)
    BY <1>2
  <2>2. s \in Seq({Converted(o)})
    BY <1>2
  <2> QED
    BY <2>1, <2>2
<1> HIDE DEF s
<1>4. FlattenSeq(s) = Converted(o)
  <2> DEFINE G(f) == [i \in 1 .. Len(s) |-> IF i = 1 THEN s[i] ELSE f[i - 1] \o s[i]]
             w == [i \in 1 .. 1 |-> s[1]]
  <2>1. w = G(w)
    <3>1. \A i \in 1 .. 1 : i = 1
      OBVIOUS
    <3> QED
      BY <1>3, <3>1
  <2>2. \A f : f = G(f) => f[1] = s[1]
    BY <1>3
  <2> HIDE DEF w
  <2>3. (CHOOSE f : f = G(f)) = G(CHOOSE f : f = G(f))
    BY <2>1, Zenon
  <2>4. (CHOOSE f : f = G(f))[1] = s[1]
    BY <2>2, <2>3
  <2> QED
    BY <1>3, <2>4 DEF FlattenSeq
<1>5. (\E i \in DOMAIN <<o>> : <<o>>[i] \in active) <=> o \in active
  BY <1>1
<1> QED
  BY <1>4, <1>5 DEF DeviceControl, s

LEMMA RequestHandled ==
  ASSUME Queued, NEW o \in Ops, OpInv(o), incoming # <<>>, Head(incoming) = Operations(<<o>>),
         incoming' = Tail(incoming), out' = out \o DeviceControl(<<o>>),
         UNCHANGED <<kind, cloud, uplink, topic, ran, stored, effectVars, mapperVars>>
  PROVE  OpInv(o)' /\ DeviceControl(<<o>>) \in Seq(OutOf(o))
<1>0. /\ UNCHANGED <<kind, cloud, uplink, topic, ran, stored, listed, shown, active, running, tasks>>
      /\ incoming \in Seq(AnyIn) /\ out \in Seq(AnyOut)
  BY DEF effectVars, mapperVars, Queued
<1>1. \A A : Has(incoming, A) <=> Operations(<<o>>) \in A \/ Has(incoming', A)
  BY <1>0, HasTail
<1>2. \A A, B : NoneAfter(incoming, A, B) =>
        NoneAfter(incoming', A, B) /\ (Operations(<<o>>) \in A => ~Has(incoming', B))
  BY <1>0, NoneAfterTail
<1>3. Operations(<<o>>) \in Request(o) /\ \A S : Operations(<<o>>) \notin Commands(o, S)
  BY RequestIn
<1>4. /\ ~Has(incoming', Request(o)) /\ Has(incoming, Request(o))
      /\ NoneAfter(incoming', Request(o), Request(o))
      /\ NoneAfter(incoming', Commands(o, {Cleared}), Request(o))
      /\ NoneAfter(incoming', Commands(o, Final), Commands(o, {"executing"}))
      /\ \A S : Has(incoming', Commands(o, S)) <=> Has(incoming, Commands(o, S))
  BY <1>1, <1>2, <1>3 DEF OpInv, RequestedOnce, InOrder
<1>5. ~Has(out, Commands(o, {"init"})) /\ (Fresh(o) \/ o \in active)
  BY <1>4 DEF OpInv, RequestedOnce
<1>6. TopicTrue(o)' /\ (Begun(o)' <=> Begun(o)) /\ (Valid(o)' <=> Valid(o))
  BY <1>0 DEF OpInv, TopicTrue, Begun, Valid
<1>7. /\ (OverCloud(o)' <=> OverCloud(o)) /\ (OverUplink(o)' <=> OverUplink(o))
      /\ (Reported(o)' <=> Reported(o)) /\ (Lists(o)' <=> Lists(o)) /\ (Applies(o)' <=> Applies(o))
  BY <1>0 DEF OverCloud, OverUplink, Reported, Lists, Applies
<1>8. ASSUME DeviceControl(<<o>>) = <<>>
      PROVE  OpInv(o)' /\ DeviceControl(<<o>>) \in Seq(OutOf(o))
  <2>1. out' = out
    BY <1>0, <1>8, ConcatEmptySeq
  <2>2. BegunFirst(o)' /\ EndedOnce(o)'
    BY <1>0, <1>4, <1>6, <2>1 DEF OpInv, BegunFirst, EndedOnce
  <2>3. (Blank(o)' <=> Blank(o)) /\ (Fresh(o)' <=> Fresh(o))
    BY <1>0, <1>6, <2>1 DEF Blank, Fresh
  <2>4. RequestedOnce(o)'
    BY <1>0, <1>4, <2>1, <2>3 DEF OpInv, RequestedOnce
  <2>5. SaidTruly(o)'
    BY <1>0, <1>4, <2>1 DEF OpInv, SaidTruly, Says
  <2>6. InOrder(o)'
    BY <1>0, <1>4, <1>7, <2>1 DEF OpInv, InOrder, OverOut, OverTasks
  <2>7. ClearedLast(o)'
    BY <1>0, <1>7, <2>1 DEF OpInv, ClearedLast
  <2> QED
    BY <1>6, <1>8, <2>2, <2>4, <2>5, <2>6, <2>7 DEF OpInv
<1>9. ASSUME o \notin active, kind[o] = "invalid"
      PROVE  OpInv(o)' /\ DeviceControl(<<o>>) \in Seq(OutOf(o))
  <2> DEFINE a == Status(o, "executing")
             b == Status(o, "failed")
             r == <<a, b>>
  <2>1. Fresh(o) /\ ~Begun(o) /\ cloud[o] = "pending" /\ ran[o] = None
    BY <1>5, <1>9 DEF Fresh, Blank, Begun
  <2>2. DeviceControl(<<o>>) = r
    BY <1>9, OneOperation DEF Converted
  <2>3. a \in OutOf(o) /\ b \in OutOf(o)
    BY StatusIn DEF OutOf, UpOf, Told, Final
  <2>4. r \in Seq(OutOf(o)) /\ r \in Seq(AnyOut)
    <3>1. r \in Seq(OutOf(o))
      BY <2>3
    <3> QED
      BY <1>0, <3>1, OutGrown
  <2>5. /\ \A A : Has(r, A) <=> a \in A \/ b \in A
        /\ \A A, B : NoneAfter(r, A, B) <=> ~(a \in A /\ b \in B)
    BY DEF Has, NoneAfter
  <2>6. /\ \A S : a \in Statuses(o, S) <=> "executing" \in S
        /\ \A S : b \in Statuses(o, S) <=> "failed" \in S
        /\ \A S : a \notin Commands(o, S) /\ b \notin Commands(o, S)
        /\ \A S : a \notin Showing(o, S) /\ b \notin Showing(o, S)
    BY StatusIn
  <2>7. a \notin Over(o) /\ b \notin Going(o) /\ a \in UpOf(o)
    BY <2>6 DEF Over, Going, UpOf, Told, Final
  <2> HIDE DEF a, b, r
  <2>8. /\ \A A : Has(out', A) <=> Has(out, A) \/ a \in A \/ b \in A
        /\ \A A, B : NoneAfter(out', A, B) <=>
             NoneAfter(out, A, B) /\ ~(a \in A /\ b \in B) /\ (Has(out, A) => ~(a \in B \/ b \in B))
        /\ \A A, B : Led(out', A, B) <=> Led(out, A, B) /\ (Has(out, B) \/ Led(r, A, B))
    BY <1>0, <2>2, <2>4, <2>5, HasConcat, NoneAfterConcat, LedConcat
  <2>9. /\ ~OverTasks(o) /\ ~OverOut(o) /\ ~OverUplink(o) /\ ~OverCloud(o)
        /\ ~Has(incoming, Commands(o, Final)) /\ ~Has(tasks[o], Final)
        /\ ~Says(o, "successful") /\ ~Says(o, "failed") /\ shown[o] # "applied"
        /\ ~Has(out, Showing(o, {"applied"}))
    BY <2>1, NotOver
  <2>10. tasks[o] = <<>> /\ ~Has(incoming, Commands(o, Live \cup {Cleared}))
    BY <2>1 DEF OpInv, BegunFirst
  <2>11. \A S \in SUBSET (Live \cup {Cleared}) : ~Has(incoming, Commands(o, S))
    <3> TAKE S \in SUBSET (Live \cup {Cleared})
    <3>1. Commands(o, S) \subseteq Commands(o, Live \cup {Cleared})
      BY DEF Commands
    <3> QED
      BY <2>10, <3>1, HasLess
  <2>12. BegunFirst(o)'
    BY <1>0, <1>4, <1>5, <1>6, <2>1, <2>6, <2>8, <2>10 DEF OpInv, BegunFirst
  <2>13. RequestedOnce(o)'
    BY <1>0, <1>4, <1>5, <2>1, <2>6, <2>8, OfNone DEF OpInv, RequestedOnce, None
  <2>14. SaidTruly(o)'
    <3>1. ~Says(o, "successful")'
      BY <1>0, <2>6, <2>8, <2>9 DEF Says
    <3> QED
      BY <1>0, <1>4, <1>9, <2>6, <2>8, <2>9, <3>1 DEF OpInv, SaidTruly
  <2>15. InOrder(o)'
    <3>1. NoneAfter(out', Over(o), Going(o))
      BY <2>7, <2>8, <2>9, OfNone DEF OverOut
    <3>2. ~Has(tasks[o], {"executing"}) /\ ~Has(incoming', Commands(o, {"executing"}))
      BY <1>4, <2>10, <2>11, OfEmpty, SomeSets
    <3> QED
      BY <1>0, <1>4, <1>7, <2>9, <3>1, <3>2 DEF OpInv, InOrder
  <2>16. EndedOnce(o)'
    BY <1>0, <1>4, <2>6, <2>8 DEF OpInv, EndedOnce
  <2>17. Led(r, Commands(o, {Cleared}), Statuses(o, Final)) /\ Led(r, Commands(o, {Cleared}), Listing(o))
         /\ Led(r, Commands(o, {Cleared}), Showing(o, {"applied"}))
    BY <2>5, <2>6, OfNone DEF r
  <2>18. ClearedLast(o)'
    BY <1>0, <1>7, <2>8, <2>17 DEF OpInv, ClearedLast
  <2> QED
    BY <1>6, <2>2, <2>4, <2>12, <2>13, <2>14, <2>15, <2>16, <2>18 DEF OpInv
<1>10. ASSUME o \notin active, Valid(o)
       PROVE  OpInv(o)' /\ DeviceControl(<<o>>) \in Seq(OutOf(o))
  <2> DEFINE a == Command(o, "init")
             r == <<a>>
  <2>1. Fresh(o) /\ ~Begun(o) /\ cloud[o] = "pending"
    BY <1>5, <1>10 DEF Fresh, Blank
  <2>2. DeviceControl(<<o>>) = r
    BY <1>10, OneOperation DEF Converted, Valid
  <2>3. a \in OutOf(o)
    BY OutMembers
  <2>4. r \in Seq(OutOf(o)) /\ r \in Seq(AnyOut)
    <3>1. r \in Seq(OutOf(o))
      BY <2>3
    <3> QED
      BY <1>0, <3>1, OutGrown
  <2>5. /\ \A S : a \in Commands(o, S) <=> "init" \in S
        /\ \A S : a \notin Statuses(o, S) /\ a \notin Showing(o, S)
    BY CommandIn
  <2>6. "init" \notin {Cleared} /\ a \notin UpOf(o) /\ a \notin Over(o) /\ a \notin Going(o)
    BY <2>5, OperationAssumption DEF UpOf, Over, Going
  <2> HIDE DEF a
  <2>7. /\ \A A : Has(out', A) <=> Has(out, A) \/ a \in A
        /\ \A A, B : NoneAfter(out', A, B) <=> NoneAfter(out, A, B) /\ (Has(out, A) => a \notin B)
        /\ \A A, B : Led(out', A, B) <=> Led(out, A, B) /\ (Has(out, B) \/ a \notin A)
    BY <1>0, <2>2, <2>4, OfOne, HasConcat, NoneAfterConcat, LedConcat
  <2>8. BegunFirst(o)'
    BY <1>0, <1>4, <1>6, <1>10 DEF OpInv, BegunFirst
  <2>9. Fresh(o)' /\ Blank(o)'
    BY <1>0, <1>6, <2>1, <2>6, <2>7 DEF Fresh, Blank
  <2>10. RequestedOnce(o)'
    BY <1>4, <1>5, <2>7, <2>9 DEF OpInv, RequestedOnce
  <2>11. SaidTruly(o)'
    BY <1>0, <1>4, <2>5, <2>7 DEF OpInv, SaidTruly, Says
  <2>12. InOrder(o)'
    BY <1>0, <1>4, <1>7, <2>6, <2>7 DEF OpInv, InOrder, OverOut, OverTasks
  <2>13. EndedOnce(o)'
    BY <1>0, <1>4, <2>5, <2>6, <2>7 DEF OpInv, EndedOnce
  <2>14. ClearedLast(o)'
    BY <1>0, <1>7, <2>5, <2>6, <2>7 DEF OpInv, ClearedLast
  <2> QED
    BY <1>6, <2>2, <2>4, <2>8, <2>10, <2>11, <2>12, <2>13, <2>14 DEF OpInv
<1>11. o \in active => DeviceControl(<<o>>) = <<>>
  BY OneOperation
<1>12. kind[o] = "dropped" => DeviceControl(<<o>>) = <<>>
  BY OneOperation DEF Converted
<1> QED
  BY <1>8, <1>9, <1>10, <1>11, <1>12 DEF Valid

LEMMA OperationsHandled ==
  ASSUME OperationsInv, HandleOperations
  PROVE  OperationsInv'
<1>0. /\ incoming \in Seq(AnyIn) /\ uplink \in Seq(AnyUp) /\ out \in Seq(AnyOut)
      /\ OperationsTypeOK /\ Queued /\ \A p \in Ops : OpInv(p)
  BY DEF OperationsInv, Queued
<1>1. /\ incoming # <<>> /\ "ops" \in DOMAIN Head(incoming) /\ incoming' = Tail(incoming)
      /\ out' = out \o DeviceControl(Head(incoming).ops)
      /\ UNCHANGED <<kind, cloud, uplink, topic, ran, stored, listed, shown, up, active, running, tasks, crashes>>
      /\ UNCHANGED <<effectVars, mapperVars>>
  BY DEF HandleOperations, effectVars, mapperVars
<1>2. Head(incoming) \in AnyIn /\ incoming' \in Seq(AnyIn)
  BY <1>0, <1>1, InTaken
<1>3. PICK o \in Ops : Head(incoming) \in InOf(o)
  BY <1>2 DEF AnyIn
<1>4. Head(incoming) = Operations(<<o>>)
  <2>1. \A t : Head(incoming) # Command(o, t)
    BY <1>1, CommandIn
  <2> QED
    BY <1>3, <2>1, InKind
<1>5. Head(incoming).ops = <<o>>
  BY <1>4 DEF Operations
<1>6. OpInv(o)' /\ DeviceControl(<<o>>) \in Seq(OutOf(o))
  BY <1>0, <1>1, <1>4, <1>5, RequestHandled
<1>7. OperationsTypeOK'
  BY <1>0, <1>1 DEF OperationsTypeOK
<1>8. Queued'
  BY <1>0, <1>1, <1>2, <1>5, <1>6, OutGrown DEF Queued
<1>9. ASSUME NEW p \in Ops, p # o
      PROVE  OpInv(p)'
  <2>1. Alike(incoming, incoming', InOf(p))
    BY <1>0, <1>1, <1>3, <1>9, InTaken
  <2>2. Alike(out, out', OutOf(p))
    BY <1>0, <1>1, <1>5, <1>6, <1>9, OutGrown
  <2>3. Unmoved(p)
    BY <1>1, <2>1, <2>2, AlikeSame DEF Unmoved
  <2> QED
    BY <1>0, <2>3, UnmovedInv
<1> QED
  BY <1>6, <1>7, <1>8, <1>9 DEF OperationsInv

LEMMA CommandHandled ==
  ASSUME Queued, OperationsTypeOK, NEW o \in Ops, OpInv(o), NEW s \in Live \cup {Cleared},
         incoming # <<>>, Head(incoming) = Command(o, s), incoming' = Tail(incoming),
         IF s = Cleared
         THEN active' = active \ {o} /\ UNCHANGED <<running, tasks>>
         ELSE active' = active \cup {o} /\ Handle(o, s),
         UNCHANGED <<kind, cloud, uplink, topic, ran, stored, effectVars, out>>
  PROVE  OpInv(o)'
<1>0. /\ UNCHANGED <<kind, cloud, uplink, topic, ran, stored, listed, shown, out>>
      /\ incoming \in Seq(AnyIn)
  BY DEF effectVars, Queued
<1>1. \A A : Has(incoming, A) <=> Command(o, s) \in A \/ Has(incoming', A)
  BY <1>0, HasTail
<1>2. \A A, B : NoneAfter(incoming, A, B) =>
        NoneAfter(incoming', A, B) /\ (Command(o, s) \in A => ~Has(incoming', B))
  BY <1>0, NoneAfterTail
<1>3. \A S : Command(o, s) \in Commands(o, S) <=> s \in S
  BY CommandIn
<1>4. /\ NoneAfter(incoming', Request(o), Request(o))
      /\ NoneAfter(incoming', Commands(o, {Cleared}), Request(o))
      /\ NoneAfter(incoming', Commands(o, Final), Commands(o, {"executing"}))
      /\ s = Cleared => ~Has(incoming', Request(o))
      /\ s \in Final => ~Has(incoming', Commands(o, {"executing"}))
      /\ Has(incoming', Request(o)) => Has(incoming, Request(o))
      /\ \A S : Has(incoming', Commands(o, S)) => Has(incoming, Commands(o, S))
      /\ \A S : s \in S => Has(incoming, Commands(o, S))
  BY <1>1, <1>2, <1>3 DEF OpInv, RequestedOnce, InOrder
<1>5. Begun(o) /\ Begun(o)' /\ Valid(o) /\ Valid(o)'
  BY <1>0, <1>4 DEF OpInv, BegunFirst, Begun, Valid
<1>6. TopicTrue(o)' /\ BegunFirst(o)'
  BY <1>0, <1>5 DEF OpInv, TopicTrue, BegunFirst
<1>7. /\ (OverCloud(o)' <=> OverCloud(o)) /\ (OverUplink(o)' <=> OverUplink(o)) /\ (OverOut(o)' <=> OverOut(o))
      /\ (Reported(o)' <=> Reported(o)) /\ (Lists(o)' <=> Lists(o)) /\ (Applies(o)' <=> Applies(o))
      /\ (Says(o, "successful")' <=> Says(o, "successful")) /\ (Says(o, "failed")' <=> Says(o, "failed"))
  BY <1>0 DEF OverCloud, OverUplink, OverOut, Reported, Lists, Applies, Says
<1>8. ClearedLast(o)'
  BY <1>0, <1>7 DEF OpInv, ClearedLast
<1>9. RequestedOnce(o)'
  <2>1. ~Blank(o) /\ ~Fresh(o) /\ cloud[o] # None /\ ~Has(out, Commands(o, {"init"}))
    BY <1>5 DEF OpInv, RequestedOnce, Fresh, Blank
  <2>2. Has(incoming', Request(o)) => o \in active'
    BY <1>4
  <2> QED
    BY <1>0, <1>4, <2>1, <2>2 DEF OpInv, RequestedOnce
<1>10. ASSUME running'[o] = running[o], tasks'[o] = tasks[o]
       PROVE  OpInv(o)'
  <2>1. SaidTruly(o)'
    BY <1>0, <1>4, <1>7, <1>10 DEF OpInv, SaidTruly
  <2>2. InOrder(o)'
    BY <1>0, <1>4, <1>7, <1>10 DEF OpInv, InOrder, OverTasks
  <2>3. EndedOnce(o)'
    BY <1>0, <1>4, <1>10 DEF OpInv, EndedOnce
  <2> QED
    BY <1>6, <1>8, <1>9, <2>1, <2>2, <2>3 DEF OpInv
<1>11. ASSUME s \in Live, running[o] \notin Final, running'[o] = s, tasks'[o] = Append(tasks[o], s)
       PROVE  OpInv(o)'
  <2>1. tasks[o] \in Seq(Live) /\ <<s>> \in Seq(Live) /\ tasks'[o] = tasks[o] \o <<s>>
    BY <1>11 DEF OperationsTypeOK, Live
  <2>2. /\ \A A : Has(tasks'[o], A) <=> Has(tasks[o], A) \/ s \in A
        /\ \A A, B : NoneAfter(tasks'[o], A, B) <=> NoneAfter(tasks[o], A, B) /\ (Has(tasks[o], A) => s \notin B)
    <3>1. PICK q \in Seq(Live) : q = tasks[o]
      BY <2>1
    <3>2. \A A : Has(q \o <<s>>, A) <=> Has(q, A) \/ s \in A
      BY <2>1, HasConcat, OfOne
    <3>3. \A A, B : NoneAfter(q \o <<s>>, A, B) <=> NoneAfter(q, A, B) /\ (Has(q, A) => s \notin B)
      BY <2>1, NoneAfterConcat, OfOne
    <3> QED
      BY <2>1, <3>1, <3>2, <3>3
  <2>3. ~Has(tasks[o], Final) /\ ~Has(out, Commands(o, {Cleared}))
    BY <1>11 DEF OpInv, EndedOnce
  <2>4. SaidTruly(o)'
    BY <1>0, <1>4, <1>7, <2>2 DEF OpInv, SaidTruly
  <2>5. s = "executing" => s \notin Final /\ ~OverOut(o)
    BY <1>4 DEF Final, OpInv, InOrder, OverTasks
  <2>6. InOrder(o)'
    BY <1>0, <1>4, <1>7, <2>2, <2>3, <2>5 DEF OpInv, InOrder, OverTasks
  <2>7. s \in Final => topic[o] \in Final
    BY <1>4, <1>11 DEF OpInv, EndedOnce
  <2>8. EndedOnce(o)'
    BY <1>0, <1>4, <1>11, <2>2, <2>3, <2>7 DEF OpInv, EndedOnce
  <2> QED
    BY <1>6, <1>8, <1>9, <2>4, <2>6, <2>8 DEF OpInv
<1>12. CASE s = Cleared
  BY <1>10, <1>12
<1>13. CASE s # Cleared
  <2>1. s \in Live /\ Handle(o, s)
    BY <1>13
  <2>2. CASE running[o] = None \/ TransitionValid(running[o], s)
    <3>1. running'[o] = s /\ tasks'[o] = Append(tasks[o], s)
      BY <2>1, <2>2 DEF Handle, OperationsTypeOK
    <3>2. running[o] \notin Final
      BY <2>2 DEF TransitionValid, None, Final
    <3> QED
      BY <1>11, <2>1, <3>1, <3>2
  <2>3. CASE ~(running[o] = None \/ TransitionValid(running[o], s))
    <3>1. running' = running /\ tasks' = tasks
      BY <2>1, <2>3 DEF Handle
    <3> QED
      BY <1>10, <3>1
  <2> QED
    BY <2>2, <2>3
<1> QED
  BY <1>12, <1>13

LEMMA CommandsHandled ==
  ASSUME OperationsInv, HandleCommand
  PROVE  OperationsInv'
<1>0. /\ incoming \in Seq(AnyIn) /\ uplink \in Seq(AnyUp) /\ out \in Seq(AnyOut)
      /\ OperationsTypeOK /\ Queued /\ \A p \in Ops : OpInv(p)
  BY DEF OperationsInv, Queued
<1>1. /\ incoming # <<>> /\ "cmd" \in DOMAIN Head(incoming) /\ incoming' = Tail(incoming)
      /\ UNCHANGED <<kind, cloud, uplink, topic, ran, stored, listed, shown, up, out, crashes>>
      /\ UNCHANGED effectVars
  BY DEF HandleCommand, effectVars
<1>2. Head(incoming) \in AnyIn /\ incoming' \in Seq(AnyIn)
  BY <1>0, <1>1, InTaken
<1>3. PICK o \in Ops : Head(incoming) \in InOf(o)
  BY <1>2 DEF AnyIn
<1>4. PICK s \in Live \cup {Cleared} : Head(incoming) = Command(o, s)
  <2>1. Head(incoming) # Operations(<<o>>)
    BY <1>1, RequestIn
  <2> QED
    BY <1>3, <2>1, InKind
<1>5. Head(incoming).cmd = o /\ Head(incoming).status = s
  BY <1>4 DEF Command
<1>6. IF s = Cleared
      THEN active' = active \ {o} /\ UNCHANGED <<running, tasks>>
      ELSE active' = active \cup {o} /\ Handle(o, s)
  BY <1>5 DEF HandleCommand
<1>7. OpInv(o)'
  BY <1>0, <1>1, <1>4, <1>6, CommandHandled
<1>8. /\ active' \subseteq Ops /\ \A p \in Ops : p # o => (p \in active' <=> p \in active)
      /\ running' \in [Ops -> {None} \cup Live] /\ tasks' \in [Ops -> Seq(Live)]
      /\ \A p \in Ops : p # o => running'[p] = running[p] /\ tasks'[p] = tasks[p]
  <2>1. active \subseteq Ops /\ running \in [Ops -> {None} \cup Live] /\ tasks \in [Ops -> Seq(Live)]
    BY <1>0 DEF OperationsTypeOK, Live
  <2>2. CASE s = Cleared
    BY <1>6, <2>1, <2>2
  <2>3. CASE s # Cleared
    <3>1. active' = active \cup {o} /\ Handle(o, s) /\ s \in Live
      BY <1>6, <2>3
    <3>2. Append(tasks[o], s) \in Seq(Live)
      BY <2>1, <3>1
    <3> QED
      BY <2>1, <3>1, <3>2 DEF Handle
  <2> QED
    BY <2>2, <2>3
<1>9. OperationsTypeOK'
  BY <1>0, <1>1, <1>8 DEF OperationsTypeOK, Live
<1>10. Queued'
  BY <1>0, <1>1, <1>2 DEF Queued
<1>11. ASSUME NEW p \in Ops, p # o
       PROVE  OpInv(p)'
  <2>1. Alike(incoming, incoming', InOf(p))
    BY <1>0, <1>1, <1>3, <1>11, InTaken
  <2>2. Unmoved(p)
    BY <1>1, <1>8, <1>11, <2>1, AlikeSame DEF Unmoved
  <2> QED
    BY <1>0, <2>2, UnmovedInv
<1> QED
  BY <1>7, <1>9, <1>10, <1>11 DEF OperationsInv

------------------------------------------------------------------------------
(* The tasks.                                                                  *)

\* The messages of a sequence about an operation.
MadeOf(r, o, M) == r \in Seq(OutOf(o)) /\ \A A : Has(r, A) <=> \E m \in M : m \in A

LEMMA MadeOne ==
  ASSUME NEW o, NEW m \in OutOf(o)
  PROVE  MadeOf(<<m>>, o, {m})
BY OfOne DEF MadeOf

LEMMA MadePair ==
  ASSUME NEW o, NEW m \in OutOf(o), NEW n \in OutOf(o)
  PROVE  MadeOf(<<m, n>>, o, {m, n})
<1>1. <<m, n>> \in Seq(OutOf(o))
  OBVIOUS
<1>2. \A A : Has(<<m, n>>, A) <=> m \in A \/ n \in A
  BY DEF Has
<1> QED
  BY <1>1, <1>2 DEF MadeOf

LEMMA MadeConcat ==
  ASSUME NEW o, NEW q, NEW r, NEW M, NEW N, MadeOf(q, o, M), MadeOf(r, o, N)
  PROVE  MadeOf(q \o r, o, M \cup N)
<1>1. q \in Seq(OutOf(o)) /\ r \in Seq(OutOf(o))
  BY DEF MadeOf
<1>2. q \o r \in Seq(OutOf(o))
  BY <1>1
<1>3. \A A : Has(q \o r, A) <=> Has(q, A) \/ Has(r, A)
  BY <1>1, HasConcat
<1> QED
  BY <1>2, <1>3 DEF MadeOf

\* What the handlers of the operations publish.
LEMMA ReportsMade ==
  ASSUME NEW o \in Ops, kind \in [Ops -> Kinds], Valid(o), NEW s \in Final, NEW ok \in BOOLEAN
  PROVE  \E M : /\ MadeOf(Reports(o, s, ok), o, M)
                /\ M \subseteq {Status(o, "successful"), Status(o, "failed"), Shows(o, "applied"), ListRequest(o)}
                /\ Status(o, "successful") \in M \/ Status(o, "failed") \in M
                /\ Status(o, "successful") \in M => s = "successful" /\ (kind[o] \in Files => ok)
                /\ Status(o, "failed") \in M => s = "failed" \/ kind[o] \in Files \cup {"custom"}
                /\ Shows(o, "applied") \in M => s = "successful"
                /\ Lists(o) => ListRequest(o) \in M
                /\ kind[o] \in {"config_update", "firmware_update", "device_profile"} /\ s = "successful"
                     => Shows(o, "applied") \in M
<1> DEFINE x == Status(o, "successful")
           f == Status(o, "failed")
           a == Shows(o, "applied")
           l == ListRequest(o)
           k == kind[o]
<1>1. /\ x \in OutOf(o) /\ f \in OutOf(o) /\ a \in OutOf(o) /\ l \in OutOf(o)
      /\ x # f /\ x # a /\ x # l /\ f # a /\ f # l /\ a # l
  <2>1. "successful" \in Told /\ "failed" \in Told /\ "applied" \in {"target", "applied"}
    BY DEF Told, Final
  <2>2. x \in OutOf(o) /\ f \in OutOf(o) /\ a \in OutOf(o) /\ l \in OutOf(o)
    BY <2>1, OutMembers
  <2>3. x.status = "successful" /\ f.status = "failed"
    BY DEF Status
  <2>4. /\ DOMAIN x = {"op", "status"} /\ DOMAIN f = {"op", "status"} /\ DOMAIN a = {"of", "what"} /\ DOMAIN l = {"list"}
    BY StatusIn, ShowsIn, ListingIn
  <2> QED
    BY <2>2, <2>3, <2>4
<1>2. Succeeded(o) = <<x>> /\ Failed(o) = <<f>>
  BY DEF Succeeded, Failed
<1>3. (s = "successful" \/ s = "failed") /\ (s = "successful" => Status(o, s) = x) /\ (s = "failed" => Status(o, s) = f)
  BY DEF Final
<1> HIDE DEF x, f, a, l
<1>4. /\ MadeOf(<<x>>, o, {x}) /\ MadeOf(<<f>>, o, {f}) /\ MadeOf(<<a>>, o, {a}) /\ MadeOf(<<l>>, o, {l})
      /\ MadeOf(<<x, l>>, o, {x, l}) /\ MadeOf(<<f, l>>, o, {f, l}) /\ MadeOf(<<l, a>>, o, {l, a})
  BY <1>1, MadeOne, MadePair
<1>5. /\ MadeOf(<<a>> \o <<x>>, o, {a} \cup {x}) /\ MadeOf(<<x>> \o <<a>>, o, {x} \cup {a})
      /\ MadeOf(<<l, a>> \o <<x>>, o, {l, a} \cup {x}) /\ MadeOf(<<l>> \o <<f>>, o, {l} \cup {f})
  BY <1>4, MadeConcat
<1> DEFINE Right(M) ==
             /\ M \subseteq {x, f, a, l} /\ (x \in M \/ f \in M)
             /\ x \in M => s = "successful" /\ (k \in Files => ok)
             /\ f \in M => s = "failed" \/ k \in Files \cup {"custom"}
             /\ a \in M => s = "successful"
             /\ k \in {"software_update", "device_profile"} => l \in M
             /\ k \in {"config_update", "firmware_update", "device_profile"} /\ s = "successful" => a \in M
<1>6. SUFFICES \E M : MadeOf(Reports(o, s, ok), o, M) /\ Right(M)
  BY DEF x, f, a, l, Lists
<1>7. CASE k = "config_snapshot" \/ k = "log_upload"
  <2>1. Reports(o, s, ok) = IF s = "successful" /\ ok THEN <<x>> ELSE <<f>>
    BY <1>2, <1>7 DEF Reports, ConfigSnapshot, LogUpload, Uploaded
  <2>2. k \in Files
    BY <1>7 DEF Files
  <2>3. CASE s = "successful" /\ ok
    <3>1. Right({x})
      BY <1>1, <1>7, <2>3
    <3> QED
      BY <1>4, <2>1, <2>3, <3>1
  <2>4. CASE ~(s = "successful" /\ ok)
    <3>1. Right({f})
      BY <1>1, <1>7, <2>2, <2>4
    <3> QED
      BY <1>4, <2>1, <2>4, <3>1
  <2> QED
    BY <2>3, <2>4
<1>8. CASE k = "config_update"
  <2>1. Reports(o, s, ok) = IF s = "successful" THEN <<a>> \o <<x>> ELSE <<f>>
    BY <1>2, <1>8 DEF Reports, ConfigUpdate, a
  <2>2. CASE s = "successful"
    <3>1. Right({a} \cup {x})
      BY <1>1, <1>8, <2>2 DEF Files
    <3> QED
      BY <1>5, <2>1, <2>2, <3>1
  <2>3. CASE s # "successful"
    <3>1. Right({f})
      BY <1>1, <1>3, <1>8, <2>3
    <3> QED
      BY <1>4, <2>1, <2>3, <3>1
  <2> QED
    BY <2>2, <2>3
<1>9. CASE k = "firmware_update"
  <2>1. Reports(o, s, ok) = IF s = "successful" THEN <<x>> \o <<a>> ELSE <<f>>
    BY <1>2, <1>9 DEF Reports, FirmwareUpdate, a
  <2>2. CASE s = "successful"
    <3>1. Right({x} \cup {a})
      BY <1>1, <1>9, <2>2 DEF Files
    <3> QED
      BY <1>5, <2>1, <2>2, <3>1
  <2>3. CASE s # "successful"
    <3>1. Right({f})
      BY <1>1, <1>3, <1>9, <2>3
    <3> QED
      BY <1>4, <2>1, <2>3, <3>1
  <2> QED
    BY <2>2, <2>3
<1>10. CASE k = "software_update"
  <2>1. Reports(o, s, ok) = <<Status(o, s), l>>
    BY <1>10 DEF Reports, SoftwareUpdate, l
  <2>2. CASE s = "successful"
    <3>1. Right({x, l}) /\ Reports(o, s, ok) = <<x, l>>
      BY <1>1, <1>3, <1>10, <2>1, <2>2 DEF Files
    <3> QED
      BY <1>4, <3>1
  <2>3. CASE s = "failed"
    <3>1. Right({f, l}) /\ Reports(o, s, ok) = <<f, l>>
      BY <1>1, <1>3, <1>10, <2>1, <2>3
    <3> QED
      BY <1>4, <3>1
  <2> QED
    BY <1>3, <2>2, <2>3
<1>11. CASE k = "restart"
  <2>1. Reports(o, s, ok) = <<Status(o, s)>>
    BY <1>11 DEF Reports, DeviceRestart
  <2>2. CASE s = "successful"
    <3>1. Right({x}) /\ Reports(o, s, ok) = <<x>>
      BY <1>1, <1>3, <1>11, <2>1, <2>2 DEF Files
    <3> QED
      BY <1>4, <3>1
  <2>3. CASE s = "failed"
    <3>1. Right({f}) /\ Reports(o, s, ok) = <<f>>
      BY <1>1, <1>3, <1>11, <2>1, <2>3
    <3> QED
      BY <1>4, <3>1
  <2> QED
    BY <1>3, <2>2, <2>3
<1>12. CASE k = "device_profile"
  <2>1. Reports(o, s, ok) = IF s = "successful" THEN <<l, a>> \o <<x>> ELSE <<l>> \o <<f>>
    BY <1>2, <1>12 DEF Reports, DeviceProfile, a, l
  <2>2. CASE s = "successful"
    <3>1. Right({l, a} \cup {x})
      BY <1>1, <1>12, <2>2 DEF Files
    <3> QED
      BY <1>5, <2>1, <2>2, <3>1
  <2>3. CASE s # "successful"
    <3>1. Right({l} \cup {f})
      BY <1>1, <1>3, <1>12, <2>3
    <3> QED
      BY <1>5, <2>1, <2>3, <3>1
  <2> QED
    BY <2>2, <2>3
<1>13. CASE k = "custom"
  <2>1. Reports(o, s, ok) = IF s = "successful" /\ ok THEN <<x>> ELSE <<f>>
    BY <1>2, <1>13 DEF Reports, CustomOperation
  <2>2. CASE s = "successful" /\ ok
    <3>1. Right({x})
      BY <1>1, <1>13, <2>2
    <3> QED
      BY <1>4, <2>1, <2>2, <3>1
  <2>3. CASE ~(s = "successful" /\ ok)
    <3>1. Right({f})
      BY <1>1, <1>13, <2>3
    <3> QED
      BY <1>4, <2>1, <2>3, <3>1
  <2> QED
    BY <2>2, <2>3
<1>14. k \in Kinds /\ k # "invalid" /\ k # "dropped"
  BY DEF Valid
<1> QED
  BY <1>7, <1>8, <1>9, <1>10, <1>11, <1>12, <1>13, <1>14 DEF Kinds, Files

LEMMA FirstRemoved ==
  ASSUME NEW S, NEW q \in Seq(S), q # <<>>
  PROVE  RemoveAt(q, 1) = Tail(q)
<1>1. SubSeq(q, 1, 1 - 1) = <<>>
  BY SubSeqEmpty
<1>2. Tail(q) = SubSeq(q, 1 + 1, Len(q)) /\ Tail(q) \in Seq(S)
  BY TailIsSubSeq
<1>3. <<>> \o Tail(q) = Tail(q)
  BY <1>2, ConcatEmptySeq
<1> QED
  BY <1>1, <1>2, <1>3 DEF RemoveAt

\* A task that reports nothing final.
LEMMA TaskGoesOn ==
  ASSUME Queued, OperationsTypeOK, NEW o \in Ops, OpInv(o), NEW s \in {"init", "executing"},
         tasks[o] # <<>>, Head(tasks[o]) = s, tasks'[o] = Tail(tasks[o]),
         NEW r \in Seq(OutOf(o)), out' = out \o r,
         \A A : Has(r, A) => s = "executing" /\ (Status(o, "executing") \in A \/ Shows(o, "target") \in A),
         UNCHANGED <<kind, cloud, uplink, topic, ran, stored, effectVars, incoming, active, running>>
  PROVE  OpInv(o)'
<1>0. /\ UNCHANGED <<kind, cloud, uplink, topic, ran, stored, listed, shown, incoming, active, running>>
      /\ out \in Seq(AnyOut) /\ r \in Seq(AnyOut) /\ tasks[o] \in Seq(Live)
  <2>1. out \in Seq(AnyOut)
    BY DEF Queued
  <2> QED
    BY <2>1, OutGrown DEF effectVars, OperationsTypeOK, Live
<1>1. /\ \A A : Has(tasks[o], A) <=> s \in A \/ Has(tasks'[o], A)
      /\ \A A, B : NoneAfter(tasks[o], A, B) => NoneAfter(tasks'[o], A, B)
  BY <1>0, HasTail, NoneAfterTail
<1>2. /\ \A S : ~Has(r, Commands(o, S)) /\ ~Has(r, Showing(o, {"applied"}))
      /\ ~Has(r, Statuses(o, Final)) /\ ~Has(r, Statuses(o, {"successful"})) /\ ~Has(r, Statuses(o, {"failed"}))
      /\ ~Has(r, Over(o)) /\ (Has(r, Going(o)) => s = "executing")
  <2>1. \A S : /\ Status(o, "executing") \in Statuses(o, S) <=> "executing" \in S
               /\ Status(o, "executing") \notin Showing(o, S) /\ Status(o, "executing") \notin Commands(o, S)
    BY ReportIn, Zenon
  <2>2. \A S : /\ Shows(o, "target") \in Showing(o, S) <=> "target" \in S
               /\ Shows(o, "target") \notin Statuses(o, S) /\ Shows(o, "target") \notin Commands(o, S)
    BY ReportIn, Zenon
  <2>3. \A S : ~Has(r, Commands(o, S)) /\ ~Has(r, Showing(o, {"applied"}))
    <3>1. ASSUME NEW S
          PROVE  ~Has(r, Commands(o, S))
      BY <2>1, <2>2
    <3>2. ~Has(r, Showing(o, {"applied"}))
      BY <2>1, <2>2
    <3> QED
      BY <3>1, <3>2
  <2>4. ~Has(r, Statuses(o, Final)) /\ ~Has(r, Statuses(o, {"successful"})) /\ ~Has(r, Statuses(o, {"failed"}))
    <3>1. "executing" \notin Final
      BY DEF Final
    <3>2. ~Has(r, Statuses(o, Final))
      BY <2>1, <2>2, <3>1
    <3> QED
      BY <3>2, OverParts
  <2>5. ~Has(r, Over(o))
    BY <2>3, <2>4, OverParts
  <2> QED
    BY <2>3, <2>4, <2>5
<1>3. /\ \A A : Has(out', A) <=> Has(out, A) \/ Has(r, A)
      /\ \A A, B : NoneAfter(out', A, B) <=> NoneAfter(out, A, B) /\ NoneAfter(r, A, B) /\ (Has(out, A) => ~Has(r, B))
      /\ \A A, B : Led(out', A, B) <=> Led(out, A, B) /\ (Has(out, B) \/ Led(r, A, B))
  BY <1>0, HasConcat, NoneAfterConcat, LedConcat
<1>4. Begun(o) /\ Begun(o)' /\ Valid(o) /\ Valid(o)'
  BY <1>0 DEF OpInv, BegunFirst, Begun, Valid
<1>5. TopicTrue(o)' /\ BegunFirst(o)'
  BY <1>0, <1>4 DEF OpInv, TopicTrue, BegunFirst
<1>6. RequestedOnce(o)'
  <2>1. ~Blank(o) /\ ~Fresh(o) /\ cloud[o] # None /\ ~Has(out, Commands(o, {"init"}))
    BY <1>4 DEF OpInv, RequestedOnce, Fresh, Blank
  <2>2. ~Has(out', Commands(o, {"init"}))
    BY <1>2, <1>3, <2>1
  <2> QED
    BY <1>0, <2>1, <2>2, OfNone DEF OpInv, RequestedOnce
<1>7. SaidTruly(o)'
  BY <1>0, <1>1, <1>2, <1>3 DEF OpInv, SaidTruly, Says
<1>8. /\ (OverCloud(o)' <=> OverCloud(o)) /\ (OverUplink(o)' <=> OverUplink(o)) /\ (OverOut(o)' <=> OverOut(o))
      /\ (Reported(o)' <=> Reported(o)) /\ (Lists(o)' <=> Lists(o)) /\ (Applies(o)' <=> Applies(o))
  BY <1>0, <1>2, <1>3 DEF OverCloud, OverUplink, OverOut, Reported, Lists, Applies
<1>9. OverTasks(o)' => OverTasks(o)
  BY <1>0, <1>1, <1>8 DEF OverTasks
<1>10. s = "executing" => ~OverOut(o) /\ ~OverUplink(o) /\ ~Has(out, Over(o))
  BY <1>1 DEF OpInv, InOrder, OverOut
<1>11. NoneAfter(out', Over(o), Going(o)) /\ (OverUplink(o)' => ~Has(out', Going(o)))
  <2>1. NoneAfter(r, Over(o), Going(o)) /\ NoneAfter(out, Over(o), Going(o))
    BY <1>2, OfNone DEF OpInv, InOrder
  <2>2. Has(out, Over(o)) => ~Has(r, Going(o))
    BY <1>2, <1>10
  <2>3. OverUplink(o) => ~Has(out, Going(o)) /\ ~Has(r, Going(o))
    BY <1>2, <1>10 DEF OpInv, InOrder
  <2> QED
    BY <1>3, <1>8, <2>1, <2>2, <2>3
<1>12. InOrder(o)'
  BY <1>0, <1>1, <1>8, <1>9, <1>11 DEF OpInv, InOrder
<1>13. EndedOnce(o)'
  <2>1. NoneAfter(out', Commands(o, {Cleared}), Commands(o, {Cleared}))
    BY <1>2, <1>3, OfNone DEF OpInv, EndedOnce
  <2>2. Has(out', Commands(o, {Cleared})) <=> Has(out, Commands(o, {Cleared}))
    BY <1>2, <1>3
  <2> QED
    BY <1>0, <1>1, <2>1, <2>2 DEF OpInv, EndedOnce
<1>14. ClearedLast(o)'
  <2>1. \A B : Led(out, Commands(o, {Cleared}), B) => Led(out', Commands(o, {Cleared}), B)
    BY <1>2, <1>3, OfNone
  <2> QED
    BY <1>0, <1>8, <2>1 DEF OpInv, ClearedLast
<1> QED
  BY <1>5, <1>6, <1>7, <1>12, <1>13, <1>14 DEF OpInv

\* The task that reports the outcome and clears the command.
LEMMA TaskEnds ==
  ASSUME Queued, OperationsTypeOK, NEW o \in Ops, OpInv(o), NEW s \in Final, NEW ok \in BOOLEAN,
         tasks[o] # <<>>, Head(tasks[o]) = s, tasks'[o] = Tail(tasks[o]),
         out' = out \o Finished(o, Reports(o, s, ok)),
         stored' = IF ok /\ kind[o] \in Files /\ s = "successful" THEN stored \cup {o} ELSE stored,
         UNCHANGED <<kind, cloud, uplink, topic, ran, effectVars, incoming, active, running>>
  PROVE  OpInv(o)' /\ Finished(o, Reports(o, s, ok)) \in Seq(OutOf(o))
<1> DEFINE rep == Reports(o, s, ok)
           c == Command(o, Cleared)
           r == Finished(o, rep)
<1>0. /\ UNCHANGED <<kind, cloud, uplink, topic, ran, listed, shown, incoming, active, running>>
      /\ out \in Seq(AnyOut) /\ tasks[o] \in Seq(Live)
  BY DEF effectVars, OperationsTypeOK, Live, Queued
<1>1. /\ \A A : Has(tasks[o], A) <=> s \in A \/ Has(tasks'[o], A)
      /\ \A A, B : NoneAfter(tasks[o], A, B) => NoneAfter(tasks'[o], A, B) /\ (s \in A => ~Has(tasks'[o], B))
  BY <1>0, HasTail, NoneAfterTail
<1>2. Begun(o) /\ Begun(o)' /\ Valid(o) /\ Valid(o)'
  BY <1>0 DEF OpInv, BegunFirst, Begun, Valid
<1>3. PICK M : /\ MadeOf(rep, o, M)
               /\ M \subseteq {Status(o, "successful"), Status(o, "failed"), Shows(o, "applied"), ListRequest(o)}
               /\ Status(o, "successful") \in M \/ Status(o, "failed") \in M
               /\ Status(o, "successful") \in M => s = "successful" /\ (kind[o] \in Files => ok)
               /\ Status(o, "failed") \in M => s = "failed" \/ kind[o] \in Files \cup {"custom"}
               /\ Shows(o, "applied") \in M => s = "successful"
               /\ Lists(o) => ListRequest(o) \in M
               /\ kind[o] \in {"config_update", "firmware_update", "device_profile"} /\ s = "successful"
                    => Shows(o, "applied") \in M
  <2>1. kind \in [Ops -> Kinds]
    BY OperationAssumption DEF OperationsTypeOK
  <2> QED
    BY <1>2, <2>1, ReportsMade
<1> HIDE DEF rep
<1>4. /\ \A S : ~Has(rep, Commands(o, S)) /\ ~Has(rep, Going(o))
      /\ Has(rep, Statuses(o, Final))
      /\ Has(rep, Statuses(o, {"successful"})) => s = "successful" /\ (kind[o] \in Files => ok)
      /\ Has(rep, Statuses(o, {"failed"})) => s = "failed" \/ kind[o] \in Files \cup {"custom"}
      /\ Has(rep, Showing(o, {"applied"})) => s = "successful"
      /\ Lists(o) => Has(rep, Listing(o))
      /\ kind[o] \in {"config_update", "firmware_update", "device_profile"} /\ s = "successful"
           => Has(rep, Showing(o, {"applied"}))
  <2>1. \A A : Has(rep, A) <=> \E m \in M : m \in A
    BY <1>3 DEF MadeOf
  <2>2. \A S : /\ Status(o, "successful") \in Statuses(o, S) <=> "successful" \in S
               /\ Status(o, "failed") \in Statuses(o, S) <=> "failed" \in S
               /\ Shows(o, "applied") \in Showing(o, S) <=> "applied" \in S
               /\ Shows(o, "applied") \notin Statuses(o, S) /\ ListRequest(o) \notin Statuses(o, S)
               /\ Status(o, "successful") \notin Showing(o, S) /\ Status(o, "failed") \notin Showing(o, S)
               /\ ListRequest(o) \notin Showing(o, S)
               /\ Status(o, "successful") \notin Commands(o, S) /\ Status(o, "failed") \notin Commands(o, S)
               /\ Shows(o, "applied") \notin Commands(o, S) /\ ListRequest(o) \notin Commands(o, S)
    BY ReportIn, Zenon
  <2>3. ListRequest(o) \in Listing(o)
    BY ListingIn
  <2>4. \A m \in M : m \in {Status(o, "successful"), Status(o, "failed"), Shows(o, "applied"), ListRequest(o)}
    BY <1>3
  <2>5. \A S : ~Has(rep, Commands(o, S))
    BY <2>1, <2>2, <2>4
  <2>6. ~Has(rep, Going(o))
    BY <2>1, <2>2, <2>4 DEF Going
  <2>7. Has(rep, Statuses(o, Final))
    BY <1>3, <2>1, <2>2 DEF Final
  <2>8. /\ Has(rep, Statuses(o, {"successful"})) => Status(o, "successful") \in M
        /\ Has(rep, Statuses(o, {"failed"})) => Status(o, "failed") \in M
        /\ Has(rep, Showing(o, {"applied"})) => Shows(o, "applied") \in M
    BY <2>1, <2>2, <2>4
  <2> QED
    BY <1>3, <2>1, <2>2, <2>3, <2>5, <2>6, <2>7, <2>8
<1>5. /\ rep \in Seq(OutOf(o)) /\ <<c>> \in Seq(OutOf(o)) /\ r = rep \o <<c>> /\ r \in Seq(OutOf(o))
  BY <1>3, OutMembers DEF MadeOf, Finished
<1>6. /\ \A S : c \in Commands(o, S) <=> Cleared \in S
      /\ \A S : c \notin Statuses(o, S) /\ c \notin Showing(o, S) /\ c \notin Listing(o)
  BY CommandIn
<1>7. c \notin Going(o) /\ c \notin Over(o) /\ Cleared # "init"
  BY <1>6, OperationAssumption DEF Going, Over
<1> HIDE DEF c, r
<1>8. /\ \A A : Has(r, A) <=> Has(rep, A) \/ c \in A
      /\ \A A, B : NoneAfter(r, A, B) <=> NoneAfter(rep, A, B) /\ (Has(rep, A) => c \notin B)
      /\ \A A, B : Led(r, A, B) <=> Led(rep, A, B) /\ (Has(rep, B) \/ c \notin A)
  <2>1. \A A : Has(r, A) <=> Has(rep, A) \/ c \in A
    BY <1>5, HasConcat, OfOne
  <2>2. \A A, B : NoneAfter(r, A, B) <=> NoneAfter(rep, A, B) /\ (Has(rep, A) => c \notin B)
    BY <1>5, NoneAfterConcat, OfOne
  <2>3. \A A, B : Led(r, A, B) <=> Led(rep, A, B) /\ (Has(rep, B) \/ c \notin A)
    BY <1>5, LedConcat, OfOne
  <2> QED
    BY <2>1, <2>2, <2>3
<1>9. r \in Seq(AnyOut) /\ out' = out \o r
  BY <1>0, <1>5, OutGrown DEF r, rep
<1>10. /\ \A A : Has(out', A) <=> Has(out, A) \/ Has(r, A)
       /\ \A A, B : NoneAfter(out', A, B) <=> NoneAfter(out, A, B) /\ NoneAfter(r, A, B) /\ (Has(out, A) => ~Has(r, B))
       /\ \A A, B : Led(out', A, B) <=> Led(out, A, B) /\ (Has(out, B) \/ Led(r, A, B))
  BY <1>0, <1>9, HasConcat, NoneAfterConcat, LedConcat
<1>11. /\ Has(tasks[o], Final) /\ ran[o] = s /\ topic[o] \in Final /\ running[o] \in Final
       /\ ~Has(out, Commands(o, {Cleared})) /\ ~Has(tasks'[o], Final) /\ ~Has(tasks'[o], {"executing"})
       /\ OverTasks(o)
  <2>1. Has(tasks[o], Final) /\ Has(tasks[o], {s})
    BY <1>1
  <2> QED
    BY <1>1, <2>1 DEF OpInv, SaidTruly, EndedOnce, InOrder, OverTasks
<1>12. TopicTrue(o)' /\ BegunFirst(o)'
  BY <1>0, <1>2 DEF OpInv, TopicTrue, BegunFirst
<1>13. RequestedOnce(o)'
  <2>1. ~Blank(o) /\ ~Fresh(o) /\ cloud[o] # None /\ ~Has(out, Commands(o, {"init"}))
    BY <1>2 DEF OpInv, RequestedOnce, Fresh, Blank
  <2>2. ~Has(out', Commands(o, {"init"}))
    BY <1>4, <1>6, <1>7, <1>8, <1>10, <2>1
  <2> QED
    BY <1>0, <2>1, <2>2, OfNone DEF OpInv, RequestedOnce
<1>14. SaidTruly(o)'
  <2>1. Says(o, "successful")' => ran[o] = "successful" /\ (kind[o] \in Files => o \in stored')
    BY <1>0, <1>4, <1>6, <1>8, <1>10, <1>11 DEF OpInv, SaidTruly, Says
  <2>2. Says(o, "failed")' =>
          \/ ran[o] = "failed"
          \/ ran[o] = "successful" /\ kind[o] \in Files \cup {"custom"}
          \/ kind[o] = "invalid"
    BY <1>0, <1>4, <1>6, <1>8, <1>10, <1>11 DEF OpInv, SaidTruly, Says, Final
  <2>3. shown[o] = "applied" \/ Has(out', Showing(o, {"applied"})) => ran[o] = "successful"
    BY <1>4, <1>6, <1>8, <1>10, <1>11 DEF OpInv, SaidTruly
  <2>4. \A t \in Final : Has(incoming, Commands(o, {t})) \/ Has(tasks'[o], {t}) => ran[o] = t
    BY <1>1 DEF OpInv, SaidTruly
  <2> QED
    BY <1>0, <2>1, <2>2, <2>3, <2>4 DEF SaidTruly
<1>15. /\ (OverCloud(o)' <=> OverCloud(o)) /\ (OverUplink(o)' <=> OverUplink(o))
       /\ (Reported(o)' <=> Reported(o)) /\ (Lists(o)' <=> Lists(o)) /\ (Applies(o)' <=> Applies(o))
  BY <1>0 DEF OverCloud, OverUplink, Reported, Lists, Applies
<1>16. InOrder(o)'
  <2>1. ~Has(r, Going(o))
    BY <1>4, <1>7, <1>8
  <2>2. NoneAfter(out', Over(o), Going(o)) /\ (OverUplink(o) => ~Has(out', Going(o)))
    BY <1>10, <2>1, OfNone DEF OpInv, InOrder
  <2>3. ~Has(incoming, Commands(o, {"executing"}))
    BY <1>11 DEF OpInv, InOrder
  <2>4. NoneAfter(tasks'[o], Final, {"executing"})
    BY <1>1 DEF OpInv, InOrder
  <2> QED
    BY <1>0, <1>11, <1>15, <2>2, <2>3, <2>4 DEF OpInv, InOrder
<1>17. EndedOnce(o)'
  <2>1. NoneAfter(out', Commands(o, {Cleared}), Commands(o, {Cleared}))
    <3>1. NoneAfter(r, Commands(o, {Cleared}), Commands(o, {Cleared}))
      BY <1>4, <1>8, OfNone
    <3> QED
      BY <1>10, <1>11, <3>1, OfNone
  <2>2. NoneAfter(tasks'[o], Final, Final)
    BY <1>11, OfNone
  <2> QED
    BY <1>0, <1>11, <2>1, <2>2 DEF OpInv, EndedOnce
<1>18. ClearedLast(o)'
  <2>1. \A B : Has(rep, B) => Led(out', Commands(o, {Cleared}), B)
    BY <1>4, <1>8, <1>10, <1>11, OfNone
  <2>2. topic[o] # Cleared
    BY <1>11, OperationAssumption DEF Final
  <2>3. Applies(o) => Has(rep, Showing(o, {"applied"}))
    BY <1>4, <1>11 DEF Applies
  <2> QED
    BY <1>0, <1>4, <1>15, <2>1, <2>2, <2>3 DEF ClearedLast
<1> QED
  BY <1>5, <1>12, <1>13, <1>14, <1>16, <1>17, <1>18 DEF OpInv, r, rep

LEMMA TaskRunsInv ==
  ASSUME OperationsInv, NEW o \in Ops, TaskRuns(o)
  PROVE  OperationsInv'
<1>0. /\ incoming \in Seq(AnyIn) /\ uplink \in Seq(AnyUp) /\ out \in Seq(AnyOut)
      /\ OperationsTypeOK /\ Queued /\ \A p \in Ops : OpInv(p)
  BY DEF OperationsInv, Queued
<1>1. /\ UNCHANGED <<kind, cloud, uplink, topic, ran, listed, shown, up, incoming, active, running, crashes>>
      /\ UNCHANGED effectVars
  BY DEF TaskRuns, effectVars
<1>2. PICK ok \in BOOLEAN :
        /\ 1 \in DOMAIN tasks[o] /\ out' = out \o Outcome(o, tasks[o][1], ok)
        /\ tasks' = [tasks EXCEPT ![o] = RemoveAt(@, 1)]
        /\ stored' = IF ok /\ kind[o] \in Files /\ tasks[o][1] = "successful" THEN stored \cup {o} ELSE stored
  BY DEF TaskRuns, Runs
<1>3. PICK q : q = tasks[o]
  OBVIOUS
<1>4. q \in Seq(Live) /\ q # <<>> /\ tasks \in [Ops -> Seq(Live)]
  BY <1>0, <1>2, <1>3 DEF OperationsTypeOK, Live
<1>5. PICK s \in Live : s = Head(q) /\ s = q[1]
  BY <1>4
<1>6. RemoveAt(q, 1) = Tail(q) /\ Tail(q) \in Seq(Live)
  BY <1>4, FirstRemoved
<1>7. /\ tasks' \in [Ops -> Seq(Live)] /\ tasks'[o] = Tail(q)
      /\ \A p \in Ops : p # o => tasks'[p] = tasks[p] /\ (p \in stored' <=> p \in stored)
      /\ stored' \subseteq Ops
  BY <1>0, <1>2, <1>3, <1>4, <1>6 DEF OperationsTypeOK
<1>8. out' = out \o Outcome(o, s, ok) /\ tasks[o] # <<>> /\ Head(tasks[o]) = s /\ tasks'[o] = Tail(tasks[o])
  BY <1>2, <1>3, <1>4, <1>5, <1>7
<1>9. "init" \notin Final /\ "executing" \notin Final
  BY DEF Final
<1>10. OpInv(o)' /\ Outcome(o, s, ok) \in Seq(OutOf(o))
  <2>1. CASE s = "init"
    <3>1. Outcome(o, s, ok) = <<>> /\ UNCHANGED stored
      BY <1>2, <1>3, <1>5, <1>9, <2>1 DEF Outcome
    <3>2. <<>> \in Seq(OutOf(o)) /\ \A A : ~Has(<<>>, A)
      BY OfEmpty
    <3> QED
      BY <1>0, <1>1, <1>8, <2>1, <3>1, <3>2, TaskGoesOn
  <2>2. CASE s = "executing"
    <3> DEFINE a == Status(o, "executing")
               b == Shows(o, "target")
               r == Executing(o)
    <3>1. Outcome(o, s, ok) = r /\ UNCHANGED stored
      BY <1>2, <1>3, <1>5, <1>9, <2>2 DEF Outcome
    <3>2. a \in OutOf(o) /\ b \in OutOf(o)
      BY OutMembers DEF Told
    <3>3. r = <<a>> \o <<b>> \/ r = <<a>>
      <4>1. <<a>> \o <<>> = <<a>>
        OBVIOUS
      <4> QED
        BY <4>1 DEF Executing
    <3> HIDE DEF a, b, r
    <3>4. MadeOf(<<a>>, o, {a}) /\ MadeOf(<<a>> \o <<b>>, o, {a} \cup {b})
      BY <3>2, MadeOne, MadeConcat
    <3>5. r \in Seq(OutOf(o)) /\ \A A : Has(r, A) => a \in A \/ b \in A
      BY <3>3, <3>4 DEF MadeOf
    <3> QED
      BY <1>0, <1>1, <1>8, <2>2, <3>1, <3>5, TaskGoesOn DEF a, b
  <2>3. CASE s \in Final
    <3>1. Outcome(o, s, ok) = Finished(o, Reports(o, s, ok))
      <4>1. s # "executing"
        BY <1>9, <2>3
      <4> QED
        BY <2>3, <4>1 DEF Outcome
    <3>2. stored' = IF ok /\ kind[o] \in Files /\ s = "successful" THEN stored \cup {o} ELSE stored
      BY <1>2, <1>3, <1>5
    <3> QED
      BY <1>0, <1>1, <1>8, <2>3, <3>1, <3>2, TaskEnds
  <2> QED
    BY <2>1, <2>2, <2>3 DEF Live
<1>11. OperationsTypeOK'
  BY <1>0, <1>1, <1>7 DEF OperationsTypeOK, Live
<1>12. Queued'
  BY <1>0, <1>1, <1>8, <1>10, OutGrown DEF Queued
<1>13. ASSUME NEW p \in Ops, p # o
       PROVE  OpInv(p)'
  <2>1. Alike(out, out', OutOf(p))
    BY <1>0, <1>8, <1>10, <1>13, OutGrown
  <2>2. Unmoved(p)
    BY <1>1, <1>7, <1>13, <2>1, AlikeSame DEF Unmoved
  <2> QED
    BY <1>0, <2>2, UnmovedInv
<1> QED
  BY <1>10, <1>11, <1>12, <1>13 DEF OperationsInv

------------------------------------------------------------------------------
(* The messages published.                                                     *)

LEMMA FirstPublished ==
  ASSUME Queued, out # <<>>, out' = Tail(out), NEW m, m = Head(out)
  PROVE  /\ \A A : Has(out, A) <=> m \in A \/ Has(out', A)
         /\ \A A, B : NoneAfter(out, A, B) => NoneAfter(out', A, B) /\ (m \in A => ~Has(out', B))
         /\ \A A, B : Led(out, A, B) => m \notin A /\ (m \in B \/ Led(out', A, B))
<1>1. out \in Seq(AnyOut)
  BY DEF Queued
<1> QED
  BY <1>1, HasTail, NoneAfterTail, LedTail

LEMMA InitPublished ==
  ASSUME Queued, NEW o \in Ops, OpInv(o), out # <<>>, Head(out) = Command(o, "init"), out' = Tail(out),
         topic'[o] = "init", incoming' = Append(incoming, Command(o, "init")),
         UNCHANGED <<kind, cloud, uplink, ran, stored, effectVars, mapperVars>>
  PROVE  OpInv(o)' /\ topic[o] = Cleared
<1> DEFINE m == Command(o, "init")
<1>0. /\ UNCHANGED <<kind, cloud, uplink, ran, stored, listed, shown, active, running, tasks>>
      /\ incoming \in Seq(AnyIn)
  BY DEF effectVars, mapperVars, Queued
<1>1. /\ \A A : Has(out, A) <=> m \in A \/ Has(out', A)
      /\ \A A, B : NoneAfter(out, A, B) => NoneAfter(out', A, B) /\ (m \in A => ~Has(out', B))
  BY FirstPublished
<1>2. m \notin Request(o) /\ \A S : m \in Commands(o, S) <=> "init" \in S
  BY CommandIn
<1>3. "init" \notin Final /\ "init" # Cleared /\ Cleared \notin Final /\ None \notin Final
  BY OperationAssumption DEF Final, None
<1>4. /\ <<m>> \in Seq(AnyIn) /\ incoming' = incoming \o <<m>>
  <2>1. "init" \in Live
    BY DEF Live
  <2>2. m \in InOf(o)
    BY <2>1, CommandIn DEF InOf
  <2> QED
    BY <1>0, <2>2, InGrown
<1> HIDE DEF m
<1>5. \A A : Has(incoming', A) <=> Has(incoming, A) \/ m \in A
  <2>1. \A A : Has(<<m>>, A) <=> m \in A
    BY OfOne
  <2>2. \A A : Has(incoming \o <<m>>, A) <=> Has(incoming, A) \/ Has(<<m>>, A)
    BY <1>0, <1>4, HasConcat
  <2> QED
    BY <1>4, <2>1, <2>2
<1>6. Has(out, Commands(o, {"init"})) /\ ~Has(out', Commands(o, {"init"}))
  BY <1>1, <1>2 DEF OpInv, RequestedOnce
<1>7. Fresh(o) /\ ~Begun(o) /\ Valid(o) /\ ~Has(incoming, Request(o)) /\ topic[o] = Cleared /\ ran[o] = None /\ cloud[o] = "pending"
  BY <1>6 DEF OpInv, BegunFirst, RequestedOnce, Fresh, Blank, Begun
<1>8. /\ ~OverTasks(o) /\ ~OverOut(o) /\ ~OverUplink(o) /\ ~OverCloud(o)
      /\ ~Has(incoming, Commands(o, Final)) /\ ~Has(tasks[o], Final)
      /\ ~Says(o, "successful") /\ ~Says(o, "failed") /\ shown[o] # "applied"
      /\ ~Has(out, Showing(o, {"applied"}))
  BY <1>7, NotOver
<1>9. tasks[o] = <<>> /\ ~Has(incoming, Commands(o, Live \cup {Cleared})) /\ o \notin active
  BY <1>7 DEF OpInv, BegunFirst
<1>10. \A S \in SUBSET (Live \cup {Cleared}) : ~Has(incoming, Commands(o, S))
  <2> TAKE S \in SUBSET (Live \cup {Cleared})
  <2>1. Commands(o, S) \subseteq Commands(o, Live \cup {Cleared})
    BY DEF Commands
  <2> QED
    BY <1>9, <2>1, HasLess
<1>11. /\ ~Has(incoming', Commands(o, Final)) /\ ~Has(incoming', Commands(o, {Cleared}))
       /\ ~Has(incoming', Commands(o, {"executing"})) /\ ~Has(incoming', Request(o))
       /\ \A t \in Final : ~Has(incoming', Commands(o, {t}))
  <2>1. /\ ~Has(incoming, Commands(o, Final)) /\ ~Has(incoming, Commands(o, {Cleared}))
        /\ ~Has(incoming, Commands(o, {"executing"}))
        /\ \A t \in Final : ~Has(incoming, Commands(o, {t}))
    BY <1>10, SomeSets
  <2>2. /\ m \notin Commands(o, Final) /\ m \notin Commands(o, {Cleared})
        /\ m \notin Commands(o, {"executing"}) /\ \A t \in Final : m \notin Commands(o, {t})
    BY <1>2, <1>3
  <2> QED
    BY <1>2, <1>5, <1>7, <2>1, <2>2
<1>12. TopicTrue(o)' /\ Begun(o)' /\ Valid(o)'
  BY <1>0, <1>3, <1>7 DEF TopicTrue, Begun, Valid
<1>13. BegunFirst(o)'
  BY <1>12 DEF BegunFirst
<1>14. RequestedOnce(o)'
  BY <1>0, <1>6, <1>7, <1>11, OfNone DEF RequestedOnce, None
<1>15. ~Says(o, "successful")' /\ ~Says(o, "failed")' /\ ~Has(out', Showing(o, {"applied"}))
  BY <1>0, <1>1, <1>8 DEF Says
<1>16. \A A : ~Has(tasks[o], A)
  BY <1>9, OfEmpty
<1>17. SaidTruly(o)'
  BY <1>0, <1>8, <1>11, <1>15, <1>16 DEF SaidTruly
<1>18. ~OverTasks(o)' /\ ~OverOut(o)' /\ ~OverUplink(o)' /\ ~OverCloud(o)'
  BY <1>0, <1>1, <1>8 DEF OverTasks, OverOut, OverUplink, OverCloud
<1>19. InOrder(o)'
  BY <1>0, <1>1, <1>11, <1>18, OfNone DEF OpInv, InOrder
<1>20. ~Has(out', Commands(o, {Cleared}))
  BY <1>1, <1>3, <1>7 DEF OpInv, EndedOnce
<1>21. EndedOnce(o)'
  BY <1>0, <1>11, <1>16, <1>20, OfNone DEF EndedOnce
<1>22. ClearedLast(o)'
  BY <1>3, <1>20, OfNone DEF ClearedLast
<1> QED
  BY <1>7, <1>12, <1>13, <1>14, <1>17, <1>19, <1>21, <1>22 DEF OpInv

LEMMA ClearPublished ==
  ASSUME Queued, NEW o \in Ops, OpInv(o), out # <<>>, Head(out) = Command(o, Cleared), out' = Tail(out),
         topic'[o] = Cleared, incoming' = Append(incoming, Command(o, Cleared)),
         UNCHANGED <<kind, cloud, uplink, ran, stored, effectVars, mapperVars>>
  PROVE  OpInv(o)' /\ topic[o] \in Final
<1> DEFINE m == Command(o, Cleared)
<1>0. /\ UNCHANGED <<kind, cloud, uplink, ran, stored, listed, shown, active, running, tasks>>
      /\ incoming \in Seq(AnyIn)
  BY DEF effectVars, mapperVars, Queued
<1>1. /\ \A A : Has(out, A) <=> m \in A \/ Has(out', A)
      /\ \A A, B : NoneAfter(out, A, B) => NoneAfter(out', A, B) /\ (m \in A => ~Has(out', B))
      /\ \A A, B : Led(out, A, B) => m \notin A
  BY FirstPublished
<1>2. m \notin Request(o) /\ \A S : m \in Commands(o, S) <=> Cleared \in S
  BY CommandIn
<1>3. Cleared \notin Final /\ Cleared # "executing" /\ Cleared # "init" /\ None \notin Final
  BY OperationAssumption DEF Final, None
<1>4. /\ <<m>> \in Seq(AnyIn) /\ incoming' = incoming \o <<m>>
  <2>1. m \in InOf(o)
    BY CommandIn DEF InOf
  <2> QED
    BY <1>0, <2>1, InGrown
<1> HIDE DEF m
<1>5. /\ \A A : Has(incoming', A) <=> Has(incoming, A) \/ m \in A
      /\ \A A, B : NoneAfter(incoming', A, B) <=> NoneAfter(incoming, A, B) /\ (Has(incoming, A) => m \notin B)
  <2>1. \A A, B : (Has(<<m>>, A) <=> m \in A) /\ NoneAfter(<<m>>, A, B)
    BY OfOne
  <2>2. \A A : Has(incoming \o <<m>>, A) <=> Has(incoming, A) \/ Has(<<m>>, A)
    BY <1>0, <1>4, HasConcat
  <2>3. \A A, B : NoneAfter(incoming \o <<m>>, A, B) <=>
          NoneAfter(incoming, A, B) /\ NoneAfter(<<m>>, A, B) /\ (Has(incoming, A) => ~Has(<<m>>, B))
    BY <1>0, <1>4, NoneAfterConcat
  <2> QED
    BY <1>4, <2>1, <2>2, <2>3
<1>6. /\ Has(out, Commands(o, {Cleared})) /\ ~Has(out', Commands(o, {Cleared}))
      /\ topic[o] \in Final /\ running[o] \in Final /\ ~Has(tasks[o], Final) /\ ran[o] # None
  <2>1. Has(out, Commands(o, {Cleared})) /\ ~Has(out', Commands(o, {Cleared}))
    BY <1>1, <1>2 DEF OpInv, EndedOnce
  <2> QED
    BY <1>3, <2>1 DEF OpInv, EndedOnce, TopicTrue
<1>7. Reported(o) /\ (Lists(o) => o \in listed) /\ (Applies(o) => shown[o] = "applied")
  <2>1. \A B : ~Led(out, Commands(o, {Cleared}), B)
    BY <1>1, <1>2
  <2> QED
    BY <2>1 DEF OpInv, ClearedLast
<1>8. Begun(o) /\ Begun(o)' /\ Valid(o) /\ Valid(o)' /\ TopicTrue(o)'
  <2>1. Begun(o) /\ Begun(o)'
    BY <1>0, <1>6 DEF Begun
  <2> QED
    BY <1>0, <1>3, <2>1 DEF OpInv, BegunFirst, Valid, TopicTrue
<1>9. BegunFirst(o)'
  BY <1>8 DEF BegunFirst
<1>10. RequestedOnce(o)'
  <2>1. ~Blank(o) /\ ~Fresh(o) /\ cloud[o] # None /\ ~Has(out, Commands(o, {"init"}))
    BY <1>8 DEF OpInv, RequestedOnce, Fresh, Blank
  <2>2. ~Has(out', Commands(o, {"init"}))
    BY <1>1, <2>1
  <2> QED
    BY <1>0, <1>2, <1>5, <2>1, <2>2, OfNone DEF OpInv, RequestedOnce
<1>11. \A S : Cleared \notin S => (Has(incoming', Commands(o, S)) <=> Has(incoming, Commands(o, S)))
  BY <1>2, <1>5
<1>12. SaidTruly(o)'
  <2>1. \A t \in Final : Has(incoming', Commands(o, {t})) => Has(incoming, Commands(o, {t}))
    BY <1>3, <1>11
  <2>2. \A t \in Final : Says(o, t)' => Says(o, t)
    BY <1>0, <1>1 DEF Says
  <2> QED
    BY <1>0, <1>1, <2>1, <2>2, SomeSets DEF OpInv, SaidTruly
<1>13. /\ (OverCloud(o)' <=> OverCloud(o)) /\ (OverUplink(o)' <=> OverUplink(o))
       /\ (OverOut(o)' => OverOut(o)) /\ (OverTasks(o)' => OverTasks(o))
       /\ (Reported(o)' <=> Reported(o)) /\ (Lists(o)' <=> Lists(o)) /\ (Applies(o)' <=> Applies(o))
  BY <1>0, <1>1 DEF OverCloud, OverUplink, OverOut, OverTasks, Reported, Lists, Applies
<1>14. InOrder(o)'
  <2>1. NoneAfter(incoming', Commands(o, Final), Commands(o, {"executing"}))
    BY <1>2, <1>3, <1>5 DEF OpInv, InOrder
  <2>2. Has(incoming', Commands(o, {"executing"})) <=> Has(incoming, Commands(o, {"executing"}))
    BY <1>3, <1>11
  <2> QED
    BY <1>0, <1>1, <1>13, <2>1, <2>2 DEF OpInv, InOrder
<1>15. EndedOnce(o)'
  BY <1>0, <1>6, OfNone DEF OpInv, EndedOnce
<1>16. ClearedLast(o)'
  BY <1>0, <1>7, <1>13 DEF ClearedLast
<1> QED
  BY <1>6, <1>8, <1>9, <1>10, <1>12, <1>14, <1>15, <1>16 DEF OpInv

LEMMA StatusPublished ==
  ASSUME Queued, NEW o \in Ops, OpInv(o), NEW s \in Told, out # <<>>, Head(out) = Status(o, s),
         out' = Tail(out), uplink' = Append(uplink, Status(o, s)),
         UNCHANGED <<kind, cloud, topic, ran, stored, effectVars, incoming, mapperVars>>
  PROVE  OpInv(o)'
<1> DEFINE m == Status(o, s)
<1>0. /\ UNCHANGED <<kind, cloud, topic, ran, stored, listed, shown, incoming, active, running, tasks>>
      /\ uplink \in Seq(AnyUp)
  BY DEF effectVars, mapperVars, Queued
<1>1. /\ \A A : Has(out, A) <=> m \in A \/ Has(out', A)
      /\ \A A, B : NoneAfter(out, A, B) => NoneAfter(out', A, B) /\ (m \in A => ~Has(out', B))
      /\ \A A, B : Led(out, A, B) => m \in B \/ Led(out', A, B)
  BY FirstPublished
<1>2. /\ \A S : (m \in Statuses(o, S) <=> s \in S) /\ m \notin Commands(o, S) /\ m \notin Showing(o, S)
      /\ m \notin Listing(o)
  BY StatusIn
<1>3. m \in UpOf(o) /\ (s = "executing" => m \in Going(o)) /\ (s \in Final => m \in Over(o))
      /\ (s \in Final \/ s = "executing") /\ "executing" \notin Final
  BY <1>2 DEF UpOf, Going, Over, Told, Final
<1>4. <<m>> \in Seq(AnyUp) /\ uplink' = uplink \o <<m>>
  <2>1. m \in AnyUp
    BY <1>3 DEF AnyUp
  <2> QED
    BY <1>0, <2>1
<1> HIDE DEF m
<1>5. /\ \A A : Has(uplink', A) <=> Has(uplink, A) \/ m \in A
      /\ \A A, B : NoneAfter(uplink', A, B) <=> NoneAfter(uplink, A, B) /\ (Has(uplink, A) => m \notin B)
  <2>1. \A A, B : (Has(<<m>>, A) <=> m \in A) /\ NoneAfter(<<m>>, A, B)
    BY OfOne
  <2>2. \A A : Has(uplink \o <<m>>, A) <=> Has(uplink, A) \/ Has(<<m>>, A)
    BY <1>0, <1>4, HasConcat
  <2>3. \A A, B : NoneAfter(uplink \o <<m>>, A, B) <=>
          NoneAfter(uplink, A, B) /\ NoneAfter(<<m>>, A, B) /\ (Has(uplink, A) => ~Has(<<m>>, B))
    BY <1>0, <1>4, NoneAfterConcat
  <2> QED
    BY <1>4, <2>1, <2>2, <2>3
<1>6. ~Blank(o) /\ ~Fresh(o) /\ cloud[o] # None /\ ~Has(out, Commands(o, {"init"})) /\ ~Has(out', Commands(o, {"init"}))
  <2>1. ~Blank(o) /\ ~Fresh(o)
    BY <1>1, <1>3 DEF Blank, Fresh
  <2> QED
    BY <1>1, <2>1 DEF OpInv, RequestedOnce
<1>7. TopicTrue(o)' /\ BegunFirst(o)'
  BY <1>0, <1>1 DEF OpInv, TopicTrue, BegunFirst, Begun, Valid
<1>8. RequestedOnce(o)'
  BY <1>0, <1>1, <1>6 DEF OpInv, RequestedOnce
<1>9. SaidTruly(o)'
  <2>1. \A t \in Final : Says(o, t)' => Says(o, t)
    BY <1>0, <1>1, <1>5 DEF Says
  <2> QED
    BY <1>0, <1>1, <2>1, SomeSets DEF OpInv, SaidTruly
<1>10. s = "executing" => ~OverUplink(o) /\ ~OverCloud(o) /\ ~Has(uplink, Statuses(o, Final))
  BY <1>1, <1>3 DEF OpInv, InOrder, OverUplink
<1>11. /\ (OverCloud(o)' <=> OverCloud(o)) /\ (OverUplink(o)' => OverUplink(o) \/ s \in Final)
       /\ (OverOut(o)' => OverOut(o)) /\ (OverTasks(o)' => OverTasks(o))
  <2>1. (OverCloud(o)' <=> OverCloud(o)) /\ (OverUplink(o)' => OverUplink(o) \/ s \in Final)
    BY <1>0, <1>2, <1>5 DEF OverCloud, OverUplink
  <2>2. OverOut(o)' => OverOut(o)
    BY <1>1, <1>3, <2>1 DEF OverOut
  <2> QED
    BY <1>0, <2>1, <2>2 DEF OverTasks
<1>12. InOrder(o)'
  <2>1. OverCloud(o) => ~Has(uplink', Statuses(o, {"executing"}))
    BY <1>2, <1>5, <1>10 DEF OpInv, InOrder
  <2>2. OverUplink(o)' => ~Has(out', Going(o))
    BY <1>1, <1>3, <1>11 DEF OpInv, InOrder
  <2>3. NoneAfter(uplink', Statuses(o, Final), Statuses(o, {"executing"}))
    BY <1>2, <1>5, <1>10 DEF OpInv, InOrder
  <2>4. NoneAfter(out', Over(o), Going(o))
    BY <1>1 DEF OpInv, InOrder
  <2> QED
    BY <1>0, <1>11, <2>1, <2>2, <2>3, <2>4 DEF OpInv, InOrder
<1>13. EndedOnce(o)'
  BY <1>0, <1>1 DEF OpInv, EndedOnce
<1>14. (Reported(o)' <=> Reported(o) \/ s \in Final) /\ (Lists(o)' <=> Lists(o)) /\ (Applies(o)' <=> Applies(o))
  BY <1>0, <1>2, <1>5 DEF Reported, Lists, Applies
<1>15. ClearedLast(o)'
  <2>1. Reported(o)' \/ Led(out', Commands(o, {Cleared}), Statuses(o, Final))
    BY <1>1, <1>2, <1>14 DEF OpInv, ClearedLast
  <2>2. /\ Led(out, Commands(o, {Cleared}), Listing(o)) => Led(out', Commands(o, {Cleared}), Listing(o))
        /\ Led(out, Commands(o, {Cleared}), Showing(o, {"applied"}))
             => Led(out', Commands(o, {Cleared}), Showing(o, {"applied"}))
    BY <1>1, <1>2
  <2> QED
    BY <1>0, <1>14, <2>1, <2>2 DEF OpInv, ClearedLast
<1> QED
  BY <1>7, <1>8, <1>9, <1>12, <1>13, <1>15 DEF OpInv

LEMMA ListPublished ==
  ASSUME Queued, NEW o \in Ops, OpInv(o), out # <<>>, Head(out) = ListRequest(o), out' = Tail(out),
         listed' = listed \cup {o},
         UNCHANGED <<kind, cloud, uplink, topic, ran, stored, shown, incoming, mapperVars>>
  PROVE  OpInv(o)'
<1> DEFINE m == ListRequest(o)
<1>0. UNCHANGED <<kind, cloud, uplink, topic, ran, stored, shown, incoming, active, running, tasks>>
  BY DEF mapperVars
<1>1. /\ \A A : Has(out, A) <=> m \in A \/ Has(out', A)
      /\ \A A, B : NoneAfter(out, A, B) => NoneAfter(out', A, B)
      /\ \A A, B : Led(out, A, B) => m \in B \/ Led(out', A, B)
  BY FirstPublished
<1>2. /\ \A S : m \notin Statuses(o, S) /\ m \notin Commands(o, S) /\ m \notin Showing(o, S)
      /\ m \notin UpOf(o)
  BY ListingIn DEF UpOf
<1> HIDE DEF m
<1>3. TopicTrue(o)' /\ BegunFirst(o)'
  BY <1>0, <1>1 DEF OpInv, TopicTrue, BegunFirst, Begun, Valid
<1>4. RequestedOnce(o)'
  <2>1. (Blank(o)' <=> Blank(o)) /\ (Fresh(o)' <=> Fresh(o))
    BY <1>0, <1>1, <1>2 DEF Blank, Fresh, Begun
  <2> QED
    BY <1>0, <1>1, <2>1 DEF OpInv, RequestedOnce
<1>5. SaidTruly(o)'
  <2>1. \A t \in Final : Says(o, t)' => Says(o, t)
    BY <1>0, <1>1 DEF Says
  <2> QED
    BY <1>0, <1>1, <2>1, SomeSets DEF OpInv, SaidTruly
<1>6. /\ (OverCloud(o)' <=> OverCloud(o)) /\ (OverUplink(o)' <=> OverUplink(o))
      /\ (OverOut(o)' => OverOut(o)) /\ (OverTasks(o)' => OverTasks(o))
      /\ (Reported(o)' <=> Reported(o)) /\ (Lists(o)' <=> Lists(o)) /\ (Applies(o)' <=> Applies(o))
  BY <1>0, <1>1 DEF OverCloud, OverUplink, OverOut, OverTasks, Reported, Lists, Applies
<1>7. InOrder(o)'
  BY <1>0, <1>1, <1>6 DEF OpInv, InOrder
<1>8. EndedOnce(o)'
  BY <1>0, <1>1 DEF OpInv, EndedOnce
<1>9. ClearedLast(o)'
  <2>1. /\ Led(out, Commands(o, {Cleared}), Statuses(o, Final)) => Led(out', Commands(o, {Cleared}), Statuses(o, Final))
        /\ Led(out, Commands(o, {Cleared}), Showing(o, {"applied"}))
             => Led(out', Commands(o, {Cleared}), Showing(o, {"applied"}))
    BY <1>1, <1>2
  <2> QED
    BY <1>0, <1>6, <2>1 DEF OpInv, ClearedLast
<1> QED
  BY <1>3, <1>4, <1>5, <1>7, <1>8, <1>9 DEF OpInv

LEMMA ShowingPublished ==
  ASSUME Queued, NEW o \in Ops, OpInv(o), NEW x \in {"target", "applied"}, out # <<>>, Head(out) = Shows(o, x),
         out' = Tail(out), shown'[o] = x,
         UNCHANGED <<kind, cloud, uplink, topic, ran, stored, listed, incoming, mapperVars>>
  PROVE  OpInv(o)' /\ (shown[o] = "applied" => x = "applied")
<1> DEFINE m == Shows(o, x)
<1>0. UNCHANGED <<kind, cloud, uplink, topic, ran, stored, listed, incoming, active, running, tasks>>
  BY DEF mapperVars
<1>1. /\ \A A : Has(out, A) <=> m \in A \/ Has(out', A)
      /\ \A A, B : NoneAfter(out, A, B) => NoneAfter(out', A, B) /\ (m \in A => ~Has(out', B))
      /\ \A A, B : Led(out, A, B) => m \in B \/ Led(out', A, B)
  BY FirstPublished
<1>2. /\ \A S : m \notin Statuses(o, S) /\ m \notin Commands(o, S) /\ (m \in Showing(o, S) <=> x \in S)
      /\ m \notin UpOf(o) /\ m \notin Listing(o)
      /\ (x = "target" => m \in Going(o)) /\ (x = "applied" => m \in Over(o))
  <2>1. \A S : m \notin Statuses(o, S) /\ m \notin Commands(o, S) /\ (m \in Showing(o, S) <=> x \in S)
    BY ShowsIn
  <2>2. m \notin Listing(o)
    BY ShowsIn
  <2> QED
    BY <2>1, <2>2 DEF UpOf, Going, Over
<1> HIDE DEF m
<1>3. x = "target" => ~OverUplink(o) /\ shown[o] # "applied"
  BY <1>1, <1>2 DEF OpInv, InOrder, OverUplink
<1>4. x = "applied" => ran[o] = "successful" /\ ~Has(out', Going(o))
  BY <1>1, <1>2 DEF OpInv, SaidTruly, InOrder
<1>5. TopicTrue(o)' /\ BegunFirst(o)'
  BY <1>0, <1>1 DEF OpInv, TopicTrue, BegunFirst, Begun, Valid
<1>6. RequestedOnce(o)'
  <2>1. (Blank(o)' <=> Blank(o)) /\ (Fresh(o)' <=> Fresh(o))
    BY <1>0, <1>1, <1>2 DEF Blank, Fresh, Begun
  <2> QED
    BY <1>0, <1>1, <2>1 DEF OpInv, RequestedOnce
<1>7. SaidTruly(o)'
  <2>1. \A t \in Final : Says(o, t)' => Says(o, t)
    BY <1>0, <1>1 DEF Says
  <2> QED
    BY <1>0, <1>1, <1>4, <2>1, SomeSets DEF OpInv, SaidTruly
<1>8. /\ (OverCloud(o)' <=> OverCloud(o)) /\ (OverUplink(o)' => OverUplink(o) \/ x = "applied")
      /\ (OverOut(o)' => OverOut(o)) /\ (OverTasks(o)' => OverTasks(o))
      /\ (Reported(o)' <=> Reported(o)) /\ (Lists(o)' <=> Lists(o)) /\ (Applies(o)' <=> Applies(o))
  <2>1. (OverCloud(o)' <=> OverCloud(o)) /\ (OverUplink(o)' => OverUplink(o) \/ x = "applied")
    BY <1>0 DEF OverCloud, OverUplink
  <2>2. OverOut(o)' => OverOut(o)
    BY <1>1, <1>2, <2>1 DEF OverOut
  <2>3. OverTasks(o)' => OverTasks(o)
    BY <1>0, <2>2 DEF OverTasks
  <2> QED
    BY <1>0, <2>1, <2>2, <2>3 DEF Reported, Lists, Applies
<1>9. InOrder(o)'
  <2>1. OverUplink(o)' => ~Has(out', Going(o))
    BY <1>1, <1>4, <1>8 DEF OpInv, InOrder
  <2> QED
    BY <1>0, <1>1, <1>8, <2>1 DEF OpInv, InOrder
<1>10. EndedOnce(o)'
  BY <1>0, <1>1 DEF OpInv, EndedOnce
<1>11. shown[o] = "applied" => x = "applied"
  BY <1>3
<1>12. ClearedLast(o)'
  <2>1. /\ Led(out, Commands(o, {Cleared}), Statuses(o, Final)) => Led(out', Commands(o, {Cleared}), Statuses(o, Final))
        /\ Led(out, Commands(o, {Cleared}), Listing(o)) => Led(out', Commands(o, {Cleared}), Listing(o))
        /\ Led(out, Commands(o, {Cleared}), Showing(o, {"applied"}))
             => x = "applied" \/ Led(out', Commands(o, {Cleared}), Showing(o, {"applied"}))
    BY <1>1, <1>2
  <2> QED
    BY <1>0, <1>8, <1>11, <2>1 DEF OpInv, ClearedLast
<1> QED
  BY <1>5, <1>6, <1>7, <1>9, <1>10, <1>11, <1>12 DEF OpInv

LEMMA PublishCases ==
  ASSUME Queued, Publish
  PROVE  \/ /\ Head(out) = PendingRequest /\ uplink' = Append(uplink, PendingRequest)
            /\ UNCHANGED <<topic, incoming, listed, shown>>
         \/ \E o \in Ops :
              \/ \E s \in {"init", Cleared} :
                   /\ Head(out) = Command(o, s) /\ topic' = [topic EXCEPT ![o] = s]
                   /\ incoming' = Append(incoming, Command(o, s)) /\ UNCHANGED <<uplink, listed, shown>>
              \/ \E s \in Told :
                   /\ Head(out) = Status(o, s) /\ uplink' = Append(uplink, Status(o, s))
                   /\ UNCHANGED <<topic, incoming, listed, shown>>
              \/ /\ Head(out) = ListRequest(o) /\ listed' = listed \cup {o}
                 /\ UNCHANGED <<uplink, topic, incoming, shown>>
              \/ \E x \in {"target", "applied"} :
                   /\ Head(out) = Shows(o, x) /\ shown' = [shown EXCEPT ![o] = x]
                   /\ UNCHANGED <<uplink, topic, incoming, listed>>
<1>1. /\ out # <<>> /\ out \in Seq(AnyOut)
      /\ topic' = IF "cmd" \in DOMAIN Head(out) THEN [topic EXCEPT ![Head(out).cmd] = Head(out).status] ELSE topic
      /\ incoming' = IF "cmd" \in DOMAIN Head(out) THEN Append(incoming, Head(out)) ELSE incoming
      /\ uplink' = IF "op" \in DOMAIN Head(out) THEN Append(uplink, Head(out)) ELSE uplink
      /\ listed' = IF "list" \in DOMAIN Head(out) THEN listed \cup {Head(out).list} ELSE listed
      /\ shown' = IF "of" \in DOMAIN Head(out) THEN [shown EXCEPT ![Head(out).of] = Head(out).what] ELSE shown
  BY DEF Publish, Queued
<1>2. Head(out) \in AnyOut
  BY <1>1, OutTaken
<1>3. CASE Head(out) = PendingRequest
  <2>1. DOMAIN Head(out) = {"op"}
    BY <1>3, PendingIn
  <2> QED
    BY <1>1, <1>3, <2>1
<1>4. ASSUME NEW o \in Ops, NEW s \in {"init", Cleared}, Head(out) = Command(o, s)
      PROVE  /\ topic' = [topic EXCEPT ![o] = s] /\ incoming' = Append(incoming, Command(o, s))
             /\ UNCHANGED <<uplink, listed, shown>>
  <2>1. DOMAIN Head(out) = {"cmd", "status"}
    BY <1>4, CommandIn
  <2>2. Head(out).cmd = o /\ Head(out).status = s
    BY <1>4 DEF Command
  <2> QED
    BY <1>1, <1>4, <2>1, <2>2
<1>5. ASSUME NEW o \in Ops, NEW s \in Told, Head(out) = Status(o, s)
      PROVE  uplink' = Append(uplink, Status(o, s)) /\ UNCHANGED <<topic, incoming, listed, shown>>
  <2>1. DOMAIN Head(out) = {"op", "status"}
    BY <1>5, StatusIn
  <2> QED
    BY <1>1, <1>5, <2>1
<1>6. ASSUME NEW o \in Ops, Head(out) = ListRequest(o)
      PROVE  listed' = listed \cup {o} /\ UNCHANGED <<uplink, topic, incoming, shown>>
  <2>1. DOMAIN Head(out) = {"list"}
    BY <1>6, ListingIn
  <2>2. Head(out).list = o
    BY <1>6 DEF ListRequest
  <2> QED
    BY <1>1, <1>6, <2>1, <2>2
<1>7. ASSUME NEW o \in Ops, NEW x \in {"target", "applied"}, Head(out) = Shows(o, x)
      PROVE  shown' = [shown EXCEPT ![o] = x] /\ UNCHANGED <<uplink, topic, incoming, listed>>
  <2>1. DOMAIN Head(out) = {"of", "what"}
    BY <1>7, ShowsIn
  <2>2. Head(out).of = o /\ Head(out).what = x
    BY <1>7 DEF Shows
  <2> QED
    BY <1>1, <1>7, <2>1, <2>2
<1>8. ASSUME NEW o \in Ops, Head(out) \in OutOf(o)
      PROVE  \/ \E s \in {"init", Cleared} : Head(out) = Command(o, s)
             \/ \E s \in Told : Head(out) = Status(o, s)
             \/ \E x \in {"target", "applied"} : Head(out) = Shows(o, x)
             \/ Head(out) = ListRequest(o)
  BY <1>8, OutKind
<1>9. CASE \E o \in Ops : Head(out) \in OutOf(o)
  <2>1. PICK o \in Ops : Head(out) \in OutOf(o)
    BY <1>9
  <2>2. CASE \E s \in {"init", Cleared} : Head(out) = Command(o, s)
    BY <1>4, <2>2
  <2>3. CASE \E s \in Told : Head(out) = Status(o, s)
    BY <1>5, <2>3
  <2>4. CASE \E x \in {"target", "applied"} : Head(out) = Shows(o, x)
    BY <1>7, <2>4
  <2>5. CASE Head(out) = ListRequest(o)
    BY <1>6, <2>5
  <2> QED
    BY <1>8, <2>1, <2>2, <2>3, <2>4, <2>5
<1> QED
  BY <1>2, <1>3, <1>9 DEF AnyOut

LEMMA PublishInv ==
  ASSUME OperationsInv, Publish
  PROVE  OperationsInv'
<1>0. /\ incoming \in Seq(AnyIn) /\ uplink \in Seq(AnyUp) /\ out \in Seq(AnyOut)
      /\ OperationsTypeOK /\ Queued /\ \A p \in Ops : OpInv(p)
  BY DEF OperationsInv, Queued
<1>1. /\ out # <<>> /\ out' = Tail(out) /\ out' \in Seq(AnyOut)
      /\ UNCHANGED <<kind, cloud, ran, stored, up, active, running, tasks, crashes>> /\ UNCHANGED mapperVars
  <2>1. out # <<>> /\ out' = Tail(out)
    BY DEF Publish
  <2> QED
    BY <1>0, <2>1, OutTaken DEF Publish, mapperVars
<1>2. \A o, p \in Ops : p # o /\ Head(out) \in OutOf(o) => Alike(out, out', OutOf(p))
  BY <1>0, <1>1, OutTaken
<1>3. /\ topic \in [Ops -> {Cleared, "init", "executing"} \cup Final] /\ shown \in [Ops -> {None, "target", "applied"}]
      /\ listed \subseteq Ops
  BY <1>0 DEF OperationsTypeOK
<1>4. ASSUME topic' \in [Ops -> {Cleared, "init", "executing"} \cup Final],
             shown' \in [Ops -> {None, "target", "applied"}], listed' \subseteq Ops
      PROVE  OperationsTypeOK'
  BY <1>0, <1>1, <1>4 DEF OperationsTypeOK
<1>5. CASE /\ Head(out) = PendingRequest /\ uplink' = Append(uplink, PendingRequest)
           /\ UNCHANGED <<topic, incoming, listed, shown>>
  <2>1. <<PendingRequest>> \in Seq(AnyUp) /\ uplink' = uplink \o <<PendingRequest>> /\ uplink' \in Seq(AnyUp)
    <3>1. PendingRequest \in AnyUp
      BY DEF AnyUp
    <3> QED
      BY <1>0, <1>5, <3>1
  <2>2. OperationsTypeOK'
    BY <1>3, <1>4, <1>5
  <2>3. Queued'
    BY <1>0, <1>1, <1>5, <2>1 DEF Queued
  <2>4. ASSUME NEW p \in Ops
        PROVE  OpInv(p)'
    <3>1. Alike(out, out', OutOf(p))
      BY <1>0, <1>1, <1>5, OutTaken
    <3>2. ~Has(<<PendingRequest>>, OutOf(p))
      BY PendingOf, OfOne
    <3>3. Alike(uplink, uplink', OutOf(p))
      BY <1>0, <2>1, <3>2, AlikeConcat
    <3>4. Unmoved(p)
      BY <1>1, <1>5, <3>1, <3>3, AlikeSame DEF Unmoved
    <3> QED
      BY <1>0, <3>4, UnmovedInv
  <2> QED
    BY <2>2, <2>3, <2>4 DEF OperationsInv
<1>6. ASSUME NEW o \in Ops, NEW s \in {"init", Cleared}, Head(out) = Command(o, s),
             topic' = [topic EXCEPT ![o] = s], incoming' = Append(incoming, Command(o, s)),
             UNCHANGED <<uplink, listed, shown>>
      PROVE  OperationsInv'
  <2>1. Head(out) \in OutOf(o) /\ Command(o, s) \in InOf(o)
    <3>1. Command(o, s) \in Commands(o, Live \cup {Cleared})
      <4>1. s \in Live \cup {Cleared}
        BY DEF Live
      <4> QED
        BY <4>1, CommandIn
    <3> QED
      BY <1>6, <3>1, OutMembers DEF InOf
  <2>2. topic'[o] = s /\ \A p \in Ops : p # o => topic'[p] = topic[p]
    BY <1>3, <1>6
  <2>3. OperationsTypeOK'
    BY <1>3, <1>4, <1>6
  <2>4. incoming' \in Seq(AnyIn) /\ \A p \in Ops : p # o => Alike(incoming, incoming', InOf(p))
    BY <1>0, <1>6, <2>1, InGrown
  <2>5. Queued'
    BY <1>0, <1>1, <1>6, <2>4 DEF Queued
  <2>6. ASSUME NEW p \in Ops, p # o
        PROVE  OpInv(p)'
    <3>1. Alike(out, out', OutOf(p))
      BY <1>2, <2>1, <2>6
    <3>2. Unmoved(p)
      BY <1>1, <1>6, <2>2, <2>4, <2>6, <3>1, AlikeSame DEF Unmoved
    <3> QED
      BY <1>0, <3>2, UnmovedInv
  <2>7. UNCHANGED <<kind, cloud, uplink, ran, stored, effectVars, mapperVars>>
    BY <1>1, <1>6 DEF effectVars
  <2>8. OpInv(o)'
    <3>1. CASE s = "init"
      BY <1>0, <1>1, <1>6, <2>2, <2>7, <3>1, InitPublished
    <3>2. CASE s = Cleared
      BY <1>0, <1>1, <1>6, <2>2, <2>7, <3>2, ClearPublished
    <3> QED
      BY <3>1, <3>2
  <2> QED
    BY <2>3, <2>5, <2>6, <2>8 DEF OperationsInv
<1>7. ASSUME NEW o \in Ops, NEW s \in Told, Head(out) = Status(o, s), uplink' = Append(uplink, Status(o, s)),
             UNCHANGED <<topic, incoming, listed, shown>>
      PROVE  OperationsInv'
  <2> DEFINE m == Status(o, s)
  <2>1. Head(out) \in OutOf(o) /\ m \in UpOf(o) /\ m \in OutOf(o)
    BY <1>7, OutMembers
  <2>2. <<m>> \in Seq(AnyUp) /\ uplink' = uplink \o <<m>> /\ uplink' \in Seq(AnyUp)
    <3>1. m \in AnyUp
      BY <2>1 DEF AnyUp
    <3> QED
      BY <1>0, <1>7, <3>1
  <2>3. OperationsTypeOK'
    BY <1>3, <1>4, <1>7
  <2>4. Queued'
    BY <1>0, <1>1, <1>7, <2>2 DEF Queued
  <2>5. ASSUME NEW p \in Ops, p # o
        PROVE  OpInv(p)'
    <3>1. Alike(out, out', OutOf(p))
      BY <1>2, <2>1, <2>5
    <3>2. m \notin OutOf(p)
      BY <2>1, <2>5, OutOfOne
    <3>3. ~Has(<<m>>, OutOf(p))
      BY <3>2, OfOne
    <3>4. Alike(uplink, uplink', OutOf(p))
      BY <1>0, <2>2, <3>3, AlikeConcat
    <3>5. Unmoved(p)
      BY <1>1, <1>7, <3>1, <3>4, AlikeSame DEF Unmoved
    <3> QED
      BY <1>0, <3>5, UnmovedInv
  <2>6. UNCHANGED <<kind, cloud, topic, ran, stored, effectVars, incoming, mapperVars>>
    BY <1>1, <1>7 DEF effectVars
  <2>7. OpInv(o)'
    BY <1>0, <1>1, <1>7, <2>6, StatusPublished
  <2> QED
    BY <2>3, <2>4, <2>5, <2>7 DEF OperationsInv
<1>8. ASSUME NEW o \in Ops, Head(out) = ListRequest(o), listed' = listed \cup {o},
             UNCHANGED <<uplink, topic, incoming, shown>>
      PROVE  OperationsInv'
  <2>1. Head(out) \in OutOf(o)
    BY <1>8, OutMembers
  <2>2. OperationsTypeOK'
    BY <1>3, <1>4, <1>8
  <2>3. Queued'
    BY <1>0, <1>1, <1>8 DEF Queued
  <2>4. ASSUME NEW p \in Ops, p # o
        PROVE  OpInv(p)'
    <3>1. Alike(out, out', OutOf(p))
      BY <1>2, <2>1, <2>4
    <3>2. Unmoved(p)
      BY <1>1, <1>8, <2>4, <3>1, AlikeSame DEF Unmoved
    <3> QED
      BY <1>0, <3>2, UnmovedInv
  <2>5. OpInv(o)'
    BY <1>0, <1>1, <1>8, ListPublished
  <2> QED
    BY <2>2, <2>3, <2>4, <2>5 DEF OperationsInv
<1>9. ASSUME NEW o \in Ops, NEW x \in {"target", "applied"}, Head(out) = Shows(o, x),
             shown' = [shown EXCEPT ![o] = x], UNCHANGED <<uplink, topic, incoming, listed>>
      PROVE  OperationsInv'
  <2>1. Head(out) \in OutOf(o)
    BY <1>9, OutMembers
  <2>2. OperationsTypeOK'
    BY <1>3, <1>4, <1>9
  <2>3. Queued'
    BY <1>0, <1>1, <1>9 DEF Queued
  <2>4. shown'[o] = x /\ \A p \in Ops : p # o => shown'[p] = shown[p]
    BY <1>3, <1>9
  <2>5. ASSUME NEW p \in Ops, p # o
        PROVE  OpInv(p)'
    <3>1. Alike(out, out', OutOf(p))
      BY <1>2, <2>1, <2>5
    <3>2. Unmoved(p)
      BY <1>1, <1>9, <2>4, <2>5, <3>1, AlikeSame DEF Unmoved
    <3> QED
      BY <1>0, <3>2, UnmovedInv
  <2>6. OpInv(o)'
    BY <1>0, <1>1, <1>9, <2>4, ShowingPublished
  <2> QED
    BY <2>2, <2>3, <2>5, <2>6 DEF OperationsInv
<1> QED
  BY <1>0, <1>5, <1>6, <1>7, <1>8, <1>9, PublishCases

------------------------------------------------------------------------------
(* Crash and restart.                                                          *)

LEMMA CrashInv ==
  ASSUME OperationsInv, Crash
  PROVE  OperationsInv'
<1>0. /\ uplink \in Seq(AnyUp) /\ OperationsTypeOK /\ \A o \in Ops : OpInv(o)
  BY DEF OperationsInv, Queued
<1>1. /\ incoming' = <<>> /\ out' = <<>> /\ active' = {} /\ up' = FALSE
      /\ crashes < MaxCrashes /\ crashes' = crashes + 1
      /\ running' = [c \in Ops |-> None] /\ tasks' = [c \in Ops |-> <<>>]
      /\ UNCHANGED <<kind, cloud, uplink, topic, ran, stored, listed, shown>>
  BY DEF Crash, effectVars
<1>2. OperationsTypeOK'
  <2>1. crashes' \in 0 .. MaxCrashes
    BY <1>0, <1>1, OperationAssumption DEF OperationsTypeOK
  <2>2. /\ running' \in [Ops -> {None, "init", "executing"} \cup Final]
        /\ tasks' \in [Ops -> Seq({"init", "executing"} \cup Final)]
    BY <1>1
  <2> QED
    BY <1>0, <1>1, <2>1, <2>2 DEF OperationsTypeOK
<1>3. Queued'
  BY <1>0, <1>1 DEF Queued
<1>4. ASSUME NEW o \in Ops
      PROVE  OpInv(o)'
  <2>1. OpInv(o) /\ tasks'[o] = <<>> /\ running'[o] = None
    BY <1>0, <1>1
  <2>2. \A A : ~Has(incoming', A) /\ ~Has(out', A) /\ ~Has(tasks'[o], A)
    BY <1>1, <2>1, OfEmpty
  <2>3. \A A, B : /\ NoneAfter(incoming', A, B) /\ NoneAfter(out', A, B) /\ NoneAfter(tasks'[o], A, B)
                  /\ Led(out', A, B)
    BY <2>2, OfNone
  <2>4. TopicTrue(o)' /\ (Begun(o)' <=> Begun(o)) /\ (Valid(o)' <=> Valid(o))
    BY <1>1, <2>1 DEF OpInv, TopicTrue, Begun, Valid
  <2>5. BegunFirst(o)'
    BY <1>1, <2>1, <2>2, <2>4 DEF OpInv, BegunFirst
  <2>6. RequestedOnce(o)'
    BY <1>1, <2>1, <2>2, <2>3, <2>4 DEF OpInv, RequestedOnce, Blank
  <2>7. SaidTruly(o)'
    <3>1. \A t \in Final : Says(o, t)' => Says(o, t)
      BY <1>1, <2>2 DEF Says
    <3> QED
      BY <1>1, <2>1, <2>2, <3>1, SomeSets DEF OpInv, SaidTruly
  <2>8. /\ (OverCloud(o)' <=> OverCloud(o)) /\ (Reported(o)' <=> Reported(o))
        /\ (Lists(o)' <=> Lists(o)) /\ (Applies(o)' <=> Applies(o))
    BY <1>1 DEF OverCloud, Reported, Lists, Applies
  <2>9. InOrder(o)'
    BY <1>1, <2>1, <2>2, <2>3, <2>8 DEF OpInv, InOrder
  <2>10. EndedOnce(o)'
    BY <2>2, <2>3 DEF EndedOnce
  <2>11. ClearedLast(o)'
    BY <1>1, <2>1, <2>3, <2>8 DEF OpInv, ClearedLast
  <2> QED
    BY <2>4, <2>5, <2>6, <2>7, <2>9, <2>10, <2>11 DEF OpInv
<1> QED
  BY <1>2, <1>3, <1>4 DEF OperationsInv

\* The commands on their topics, sent again.
LEMMA CommandsRetained ==
  ASSUME OperationsTypeOK
  PROVE  LET r == SetToSeq({Command(c, topic[c]) : c \in {d \in Ops : topic[d] # Cleared}})
         IN  /\ r \in Seq(AnyIn)
             /\ \A o \in Ops : /\ ~Has(r, Request(o))
                               /\ \A S : Has(r, Commands(o, S)) => topic[o] # Cleared /\ topic[o] \in S
<1> DEFINE P == {d \in Ops : topic[d] # Cleared}
           R == {Command(c, topic[c]) : c \in P}
           f == [c \in P |-> Command(c, topic[c])]
           r == SetToSeq(R)
<1>1. IsFiniteSet(P)
  BY OperationAssumption, FS_Subset
<1>2. f \in Surjection(P, R)
  BY DEF Surjection
<1>3. IsFiniteSet(R)
  BY <1>1, <1>2, FS_Surjection
<1>4. R \subseteq AnyIn
  <2>1. ASSUME NEW c \in P
        PROVE  Command(c, topic[c]) \in InOf(c) /\ c \in Ops
    <3>1. c \in Ops /\ topic[c] \in Live \cup {Cleared}
      BY DEF OperationsTypeOK, Live
    <3> QED
      BY <3>1, CommandIn DEF InOf
  <2> QED
    BY <2>1 DEF AnyIn
<1> HIDE DEF R, f, r, P
<1>5. r \in Seq(R)
  BY <1>3, SetToSeqProperties DEF r
<1>6. r \in Seq(AnyIn)
  BY <1>4, <1>5, SeqMonotonic
<1>7. \A i \in DOMAIN r : r[i] \in R
  BY <1>5
<1>8. \A i \in DOMAIN r : \E c \in P : r[i] = Command(c, topic[c])
  BY <1>7 DEF R
<1>9. ASSUME NEW o \in Ops
      PROVE  ~Has(r, Request(o))
  <2> SUFFICES ASSUME NEW i \in DOMAIN r
               PROVE  r[i] \notin Request(o)
    BY DEF Has
  <2>1. PICK c \in P : r[i] = Command(c, topic[c])
    BY <1>8
  <2> QED
    BY <2>1, CommandIn
<1>10. ASSUME NEW o \in Ops, NEW S, Has(r, Commands(o, S))
       PROVE  topic[o] # Cleared /\ topic[o] \in S
  <2>1. PICK i \in DOMAIN r : r[i] \in Commands(o, S)
    BY <1>10 DEF Has
  <2>2. PICK c \in P : r[i] = Command(c, topic[c])
    BY <1>8
  <2>3. c = o /\ topic[c] \in S
    BY <2>1, <2>2, CommandIn
  <2> QED
    BY <2>2, <2>3 DEF P
<1> QED
  BY <1>6, <1>9, <1>10 DEF r, R, P

LEMMA RestartInv ==
  ASSUME OperationsInv, Restart
  PROVE  OperationsInv'
<1>0. /\ incoming \in Seq(AnyIn) /\ uplink \in Seq(AnyUp) /\ OperationsTypeOK /\ \A o \in Ops : OpInv(o)
  BY DEF OperationsInv, Queued
<1>1. PICK r \in Seq(AnyIn) :
        /\ incoming' = incoming \o r
        /\ \A o \in Ops : /\ ~Has(r, Request(o))
                          /\ \A S : Has(r, Commands(o, S)) => topic[o] # Cleared /\ topic[o] \in S
  <2> DEFINE w == SetToSeq({Command(c, topic[c]) : c \in {d \in Ops : topic[d] # Cleared}})
  <2>1. incoming' = incoming \o w
    BY DEF Restart
  <2>2. /\ w \in Seq(AnyIn)
        /\ \A o \in Ops : /\ ~Has(w, Request(o))
                          /\ \A S : Has(w, Commands(o, S)) => topic[o] # Cleared /\ topic[o] \in S
    BY <1>0, CommandsRetained
  <2> HIDE DEF w
  <2> QED
    BY <2>1, <2>2
<1>2. /\ out' = <<PendingRequest>> /\ up' = TRUE
      /\ UNCHANGED <<kind, cloud, uplink, topic, ran, stored, listed, shown, active, running, tasks, crashes>>
  BY DEF Restart, effectVars, mapperVars
<1>3. OperationsTypeOK'
  BY <1>0, <1>2 DEF OperationsTypeOK
<1>4. Queued'
  <2>1. PendingRequest \in AnyOut
    BY DEF AnyOut
  <2>2. out' \in Seq(AnyOut)
    BY <1>2, <2>1
  <2>3. incoming' \in Seq(AnyIn)
    BY <1>0, <1>1, ConcatProperties
  <2> QED
    BY <1>0, <1>2, <2>2, <2>3 DEF Queued
<1>5. ASSUME NEW o \in Ops
      PROVE  OpInv(o)'
  <2>1. OpInv(o)
    BY <1>0
  <2>2. /\ \A S : ~Has(out', Commands(o, S)) /\ ~Has(out', Statuses(o, S)) /\ ~Has(out', Showing(o, S))
        /\ ~Has(out', UpOf(o)) /\ ~Has(out', Going(o)) /\ ~Has(out', Over(o))
    <3>1. \A S : PendingRequest \notin Commands(o, S) /\ PendingRequest \notin Statuses(o, S) /\ PendingRequest \notin Showing(o, S)
      BY PendingIn
    <3>2. PendingRequest \notin UpOf(o) /\ PendingRequest \notin Going(o) /\ PendingRequest \notin Over(o)
      BY <3>1 DEF UpOf, Going, Over
    <3>3. \A A : Has(out', A) <=> PendingRequest \in A
      BY <1>2, OfOne
    <3> QED
      BY <3>1, <3>2, <3>3
  <2>3. \A S, B : NoneAfter(out', Commands(o, S), B) /\ Led(out', Commands(o, S), B)
    BY <2>2, OfNone
  <2>4. /\ \A A : Has(incoming', A) <=> Has(incoming, A) \/ Has(r, A)
        /\ \A A, B : NoneAfter(incoming', A, B) <=>
             NoneAfter(incoming, A, B) /\ NoneAfter(r, A, B) /\ (Has(incoming, A) => ~Has(r, B))
    BY <1>0, <1>1, HasConcat, NoneAfterConcat
  <2>5. ~Has(r, Request(o)) /\ \A S : Has(r, Commands(o, S)) => topic[o] # Cleared /\ topic[o] \in S
    BY <1>1
  <2>6. TopicTrue(o)' /\ (Begun(o)' <=> Begun(o)) /\ (Valid(o)' <=> Valid(o)) /\ (topic[o] # Cleared => Begun(o))
    BY <1>2, <2>1 DEF OpInv, TopicTrue, Begun, Valid
  <2>7. BegunFirst(o)'
    BY <1>2, <2>1, <2>2, <2>4, <2>5, <2>6 DEF OpInv, BegunFirst
  <2>8. RequestedOnce(o)'
    <3>1. cloud[o] = None => Blank(o)'
      BY <1>2, <2>1, <2>2, <2>6 DEF OpInv, RequestedOnce, Blank
    <3>2. Fresh(o) => Fresh(o)'
      BY <1>2, <2>2, <2>6 DEF Fresh, Blank
    <3>3. Has(incoming', Request(o)) <=> Has(incoming, Request(o))
      BY <2>4, <2>5
    <3>4. NoneAfter(incoming', Request(o), Request(o)) /\ NoneAfter(incoming', Commands(o, {Cleared}), Request(o))
      BY <2>1, <2>4, <2>5, OfNone DEF OpInv, RequestedOnce
    <3> QED
      BY <1>2, <2>1, <2>2, <2>3, <3>1, <3>2, <3>3, <3>4 DEF OpInv, RequestedOnce
  <2>9. SaidTruly(o)'
    <3>1. \A t \in Final : Says(o, t)' => Says(o, t)
      BY <1>2, <2>2 DEF Says
    <3>2. \A t \in Final : Has(incoming', Commands(o, {t})) \/ Has(tasks[o], {t}) => ran[o] = t
      <4> TAKE t \in Final
      <4>1. Has(r, Commands(o, {t})) => topic[o] = t
        BY <2>5
      <4> QED
        BY <2>1, <2>4, <4>1 DEF OpInv, SaidTruly, TopicTrue
    <3> QED
      BY <1>2, <2>1, <2>2, <3>1, <3>2, SomeSets DEF OpInv, SaidTruly
  <2>10. /\ (OverCloud(o)' <=> OverCloud(o)) /\ (OverUplink(o)' <=> OverUplink(o))
         /\ (OverOut(o)' => OverOut(o)) /\ (OverTasks(o)' => OverTasks(o))
         /\ (Reported(o)' <=> Reported(o)) /\ (Lists(o)' <=> Lists(o)) /\ (Applies(o)' <=> Applies(o))
    BY <1>2, <2>2 DEF OverCloud, OverUplink, OverOut, OverTasks, Reported, Lists, Applies
  <2>11. Has(r, Commands(o, {"executing"})) =>
           ~OverTasks(o) /\ ~Has(incoming, Commands(o, Final)) /\ ~Has(r, Commands(o, Final))
    <3> HAVE Has(r, Commands(o, {"executing"}))
    <3>1. topic[o] = "executing" /\ topic[o] # Cleared /\ "executing" \notin Final
      BY <2>5 DEF Final
    <3>2. ran[o] = None /\ kind[o] # "invalid"
      BY <2>1, <2>6, <3>1 DEF OpInv, TopicTrue, BegunFirst, Valid
    <3>3. ~OverTasks(o) /\ ~Has(incoming, Commands(o, Final))
      BY <2>1, <3>2, NotOver
    <3>4. ~Has(r, Commands(o, Final))
      BY <2>5, <3>1
    <3> QED
      BY <3>3, <3>4
  <2>12. InOrder(o)'
    <3>1. NoneAfter(incoming', Commands(o, Final), Commands(o, {"executing"}))
      BY <2>1, <2>4, <2>11, OfNone DEF OpInv, InOrder
    <3>2. OverTasks(o) => ~Has(incoming', Commands(o, {"executing"}))
      BY <2>1, <2>4, <2>11 DEF OpInv, InOrder
    <3>3. NoneAfter(out', Over(o), Going(o))
      BY <2>2, OfNone
    <3> QED
      BY <1>2, <2>1, <2>2, <2>10, <3>1, <3>2, <3>3 DEF OpInv, InOrder
  <2>13. EndedOnce(o)'
    <3>1. Has(incoming', Commands(o, Final)) => topic[o] \in Final \/ running[o] \in Final
      BY <2>1, <2>4, <2>5 DEF OpInv, EndedOnce
    <3>2. Has(incoming', Commands(o, {Cleared})) => topic[o] = Cleared
      BY <2>1, <2>4, <2>5 DEF OpInv, EndedOnce
    <3> QED
      BY <1>2, <2>1, <2>2, <2>3, <3>1, <3>2 DEF OpInv, EndedOnce
  <2>14. ClearedLast(o)'
    BY <1>2, <2>1, <2>3, <2>10 DEF OpInv, ClearedLast
  <2> QED
    BY <2>6, <2>7, <2>8, <2>9, <2>12, <2>13, <2>14 DEF OpInv
<1> QED
  BY <1>3, <1>4, <1>5 DEF OperationsInv

------------------------------------------------------------------------------
(* The invariant, and what follows from it.                                    *)

LEMMA StartInv == OperationsInit => OperationsInv
<1> SUFFICES ASSUME OperationsInit
             PROVE  OperationsInv
  OBVIOUS
<1>1. /\ incoming = <<>> /\ out = <<>> /\ uplink = <<>> /\ active = {} /\ stored = {} /\ listed = {}
      /\ \A o \in Ops : /\ cloud[o] = None /\ topic[o] = Cleared /\ ran[o] = None /\ shown[o] = None
                        /\ running[o] = None /\ tasks[o] = <<>>
  BY DEF OperationsInit
<1>2. OperationsTypeOK
  BY OperationAssumption DEF OperationsInit, OperationsTypeOK
<1>3. Queued
  BY <1>1 DEF Queued
<1>4. ASSUME NEW o \in Ops
      PROVE  OpInv(o)
  <2>1. \A A : ~Has(incoming, A) /\ ~Has(out, A) /\ ~Has(uplink, A) /\ ~Has(tasks[o], A)
    BY <1>1, OfEmpty
  <2>2. \A A, B : /\ NoneAfter(incoming, A, B) /\ NoneAfter(out, A, B) /\ NoneAfter(uplink, A, B)
                  /\ NoneAfter(tasks[o], A, B) /\ Led(out, A, B)
    BY <2>1, OfNone
  <2>3. Cleared \notin Final /\ Cleared # "init" /\ Cleared # "executing" /\ None \notin Final /\ None # "applied"
    BY OperationAssumption DEF Final, None
  <2>4. TopicTrue(o) /\ ~Begun(o)
    BY <1>1, <2>3 DEF TopicTrue, Begun
  <2>5. BegunFirst(o)
    BY <1>1, <2>1, <2>4 DEF BegunFirst
  <2>6. RequestedOnce(o)
    BY <2>1, <2>2, <2>4 DEF RequestedOnce, Blank
  <2>7. SaidTruly(o)
    BY <1>1, <2>1, <2>3, SomeSets DEF SaidTruly, Says
  <2>8. InOrder(o)
    BY <2>1, <2>2 DEF InOrder
  <2>9. EndedOnce(o)
    BY <2>1, <2>2 DEF EndedOnce
  <2>10. ClearedLast(o)
    BY <1>1, <2>2 DEF ClearedLast
  <2> QED
    BY <2>4, <2>5, <2>6, <2>7, <2>8, <2>9, <2>10 DEF OpInv
<1> QED
  BY <1>2, <1>3, <1>4 DEF OperationsInv

LEMMA StepInv ==
  ASSUME OperationsInv, ~Batched, ~Overlapping, [OperationsNext]_operationVars
  PROVE  OperationsInv'
<1>1. CASE UNCHANGED operationVars
  <2>1. UNCHANGED <<kind, cloud, uplink, topic, ran, stored, listed, shown, up, incoming, active, running, tasks, out, crashes>>
    BY <1>1 DEF operationVars, effectVars, mapperVars
  <2>2. OperationsTypeOK'
    BY <2>1 DEF OperationsInv, OperationsTypeOK
  <2>3. Queued'
    BY <2>1 DEF OperationsInv, Queued
  <2>4. ASSUME NEW o \in Ops
        PROVE  OpInv(o)'
    <3>1. Unmoved(o)
      BY <2>1, AlikeSame DEF Unmoved
    <3> QED
      BY <3>1, UnmovedInv DEF OperationsInv
  <2> QED
    BY <2>2, <2>3, <2>4 DEF OperationsInv
<1>2. CASE OperationsNext
  BY <1>2, CloudReceivesInv, OperationsHandled, CommandsHandled, PublishInv, RestartInv, AgentInv, TaskRunsInv,
     CrashInv, CreateInv DEF OperationsNext, OperationSteps
<1> QED
  BY <1>1, <1>2

LEMMA OperationsInvariance ==
  ASSUME ~Batched, ~Overlapping
  PROVE  OperationsSpec => []OperationsInv
<1>1. OperationsInv /\ [OperationsNext]_operationVars => OperationsInv'
  BY StepInv
<1> QED
  BY <1>1, StartInv, PTL DEF OperationsSpec

\* The cloud is told of a success only if the agent has succeeded and the file, if
\* any, has reached the cloud, of a failure only if something has failed, and is
\* shown as applied only what has been, whatever the operations, the crashes of the
\* mapper and the interleavings of its tasks.
THEOREM CloudIsToldTheOutcome ==
  ASSUME ~Batched, ~Overlapping
  PROVE  OperationsSpec => []CloudAgrees
<1>1. OperationsInv => CloudAgrees
  <2> SUFFICES ASSUME OperationsInv, NEW o \in Ops
               PROVE  /\ cloud[o] = "successful" => ran[o] = "successful" /\ (kind[o] \in Files => o \in stored)
                      /\ cloud[o] = "failed" => ran[o] = "failed" \/ kind[o] \in Files \cup {"custom", "invalid"}
                      /\ shown[o] = "applied" => ran[o] = "successful"
    BY DEF CloudAgrees
  <2>1. SaidTruly(o)
    BY DEF OperationsInv, OpInv
  <2> QED
    BY <2>1 DEF SaidTruly, Says
<1> QED
  BY <1>1, OperationsInvariance, PTL

\* A command is cleared only once its outcome is with the cloud or on its way there,
\* and so are the software list, the firmware and the configuration it has changed:
\* a crash between two messages of the mapper makes it forget nothing it owes.
THEOREM NothingOwedIsForgotten ==
  ASSUME ~Batched, ~Overlapping
  PROVE  OperationsSpec => []ReportedBeforeCleared
<1>1. OperationsInv => ReportedBeforeCleared
  <2> SUFFICES ASSUME OperationsInv, NEW o \in Ops, ran[o] # None, topic[o] = Cleared
               PROVE  /\ \/ cloud[o] \in Final
                         \/ \E i \in DOMAIN uplink : uplink[i].op = o /\ uplink[i].status \in Final
                      /\ kind[o] \in {"software_update", "device_profile"} => o \in listed
                      /\ kind[o] \in {"config_update", "firmware_update", "device_profile"}
                           /\ ran[o] = "successful" => shown[o] = "applied"
    BY DEF ReportedBeforeCleared
  <2>1. Reported(o) /\ (Lists(o) => o \in listed) /\ (Applies(o) => shown[o] = "applied")
    BY DEF OperationsInv, OpInv, ClearedLast
  <2>2. Has(uplink, Statuses(o, Final)) =>
          \E i \in DOMAIN uplink : uplink[i].op = o /\ uplink[i].status \in Final
    <3>1. \A s : Status(o, s).op = o /\ Status(o, s).status = s
      BY DEF Status
    <3> QED
      BY <3>1 DEF Has, Statuses
  <2> QED
    BY <2>1, <2>2 DEF Reported, Lists, Applies
<1> QED
  BY <1>1, OperationsInvariance, PTL

LEMMA CloudStep ==
  ASSUME OperationsInv, CloudReceives, NEW o \in Ops, cloud[o] \in Final
  PROVE  cloud'[o] = cloud[o] \/ (kind[o] \in Files \cup {"custom"} /\ cloud'[o] \in Final)
<1>0. uplink \in Seq(AnyUp) /\ OperationsTypeOK /\ OpInv(o)
  BY DEF OperationsInv, Queued
<1>1. uplink # <<>>
  BY DEF CloudReceives
<1>2. Head(uplink) \in AnyUp
  BY <1>0, <1>1
<1>3. CASE Head(uplink) = PendingRequest
  BY <1>3 DEF CloudReceives
<1>4. ASSUME NEW p \in Ops, Head(uplink) \in UpOf(p)
      PROVE  cloud'[o] = cloud[o] \/ (kind[o] \in Files \cup {"custom"} /\ cloud'[o] \in Final)
  <2>1. PICK s \in Told : Head(uplink) = Status(p, s)
    BY <1>4 DEF UpOf, Statuses
  <2>2. Head(uplink) # PendingRequest /\ Head(uplink).op = p /\ Head(uplink).status = s
    BY <2>1, StatusIn DEF Status
  <2>3. cloud' = [cloud EXCEPT ![p] = s]
    BY <2>2 DEF CloudReceives
  <2>4. CASE p # o
    BY <1>0, <2>3, <2>4 DEF OperationsTypeOK
  <2>5. CASE p = o
    <3>1. cloud'[o] = s
      BY <1>0, <2>3, <2>5 DEF OperationsTypeOK
    <3>2. \A S : s \in S => Has(uplink, Statuses(o, S))
      <4> SUFFICES ASSUME NEW S, s \in S
                   PROVE  Has(uplink, Statuses(o, S))
        OBVIOUS
      <4>1. Head(uplink) \in Statuses(o, S)
        BY <2>1, <2>5, StatusIn
      <4> QED
        BY <1>0, <1>1, <4>1, HasTail
    <3>3. s \in Final
      <4>1. s # "executing"
        BY <1>0, <3>2 DEF OpInv, InOrder, OverCloud
      <4> QED
        BY <4>1 DEF Told
    <3>4. Says(o, s) /\ Says(o, cloud[o])
      BY <3>2 DEF Says
    <3>5. kind[o] = "invalid" => ran[o] # "successful"
      BY <1>0 DEF OpInv, BegunFirst, Begun, Valid, None
    <3> QED
      BY <1>0, <3>1, <3>3, <3>4, <3>5 DEF OpInv, SaidTruly, Final
  <2> QED
    BY <2>4, <2>5
<1> QED
  BY <1>2, <1>3, <1>4 DEF AnyUp

LEMMA ShownStep ==
  ASSUME OperationsInv, Publish, NEW o \in Ops, shown[o] = "applied"
  PROVE  shown'[o] = "applied"
<1>0. /\ out \in Seq(AnyOut) /\ OperationsTypeOK /\ Queued /\ OpInv(o) /\ out # <<>>
  BY DEF OperationsInv, Queued, Publish
<1>1. ASSUME NEW p \in Ops, NEW x \in {"target", "applied"}, Head(out) = Shows(p, x), shown' = [shown EXCEPT ![p] = x]
      PROVE  shown'[o] = "applied"
  <2>1. CASE p # o
    BY <1>0, <1>1, <2>1 DEF OperationsTypeOK
  <2>2. CASE p = o /\ x = "target"
    <3>1. Head(out) \in Going(o)
      BY <1>1, <2>2, ShowsIn DEF Going
    <3>2. Has(out, Going(o))
      BY <1>0, <3>1, HasTail
    <3> QED
      BY <1>0, <3>2 DEF OpInv, InOrder, OverUplink
  <2>3. CASE p = o /\ x = "applied"
    BY <1>0, <1>1, <2>3 DEF OperationsTypeOK
  <2> QED
    BY <2>1, <2>2, <2>3
<1> QED
  BY <1>0, <1>1, PublishCases

\* The cloud is never told that an operation is executing once it has been told of
\* its outcome, nor of another outcome, the ones retried by a new task after a crash
\* excepted; nor is what has been applied shown as a target again.
THEOREM OutcomesAreKept ==
  ASSUME ~Batched, ~Overlapping
  PROVE  OperationsSpec => NotReversed
<1> DEFINE Kept == \A o \in Ops :
             /\ cloud[o] \in Final =>
                  \/ cloud'[o] = cloud[o]
                  \/ kind[o] \in Files \cup {"custom"} /\ cloud'[o] \in Final
             /\ shown[o] = "applied" => shown'[o] = "applied"
<1>1. OperationsInv /\ [OperationsNext]_operationVars => [Kept]_operationVars
  <2> SUFFICES ASSUME OperationsInv, OperationsNext, NEW o \in Ops
               PROVE  /\ cloud[o] \in Final =>
                           \/ cloud'[o] = cloud[o]
                           \/ kind[o] \in Files \cup {"custom"} /\ cloud'[o] \in Final
                      /\ shown[o] = "applied" => shown'[o] = "applied"
    OBVIOUS
  <2>1. OperationsTypeOK
    BY DEF OperationsInv
  <2>2. CASE CloudReceives
    <3>1. shown' = shown
      BY <2>2 DEF CloudReceives, effectVars
    <3> QED
      BY <2>2, <3>1, CloudStep
  <2>3. CASE Publish
    <3>1. cloud' = cloud
      BY <2>3 DEF Publish
    <3> QED
      BY <2>3, <3>1, ShownStep
  <2>4. CASE \E p \in Ops : CreateOperation(p)
    <3>1. PICK p \in Ops : CreateOperation(p)
      BY <2>4
    <3>2. cloud[p] = None /\ cloud' = [cloud EXCEPT ![p] = "pending"] /\ shown' = shown
      BY <3>1 DEF CreateOperation, effectVars
    <3> QED
      BY <2>1, <3>2 DEF OperationsTypeOK, None, Final
  <2>5. CASE HandleOperations \/ HandleCommand \/ Restart \/ Crash \/ \E c \in Ops : AgentStep(c) \/ TaskRuns(c)
    <3>1. cloud' = cloud /\ shown' = shown
      BY <2>5 DEF HandleOperations, HandleCommand, Restart, Crash, AgentStep, TaskRuns, effectVars
    <3> QED
      BY <3>1
  <2> QED
    BY <2>2, <2>3, <2>4, <2>5 DEF OperationsNext, OperationSteps
<1> QED
  BY <1>1, OperationsInvariance, PTL DEF OperationsSpec, NotReversed

\* What may happen on the topic of a command.
LEMMA TopicStep ==
  ASSUME OperationsInv, [OperationsNext]_operationVars
  PROVE  \/ UNCHANGED topic
         \/ \E o \in Ops, s \in {Cleared, "init"} \cup Told :
              /\ topic' = [topic EXCEPT ![o] = s]
              /\ \/ topic[o] = Cleared /\ s = "init"
                 \/ topic[o] = "init" /\ s = "executing"
                 \/ topic[o] = "executing" /\ s \in Final
                 \/ topic[o] \in Final /\ s = Cleared
<1>0. OperationsTypeOK /\ Queued /\ \A o \in Ops : OpInv(o)
  BY DEF OperationsInv
<1>1. CASE \E c \in Ops : AgentStep(c)
  BY <1>1 DEF AgentStep, Told
<1>2. CASE Publish
  <2>1. ASSUME NEW o \in Ops, NEW s \in {"init", Cleared}, Head(out) = Command(o, s),
               topic' = [topic EXCEPT ![o] = s], incoming' = Append(incoming, Command(o, s)),
               UNCHANGED <<uplink, listed, shown>>
        PROVE  \/ topic[o] = Cleared /\ s = "init"
               \/ topic[o] \in Final /\ s = Cleared
    <3>1. /\ out # <<>> /\ out' = Tail(out) /\ topic'[o] = s /\ OpInv(o)
          /\ UNCHANGED <<kind, cloud, uplink, ran, stored, effectVars, mapperVars>>
      BY <1>0, <1>2, <2>1 DEF Publish, OperationsTypeOK, effectVars
    <3>2. CASE s = "init"
      BY <1>0, <2>1, <3>1, <3>2, InitPublished
    <3>3. CASE s = Cleared
      BY <1>0, <2>1, <3>1, <3>3, ClearPublished
    <3> QED
      BY <3>2, <3>3
  <2> QED
    BY <1>0, <1>2, <2>1, PublishCases
<1>3. CASE UNCHANGED operationVars
  BY <1>3 DEF operationVars
<1>4. CASE \/ CloudReceives \/ HandleOperations \/ HandleCommand \/ Restart \/ Crash
           \/ \E c \in Ops : TaskRuns(c) \/ CreateOperation(c)
  BY <1>4 DEF CloudReceives, HandleOperations, HandleCommand, Restart, Crash, TaskRuns, CreateOperation
<1> QED
  BY <1>1, <1>2, <1>3, <1>4 DEF OperationsNext, OperationSteps

\* The mapper keeps to the life cycle of commands: with whatever the agent does, it
\* creates a command only on a free topic, and clears it only once it has an outcome.
THEOREM MapperKeepsToTheLifecycle ==
  ASSUME ~Batched, ~Overlapping
  PROVE  OperationsSpec => RequesterBehaves
<1> DEFINE Of(t) == [status |-> IF t = Cleared THEN "none" ELSE t,
                     version |-> IF t \in {Cleared, "init"} THEN None ELSE "any"]
           Seen == [c \in Ops |->
                      [status |-> IF topic[c] = Cleared THEN "none" ELSE topic[c],
                       version |-> IF topic[c] \in {Cleared, "init"} THEN None ELSE "any"]]
<1>1. OperationsInit => Requester!Init
  BY DEF OperationsInit, Requester!Init, Requester!Nothing
<1>2. OperationsInv /\ [OperationsNext]_operationVars => [Requester!Next]_Seen
  <2> SUFFICES ASSUME OperationsInv, [OperationsNext]_operationVars
               PROVE  Requester!Next \/ Seen' = Seen
    OBVIOUS
  <2>1. CASE UNCHANGED topic
    BY <2>1
  <2>2. ASSUME NEW o \in Ops, NEW s \in {Cleared, "init"} \cup Told, topic' = [topic EXCEPT ![o] = s],
               \/ topic[o] = Cleared /\ s = "init"
               \/ topic[o] = "init" /\ s = "executing"
               \/ topic[o] = "executing" /\ s \in Final
               \/ topic[o] \in Final /\ s = Cleared
        PROVE  Requester!Next
    <3>1. topic \in [Ops -> {Cleared, "init", "executing"} \cup Final]
      BY DEF OperationsInv, OperationsTypeOK
    <3>2. Seen[o] = Of(topic[o]) /\ Seen' = [Seen EXCEPT ![o] = Of(s)]
      BY <2>2, <3>1
    <3>3. /\ Of(Cleared) = Requester!Nothing /\ Of("init") = [status |-> "init", version |-> None]
          /\ Of("executing") = [status |-> "executing", version |-> "any"]
          /\ \A t \in Final : Of(t) = [status |-> t, version |-> "any"]
      BY OperationAssumption DEF Requester!Nothing, Final
    <3> HIDE DEF Of
    <3>4. CASE topic[o] = Cleared /\ s = "init"
      <4>1. Seen[o] = Requester!Nothing /\ Seen' = [Seen EXCEPT ![o] = [status |-> "init", version |-> None]]
        BY <3>2, <3>3, <3>4
      <4> QED
        BY <4>1 DEF Requester!Next, Requester!Create, Requester!Becomes
    <3>5. CASE topic[o] = "init" /\ s = "executing"
      <4>1. Seen[o].status = "init" /\ Seen' = [Seen EXCEPT ![o] = [status |-> "executing", version |-> "any"]]
        <5>1. Seen[o] = [status |-> "init", version |-> None]
          BY <3>2, <3>3, <3>5, Zenon
        <5>2. Seen' = [Seen EXCEPT ![o] = [status |-> "executing", version |-> "any"]]
          BY <3>2, <3>3, <3>5, Zenon
        <5>3. [status |-> "init", version |-> None].status = "init"
          OBVIOUS
        <5> QED
          BY <5>1, <5>2, <5>3, Zenon
      <4> QED
        BY <4>1 DEF Requester!Next, Requester!Take, Requester!Becomes
    <3>6. CASE topic[o] = "executing" /\ s \in Final
      <4>1. /\ Seen[o].status = "executing" /\ Seen[o].version = "any"
            /\ Seen' = [Seen EXCEPT ![o] = [status |-> s, version |-> "any"]]
        <5>1. Seen[o] = [status |-> "executing", version |-> "any"]
          BY <3>2, <3>3, <3>6, Zenon
        <5>2. Seen' = [Seen EXCEPT ![o] = [status |-> s, version |-> "any"]]
          BY <3>2, <3>3, <3>6, Zenon
        <5>3. /\ [status |-> "executing", version |-> "any"].status = "executing"
              /\ [status |-> "executing", version |-> "any"].version = "any"
          OBVIOUS
        <5> QED
          BY <5>1, <5>2, <5>3, Zenon
      <4> QED
        BY <3>6, <4>1 DEF Requester!Next, Requester!Finish, Requester!Becomes, Requester!Outcomes, Final
    <3>7. CASE topic[o] \in Final /\ s = Cleared
      <4>1. Seen[o].status \in Final /\ Seen' = [Seen EXCEPT ![o] = Requester!Nothing]
        BY <3>2, <3>3, <3>7
      <4> QED
        BY <4>1 DEF Requester!Next, Requester!Clear, Requester!Becomes, Requester!Outcomes, Final
    <3> QED
      BY <2>2, <3>4, <3>5, <3>6, <3>7
  <2> QED
    BY <2>1, <2>2, TopicStep
<1> QED
  BY <1>1, <1>2, OperationsInvariance, PTL DEF OperationsSpec, RequesterBehaves, Requester!Spec

==============================================================================
