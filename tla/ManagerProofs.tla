---------------------------- MODULE ManagerProofs ----------------------------
(* Theorems on the managers of the updates of a device: the firmware manager,  *)
(* then the restart manager behind the workflow engine.                        *)
EXTENDS FirmwareManager, WorkflowEngine, SelectionTheorems

(* The firmware manager.                                                       *)

Statuses == {"executing"} \cup Final
AnyStatus == {"pending"} \cup Statuses
Children == {Child[r] : r \in Requests}
Steps == {None, "downloading", "recorded", "waiting", "reported", "over"}
Workers == [step : Steps, request : Requests \cup {None}, status : Statuses \cup {None},
            responses : Seq(Statuses)]

InMsgs == [request : Requests] \cup [id : Ids, status : Statuses] \cup [ended : Ids, ok : BOOLEAN]
OutMsgs == [ask : Ids] \cup [firmware : Requests] \cup [child : Children, status : Statuses]

Shaped ==
  /\ cloud \in Seq([request : Requests, status : AnyStatus])
  /\ inbox \in Seq(InMsgs) /\ out \in Seq(OutMsgs)
  /\ device \in [Ids -> {"idle", "asked", "executing"}]
  /\ worker \in [Ids -> Workers]
  /\ files \in [Ids -> Requests \cup {None}]
  /\ installed \subseteq Requests /\ reported \subseteq Requests
  /\ active \subseteq Ids /\ executing \in BOOLEAN /\ drawn \in 0 .. MaxIds
  /\ redeliveries \in Nat /\ crashes \in Nat

\* An identifier which is not drawn is unknown.
Undrawn(i) == i > drawn => worker[i] = NoWorker /\ files[i] = None /\ device[i] = "idle"

\* A firmware is recorded as it is asked, until its worker is over.
Recorded(i) ==
  /\ i <= drawn => worker[i].request \in Requests
  /\ worker[i].step \notin {None, "over"} => i \in active
  /\ worker[i].step \in {"recorded", "waiting", "reported"} => files[i] = worker[i].request

\* A worker is told of a success by a child device that has installed the firmware.
Heard(i) ==
  \A k \in DOMAIN worker[i].responses :
    worker[i].responses[k] = "successful" => worker[i].request \in installed

Asked(i) == Undrawn(i) /\ Recorded(i) /\ Heard(i)

\* What the actor receives: a success of a child device that has installed the firmware,
\* the outcome of a worker that is over, and has removed its file if it has reported.
Received(m) ==
  \A i \in Ids :
    /\ \A s \in Statuses : m = Response(i, s) =>
         i <= drawn /\ (s = "successful" => worker[i].request \in installed)
    /\ \A ok \in BOOLEAN : m = Outcome(i, ok) =>
         worker[i].step = "over" /\ (ok => files[i] = None)

\* What is published.
Published(m) ==
  /\ \A i \in Ids : m = Ask(i) => i <= drawn
  /\ \A r \in Requests : m = Installed(r) => r \in installed

AllAsked == \A i \in Ids : Asked(i)
AllReceived == \A m \in InMsgs : Contains(inbox, m) => Received(m)
AllPublished == \A m \in OutMsgs : Contains(out, m) => Published(m)

BaseInv ==
  /\ Shaped /\ AllAsked /\ AllReceived /\ AllPublished
  /\ reported \subseteq installed
  /\ NoFileLeft

------------------------------------------------------------------------------
(* Messages. *)

LEMMA InKinds ==
  ASSUME NEW m \in InMsgs
  PROVE  /\ "request" \in DOMAIN m => m.request \in Requests /\ m = Operation(m.request)
         /\ "status" \in DOMAIN m => m.id \in Ids /\ m.status \in Statuses /\ m = Response(m.id, m.status)
         /\ "ended" \in DOMAIN m => m.ended \in Ids /\ m.ok \in BOOLEAN /\ m = Outcome(m.ended, m.ok)
BY DEF InMsgs, Operation, Response, Outcome

LEMMA InDistinct ==
  /\ \A r \in Requests : Operation(r) \in InMsgs /\ Received(Operation(r))
  /\ \A i \in Ids, s \in Statuses : Response(i, s) \in InMsgs
  /\ \A i \in Ids, ok \in BOOLEAN : Outcome(i, ok) \in InMsgs
  /\ \A i, j, s, t : Response(i, s) = Response(j, t) => i = j /\ s = t
  /\ \A i, j, s, t : Outcome(i, s) = Outcome(j, t) => i = j /\ s = t
  /\ \A i, j, s, t : Response(i, s) # Outcome(j, t)
BY DEF InMsgs, Operation, Response, Outcome, Received

LEMMA OutKinds ==
  ASSUME NEW m \in OutMsgs
  PROVE  /\ "ask" \in DOMAIN m => m.ask \in Ids /\ m = Ask(m.ask)
         /\ "firmware" \in DOMAIN m => m.firmware \in Requests /\ m = Installed(m.firmware)
         /\ "ask" \notin DOMAIN m /\ "firmware" \notin DOMAIN m =>
              m.child \in Children /\ m.status \in Statuses /\ m = Status(m.child, m.status)
BY DEF OutMsgs, Ask, Installed, Status

LEMMA OutDistinct ==
  /\ \A i \in Ids : Ask(i) \in OutMsgs
  /\ \A r \in Requests : Installed(r) \in OutMsgs
  /\ \A c \in Children, s \in Statuses : Status(c, s) \in OutMsgs /\ Published(Status(c, s))
  /\ \A i, j : Ask(i) = Ask(j) => i = j
  /\ \A i, j : Installed(i) = Installed(j) => i = j
  /\ \A i, j, s, t : Status(i, s) = Status(j, t) => i = j /\ s = t
  /\ \A i, j : Ask(i) # Installed(j)
  /\ \A i, j, s : Status(i, s) # Installed(j) /\ Status(i, s) # Ask(j)
BY DEF OutMsgs, Ask, Installed, Status, Published

------------------------------------------------------------------------------
(* Queues. *)

LEMMA Longer ==
  ASSUME NEW S, NEW q \in Seq(S), NEW r \in Seq(S)
  PROVE  /\ q \o r \in Seq(S) /\ Len(q \o r) = Len(q) + Len(r)
         /\ \A x : Contains(q \o r, x) <=> Contains(q, x) \/ Contains(r, x)
<1>1. /\ q \o r \in Seq(S) /\ Len(q \o r) = Len(q) + Len(r) /\ Len(q) \in Nat /\ Len(r) \in Nat
      /\ \A k \in 1 .. Len(q) : (q \o r)[k] = q[k]
      /\ \A k \in 1 .. Len(r) : (q \o r)[Len(q) + k] = r[k]
  OBVIOUS
<1>2. \A k \in 1 .. Len(q \o r) : k \in 1 .. Len(q) \/ \E j \in 1 .. Len(r) : k = Len(q) + j
  <2>1. ASSUME NEW k \in 1 .. Len(q \o r), k \notin 1 .. Len(q) PROVE k - Len(q) \in 1 .. Len(r) /\ k = Len(q) + (k - Len(q))
    BY <1>1, <2>1
  <2> QED
    BY <2>1
<1>3. (\A k \in 1 .. Len(q) : k \in 1 .. Len(q \o r)) /\ (\A k \in 1 .. Len(r) : Len(q) + k \in 1 .. Len(q \o r))
  BY <1>1
<1>4. ASSUME NEW x, Contains(q \o r, x) PROVE Contains(q, x) \/ Contains(r, x)
  <2>1. PICK k \in 1 .. Len(q \o r) : (q \o r)[k] = x
    BY <1>4 DEF Contains
  <2> QED
    BY <1>1, <1>2, <2>1 DEF Contains
<1>5. ASSUME NEW x, Contains(q, x) \/ Contains(r, x) PROVE Contains(q \o r, x)
  BY <1>1, <1>3, <1>5 DEF Contains
<1> QED
  BY <1>1, <1>4, <1>5

LEMMA Appended ==
  ASSUME NEW S, NEW q \in Seq(S), NEW x \in S
  PROVE  /\ Append(q, x) \in Seq(S) /\ Len(Append(q, x)) = Len(q) + 1
         /\ \A y : Contains(Append(q, x), y) <=> Contains(q, y) \/ y = x
<1>1. Append(q, x) = q \o <<x>> /\ <<x>> \in Seq(S) /\ Len(<<x>>) = 1 /\ <<x>>[1] = x
  OBVIOUS
<1>2. \A y : Contains(<<x>>, y) <=> y = x
  BY <1>1 DEF Contains
<1>3. /\ q \o <<x>> \in Seq(S) /\ Len(q \o <<x>>) = Len(q) + Len(<<x>>)
      /\ \A y : Contains(q \o <<x>>, y) <=> Contains(q, y) \/ Contains(<<x>>, y)
  BY <1>1, Longer
<1>4. Append(q, x) \in Seq(S) /\ Len(Append(q, x)) = Len(q) + 1
  OBVIOUS
<1> QED
  BY <1>1, <1>2, <1>3, <1>4, Zenon

LEMMA PairConcat ==
  ASSUME NEW S, NEW a \in S, NEW b \in S
  PROVE  <<a>> \o <<b>> = <<a, b>>
<1>1. <<a>> \o <<b>> \in Seq(S) /\ <<a, b>> \in Seq(S)
  OBVIOUS
<1>2. /\ Len(<<a>> \o <<b>>) = 2 /\ Len(<<a, b>>) = 2
      /\ \A i \in 1 .. 2 : (<<a>> \o <<b>>)[i] = <<a, b>>[i]
  <2>1. (<<a>> \o <<b>>)[1] = a /\ (<<a>> \o <<b>>)[2] = b
    OBVIOUS
  <2> QED
    BY <2>1
<1> QED
  BY <1>1, <1>2, SeqEqual

LEMMA Shorter ==
  ASSUME NEW S, NEW q \in Seq(S), q # <<>>
  PROVE  /\ Head(q) \in S /\ Tail(q) \in Seq(S) /\ Contains(q, Head(q))
         /\ \A x : Contains(Tail(q), x) => Contains(q, x)
<1>1. /\ Head(q) \in S /\ Tail(q) \in Seq(S) /\ Head(q) = q[1] /\ 1 \in 1 .. Len(q)
      /\ \A k \in 1 .. Len(Tail(q)) : k + 1 \in 1 .. Len(q) /\ Tail(q)[k] = q[k + 1]
  OBVIOUS
<1> QED
  BY <1>1 DEF Contains

LEMMA Numbers ==
  ASSUME Shaped
  PROVE  drawn \in Nat /\ \A i \in Ids : i \in Nat /\ (i > drawn <=> ~(i <= drawn))
BY FirmwareAssumption DEF Shaped, Ids

\* What has a file or a worker has been drawn.
LEMMA Drawn ==
  ASSUME BaseInv, NEW i \in Ids, files[i] \in Requests \/ worker[i].step # None
  PROVE  i <= drawn /\ worker[i].request \in Requests
<1>1. i <= drawn
  BY Numbers, FirmwareAssumption DEF BaseInv, AllAsked, Asked, Undrawn, NoWorker, WorkerAt
<1> QED
  BY <1>1 DEF BaseInv, AllAsked, Asked, Recorded

LEMMA InitBase ==
  ASSUME Init PROVE BaseInv
<1>1. NoWorker \in Workers
  BY DEF NoWorker, WorkerAt, Workers, Steps
<1>2. Shaped
  <2>1. \A S : <<>> \in Seq(S)
    OBVIOUS
  <2>2. 0 \in 0 .. MaxIds /\ 0 \in Nat
    BY FirmwareAssumption
  <2> QED
    BY <1>1, <2>1, <2>2 DEF Init, Shaped
<1>3. \A i \in Ids : Asked(i)
  BY FirmwareAssumption DEF Init, Asked, Undrawn, Recorded, Heard, Ids, None, NoWorker, WorkerAt
<1>4. AllReceived /\ AllPublished
  BY DEF AllReceived, AllPublished, Contains, Init
<1> QED
  BY <1>2, <1>3, <1>4 DEF BaseInv, AllAsked, Init, NoFileLeft

------------------------------------------------------------------------------
(* What stays true as the state changes. *)

LEMMA ReceivedStays ==
  ASSUME Shaped, Shaped', drawn <= drawn', installed \subseteq installed',
         \A i \in Ids : i <= drawn => worker'[i].request = worker[i].request,
         \A i \in Ids : worker[i].step = "over" =>
           worker'[i].step = "over" /\ (files[i] = None => files'[i] = None)
  PROVE  \A m : Received(m) => Received(m)'
<1>1. \A i \in Ids : i \in Nat /\ drawn \in Nat /\ drawn' \in Nat
  BY FirmwareAssumption DEF Shaped, Ids
<1>2. SUFFICES ASSUME NEW m, Received(m) PROVE Received(m)'
  OBVIOUS
<1>3. ASSUME NEW i \in Ids, NEW s \in Statuses, m = Response(i, s)
      PROVE  i <= drawn' /\ (s = "successful" => worker'[i].request \in installed')
  BY <1>1, <1>2, <1>3 DEF Received
<1>4. ASSUME NEW i \in Ids, NEW ok \in BOOLEAN, m = Outcome(i, ok)
      PROVE  worker'[i].step = "over" /\ (ok => files'[i] = None)
  BY <1>2, <1>4 DEF Received
<1>5. \A i, s : (m = Response(i, s))' <=> m = Response(i, s)
  BY DEF Response
<1>6. \A i, s : (m = Outcome(i, s))' <=> m = Outcome(i, s)
  BY DEF Outcome
<1> QED
  BY <1>3, <1>4, <1>5, <1>6 DEF Received

LEMMA PublishedStays ==
  ASSUME Shaped, Shaped', drawn <= drawn', installed \subseteq installed'
  PROVE  \A m : Published(m) => Published(m)'
<1>1. \A i \in Ids : i \in Nat /\ drawn \in Nat /\ drawn' \in Nat
  BY FirmwareAssumption DEF Shaped, Ids
<1>2. \A m : Published(m) => Published(m)'
  BY <1>1 DEF Published, Ask, Installed
<1> QED
  BY <1>2

\* What a queue may become.
LEMMA InboxGrows ==
  ASSUME NEW q \in Seq(InMsgs), inbox \in Seq(InMsgs), inbox' = inbox \o q,
         AllReceived, \A m : Received(m) => Received(m)',
         \A m \in InMsgs : Contains(q, m) => Received(m)'
  PROVE  inbox' \in Seq(InMsgs) /\ AllReceived'
<1>1. inbox' \in Seq(InMsgs) /\ \A m : Contains(inbox', m) <=> Contains(inbox, m) \/ Contains(q, m)
  BY Longer
<1>2. ASSUME NEW m \in InMsgs, Contains(inbox', m) PROVE Received(m)'
  BY <1>1, <1>2 DEF AllReceived
<1> QED
  BY <1>1, <1>2 DEF AllReceived

LEMMA InboxAppends ==
  ASSUME NEW x \in InMsgs, inbox \in Seq(InMsgs), inbox' = Append(inbox, x),
         AllReceived, \A m : Received(m) => Received(m)', Received(x)'
  PROVE  inbox' \in Seq(InMsgs) /\ AllReceived'
<1>1. inbox' \in Seq(InMsgs) /\ \A m : Contains(inbox', m) <=> Contains(inbox, m) \/ m = x
  BY Appended
<1>2. ASSUME NEW m \in InMsgs, Contains(inbox', m) PROVE Received(m)'
  BY <1>1, <1>2 DEF AllReceived
<1> QED
  BY <1>1, <1>2 DEF AllReceived

LEMMA InboxShrinks ==
  ASSUME inbox \in Seq(InMsgs), inbox # <<>>, inbox' = Tail(inbox),
         AllReceived, \A m : Received(m) => Received(m)'
  PROVE  inbox' \in Seq(InMsgs) /\ AllReceived'
<1>1. inbox' \in Seq(InMsgs) /\ \A m : Contains(inbox', m) => Contains(inbox, m)
  BY Shorter
<1>2. ASSUME NEW m \in InMsgs, Contains(inbox', m) PROVE Received(m)'
  BY <1>1, <1>2 DEF AllReceived
<1> QED
  BY <1>1, <1>2 DEF AllReceived

LEMMA OutGrows ==
  ASSUME NEW q \in Seq(OutMsgs), out \in Seq(OutMsgs), out' = out \o q,
         AllPublished, \A m : Published(m) => Published(m)',
         \A m \in OutMsgs : Contains(q, m) => Published(m)'
  PROVE  out' \in Seq(OutMsgs) /\ AllPublished'
<1>1. out' \in Seq(OutMsgs) /\ \A m : Contains(out', m) <=> Contains(out, m) \/ Contains(q, m)
  BY Longer
<1>2. ASSUME NEW m \in OutMsgs, Contains(out', m) PROVE Published(m)'
  BY <1>1, <1>2 DEF AllPublished
<1> QED
  BY <1>1, <1>2 DEF AllPublished

\* A worker that changes leaves the others as they are.
LEMMA OthersStay ==
  ASSUME NEW i \in Ids, AllAsked,
         drawn' = drawn, installed' = installed, active \ {i} \subseteq active',
         \A j \in Ids \ {i} : worker'[j] = worker[j] /\ files'[j] = files[j] /\ device'[j] = device[j],
         Asked(i)'
  PROVE  AllAsked'
<1>1. ASSUME NEW j \in Ids, j # i PROVE Asked(j)'
  BY <1>1 DEF AllAsked, Asked, Undrawn, Recorded, Heard, NoWorker, None
<1> QED
  BY <1>1 DEF AllAsked

------------------------------------------------------------------------------
(* The cloud and the child devices. *)

LEMMA CreateBase ==
  ASSUME BaseInv, NEW r \in Requests, CreateOperation(r)
  PROVE  BaseInv'
<1>1. /\ cloud' = Append(cloud, [request |-> r, status |-> "pending"])
      /\ inbox' = Append(inbox, Operation(r))
      /\ UNCHANGED <<device, installed, reported, out, active, executing, drawn, worker, files,
                     redeliveries, crashes>>
  BY DEF CreateOperation, actorVars
<1>2. Shaped'
  <2>1. [request |-> r, status |-> "pending"] \in [request : Requests, status : AnyStatus]
    BY DEF AnyStatus
  <2>2. cloud' \in Seq([request : Requests, status : AnyStatus]) /\ inbox' \in Seq(InMsgs)
    BY <1>1, <2>1, Appended, InDistinct DEF BaseInv, Shaped
  <2> QED
    BY <1>1, <2>2 DEF BaseInv, Shaped
<1>3. (\A m : Received(m) => Received(m)') /\ (\A m : Published(m) => Published(m)')
  <2>1. drawn <= drawn'
    BY <1>1 DEF BaseInv, Shaped
  <2> QED
    BY <1>1, <1>2, <2>1, ReceivedStays, PublishedStays DEF BaseInv
<1>4. AllReceived'
  BY <1>1, <1>3, InboxAppends, InDistinct DEF BaseInv, Shaped
<1>5. AllAsked' /\ AllPublished' /\ reported' \subseteq installed' /\ NoFileLeft'
  BY <1>1, <1>3 DEF BaseInv, NoFileLeft, AllAsked, AllPublished, Asked, Undrawn, Recorded, Heard, NoWorker, None
<1> QED
  BY <1>2, <1>4, <1>5 DEF BaseInv

\* What the cloud sends again are operations.
LEMMA ResentOperations ==
  ASSUME Shaped
  PROVE  /\ Resent \in Seq(InMsgs)
         /\ \A m : Contains(Resent, m) => \E j \in DOMAIN cloud :
              cloud[j].request \in Requests /\ m = Operation(cloud[j].request)
<1> DEFINE S == [request : Requests, status : AnyStatus]
           I == {k \in DOMAIN cloud : cloud[k].status = "pending"}
           n == Cardinality(I)
<1>1. cloud \in Seq(S) /\ I \in SUBSET DOMAIN cloud
  BY DEF Shaped
<1>2. /\ DOMAIN Pending = 1 .. n /\ n \in Nat
      /\ \A k \in 1 .. n : \E j \in DOMAIN cloud : Pending[k] = cloud[j]
  <2>1. Pending = Selected(cloud, I)
    BY DEF Pending
  <2> HIDE DEF I, S
  <2> QED
    BY <1>1, <2>1, SelectedProperties
<1> HIDE DEF I, n
<1>3. DOMAIN Resent = 1 .. n /\ \A k \in 1 .. n : Resent[k] = Operation(Pending[k].request)
  BY <1>2 DEF Resent
<1>4. \A j \in DOMAIN cloud : cloud[j].request \in Requests
  <2>1. \A j \in DOMAIN cloud : cloud[j] \in S
    BY <1>1, ElementOfSeq, LenProperties
  <2> QED
    BY <2>1
<1>5. \A k \in DOMAIN Resent : \E j \in DOMAIN cloud :
              cloud[j].request \in Requests /\ Resent[k] = Operation(cloud[j].request)
  BY <1>2, <1>3, <1>4
<1>6. \A k \in 1 .. n : Resent[k] \in InMsgs
  BY <1>3, <1>5, InDistinct
<1>7. Resent = [k \in 1 .. n |-> Resent[k]]
  BY <1>2, <1>3 DEF Resent
<1>8. Resent \in [1 .. n -> InMsgs]
  BY <1>6, <1>7
<1>9. Resent \in Seq(InMsgs) /\ Len(Resent) = n
  BY <1>2, <1>3, <1>8, SeqDef, LenProperties
<1> QED
  BY <1>3, <1>5, <1>9 DEF Contains

LEMMA RedeliverBase ==
  ASSUME BaseInv, Redeliver
  PROVE  BaseInv'
<1>1. /\ inbox' = inbox \o Resent /\ redeliveries' = redeliveries + 1
      /\ UNCHANGED <<cloud, device, installed, reported, out, active, executing, drawn, worker,
                     files, crashes>>
  BY DEF Redeliver, actorVars
<1>2. Shaped'
  <2>1. inbox' \in Seq(InMsgs)
    BY <1>1, Longer, ResentOperations DEF BaseInv, Shaped
  <2> QED
    BY <1>1, <2>1 DEF BaseInv, Shaped
<1>3. (\A m : Received(m) => Received(m)') /\ (\A m : Published(m) => Published(m)')
  <2>1. drawn <= drawn'
    BY <1>1 DEF BaseInv, Shaped
  <2> QED
    BY <1>1, <1>2, <2>1, ReceivedStays, PublishedStays DEF BaseInv
<1>4. AllReceived'
  <2>1. \A m \in InMsgs : Contains(Resent, m) => Received(m)'
    BY <1>3, ResentOperations, InDistinct DEF BaseInv
  <2> QED
    BY <1>1, <1>3, <2>1, InboxGrows, ResentOperations DEF BaseInv, Shaped
<1>5. AllAsked' /\ AllPublished' /\ reported' \subseteq installed' /\ NoFileLeft'
  BY <1>1, <1>3 DEF BaseInv, NoFileLeft, AllAsked, AllPublished, Asked, Undrawn, Recorded, Heard, NoWorker, None
<1> QED
  BY <1>2, <1>4, <1>5 DEF BaseInv

LEMMA ChildBase ==
  ASSUME BaseInv, NEW i \in Ids, ChildResponds(i)
  PROVE  BaseInv'
<1>1. PICK s \in Statuses :
        /\ device[i] # "idle"
        /\ device' = [device EXCEPT ![i] = IF s = "executing" THEN s ELSE "idle"]
        /\ installed' = IF s = "successful" THEN installed \cup {worker[i].request} ELSE installed
        /\ inbox' = Append(inbox, Response(i, s))
  BY DEF ChildResponds, Statuses
<1>2. UNCHANGED <<cloud, reported, out, active, executing, drawn, worker, files, redeliveries, crashes>>
  BY DEF ChildResponds, actorVars
<1>3. i <= drawn /\ worker[i].request \in Requests
  BY <1>1, Numbers DEF BaseInv, AllAsked, Asked, Undrawn, Recorded
<1>4. Shaped'
  <2>1. inbox' \in Seq(InMsgs)
    BY <1>1, Appended, InDistinct DEF BaseInv, Shaped
  <2>2. device' \in [Ids -> {"idle", "asked", "executing"}] /\ installed' \subseteq Requests
    BY <1>1, <1>3 DEF BaseInv, Shaped
  <2> QED
    BY <1>2, <2>1, <2>2 DEF BaseInv, Shaped
<1>5. installed \subseteq installed' /\ (s = "successful" => worker[i].request \in installed')
  BY <1>1
<1>6. (\A m : Received(m) => Received(m)') /\ (\A m : Published(m) => Published(m)')
  <2>1. drawn <= drawn'
    BY <1>2 DEF BaseInv, Shaped
  <2> QED
    BY <1>2, <1>4, <1>5, <2>1, ReceivedStays, PublishedStays DEF BaseInv
<1>7. Received(Response(i, s))'
  <2>1. \A j, t : (Response(i, s) = Response(j, t))' => i = j /\ s = t
    BY DEF Response
  <2>2. \A j, t : (Response(i, s) # Outcome(j, t))'
    BY DEF Response, Outcome
  <2> QED
    BY <1>2, <1>3, <1>5, <2>1, <2>2 DEF Received
<1>8. AllReceived'
  BY <1>1, <1>6, <1>7, InDistinct, InboxAppends DEF BaseInv, Shaped
<1>9. ASSUME NEW j \in Ids PROVE Asked(j)'
  <2>1. j > drawn => device'[j] = device[j]
    BY <1>1, <1>3, FirmwareAssumption DEF BaseInv, Shaped, Ids
  <2> QED
    BY <1>2, <1>5, <2>1 DEF BaseInv, AllAsked, Asked, Undrawn, Recorded, Heard, NoWorker, None
<1>10. reported' \subseteq installed' /\ NoFileLeft' /\ AllPublished'
  BY <1>2, <1>5, <1>6 DEF BaseInv, AllPublished, NoFileLeft, None
<1> QED
  BY <1>4, <1>8, <1>9, <1>10 DEF BaseInv, AllAsked

------------------------------------------------------------------------------
(* The actor. *)

\* The statuses published, none of them being about a firmware.
LEMMA PublishingStatuses ==
  ASSUME NEW flag \in BOOLEAN, NEW c \in Children, NEW s \in Final
  PROVE  /\ Publishing(flag, c, s) \in Seq(OutMsgs)
         /\ \A m : Contains(Publishing(flag, c, s), m) => \E t \in Statuses : m = Status(c, t)
<1>1. /\ Status(c, "executing") \in OutMsgs /\ Status(c, s) \in OutMsgs
      /\ "executing" \in Statuses /\ s \in Statuses
  BY OutDistinct DEF Statuses
<1>2. CASE flag
  <2>1. Publishing(flag, c, s) = <<Status(c, s)>>
    BY <1>2 DEF Publishing
  <2>2. <<Status(c, s)>> \in Seq(OutMsgs) /\ \A m : Contains(<<Status(c, s)>>, m) => m = Status(c, s)
    BY <1>1 DEF Contains
  <2> QED
    BY <1>1, <2>1, <2>2
<1>3. CASE ~flag
  <2>1. Publishing(flag, c, s) = <<Status(c, "executing"), Status(c, s)>>
    BY <1>1, <1>3, PairConcat DEF Publishing
  <2>2. /\ <<Status(c, "executing"), Status(c, s)>> \in Seq(OutMsgs)
        /\ \A m : Contains(<<Status(c, "executing"), Status(c, s)>>, m) => m \in {Status(c, "executing"), Status(c, s)}
    BY <1>1 DEF Contains
  <2> QED
    BY <1>1, <2>1, <2>2
<1> QED
  BY <1>2, <1>3

\* Statuses are added to what is published.
LEMMA StatusesPublished ==
  ASSUME BaseInv, Shaped', NEW q \in Seq(OutMsgs), out' = out \o q, drawn' = drawn, installed' = installed,
         \A m : Contains(q, m) => \E c \in Children, t \in Statuses : m = Status(c, t)
  PROVE  AllPublished'
<1>1. \A m : Published(m) => Published(m)'
  <2>1. drawn <= drawn'
    BY DEF BaseInv, Shaped
  <2> QED
    BY <2>1, PublishedStays DEF BaseInv
<1>2. \A m \in OutMsgs : Contains(q, m) => Published(m)'
  BY <1>1, OutDistinct
<1> QED
  BY <1>1, <1>2, OutGrows DEF BaseInv, Shaped

LEMMA OperationBase ==
  ASSUME BaseInv, HandleOperation
  PROVE  BaseInv'
<1>1. /\ inbox # <<>> /\ inbox' = Tail(inbox) /\ "request" \in DOMAIN Head(inbox)
      /\ UNCHANGED <<cloud, device, installed, reported, executing, files, redeliveries, crashes>>
  BY DEF HandleOperation
<1> DEFINE r == Head(inbox).request
<1>2. r \in Requests
  BY <1>1, Shorter, InKinds DEF BaseInv, Shaped
<1>3. inbox' \in Seq(InMsgs)
  BY <1>1, Shorter DEF BaseInv, Shaped
<1>4. CASE UNCHANGED <<active, drawn, worker>> /\ \E i \in SameInProgress(r) : out' = Append(out, Ask(i))
  <2>1. PICK i \in Ids : files[i] = r /\ out' = Append(out, Ask(i))
    BY <1>4 DEF SameInProgress
  <2>2. i <= drawn
    BY <1>2, <2>1, Drawn
  <2>3. out' \in Seq(OutMsgs) /\ \A m : Contains(out', m) <=> Contains(out, m) \/ m = Ask(i)
    BY <2>1, Appended, OutDistinct DEF BaseInv, Shaped
  <2>4. Shaped'
    BY <1>1, <1>3, <1>4, <2>3 DEF BaseInv, Shaped
  <2>5. (\A m : Received(m) => Received(m)') /\ (\A m : Published(m) => Published(m)')
    <3>1. drawn <= drawn'
      BY <1>4 DEF BaseInv, Shaped
    <3> QED
      BY <1>1, <1>4, <2>4, <3>1, ReceivedStays, PublishedStays DEF BaseInv
  <2>6. AllReceived'
    BY <1>1, <2>5, InboxShrinks DEF BaseInv, Shaped
  <2>7. AllPublished'
    <3>1. Published(Ask(i))'
      BY <1>4, <2>2 DEF Published, Ask, Installed
    <3>2. ASSUME NEW m \in OutMsgs, Contains(out', m) PROVE Published(m)'
      BY <2>3, <2>5, <3>1, <3>2 DEF BaseInv, AllPublished
    <3> QED
      BY <3>2 DEF AllPublished
  <2>8. AllAsked' /\ reported' \subseteq installed' /\ NoFileLeft'
    BY <1>1, <1>4 DEF BaseInv, NoFileLeft, AllAsked, Asked, Undrawn, Recorded, Heard, NoWorker, WorkerAt, None
  <2> QED
    BY <2>4, <2>6, <2>7, <2>8 DEF BaseInv
<1>5. CASE /\ drawn < MaxIds /\ drawn' = drawn + 1 /\ active' = active \cup {drawn + 1}
           /\ worker' = [worker EXCEPT ![drawn + 1] = WorkerAt("downloading", r)]
           /\ UNCHANGED out
  <2> DEFINE n == drawn + 1
             w == WorkerAt("downloading", r)
  <2>1. n \in Ids /\ drawn \in Nat /\ n \in 0 .. MaxIds /\ \A i \in Ids : i \in Nat
    BY <1>5, FirmwareAssumption DEF BaseInv, Shaped, Ids
  <2>2. worker' = [worker EXCEPT ![n] = w] /\ w \in Workers
    BY <1>2, <1>5 DEF Workers, Steps, WorkerAt
  <2>3. Shaped'
    <3>1. worker' \in [Ids -> Workers] /\ active' \subseteq Ids /\ drawn' \in 0 .. MaxIds
      BY <1>5, <2>1, <2>2 DEF BaseInv, Shaped
    <3> QED
      BY <1>1, <1>3, <1>5, <3>1 DEF BaseInv, Shaped
  <2>4. (\A i \in Ids \ {n} : worker'[i] = worker[i]) /\ worker'[n] = w
    BY <2>1, <2>2 DEF BaseInv, Shaped
  <2>5. worker[n] = NoWorker /\ files[n] = None /\ device[n] = "idle"
    BY <2>1 DEF BaseInv, AllAsked, Asked, Undrawn
  <2>6. (\A m : Received(m) => Received(m)') /\ (\A m : Published(m) => Published(m)')
    <3>1. drawn <= drawn' /\ \A i \in Ids : i <= drawn => i # n
      BY <1>5, <2>1
    <3>2. worker[n].step # "over"
      BY <2>5 DEF NoWorker, WorkerAt, None
    <3> QED
      BY <1>1, <2>3, <2>4, <3>1, <3>2, ReceivedStays, PublishedStays DEF BaseInv
  <2>7. AllReceived'
    BY <1>1, <2>6, InboxShrinks DEF BaseInv, Shaped
  <2>8. AllPublished' /\ reported' \subseteq installed'
    BY <1>1, <1>5, <2>6 DEF BaseInv, AllPublished
  <2>9. NoFileLeft'
    BY <1>1, <1>5 DEF BaseInv, NoFileLeft, None
  <2>10. ASSUME NEW i \in Ids PROVE Asked(i)'
    <3>1. CASE i = n
      <4>1. /\ worker'[i].step = "downloading" /\ worker'[i].request = r /\ worker'[i].responses = <<>>
            /\ i \in active' /\ ~(i > drawn')
        BY <1>5, <2>1, <2>4, <3>1 DEF WorkerAt
      <4> QED
        BY <1>2, <4>1 DEF Asked, Undrawn, Recorded, Heard, None
    <3>2. CASE i # n
      <4>1. worker'[i] = worker[i] /\ (i > drawn' => i > drawn) /\ (i <= drawn' => i <= drawn)
        BY <1>5, <2>1, <2>4, <3>2
      <4>2. Undrawn(i)' /\ Heard(i)'
        BY <1>1, <4>1 DEF BaseInv, AllAsked, Asked, Undrawn, Heard, NoWorker, WorkerAt, None
      <4>3. Recorded(i)'
        BY <1>1, <1>5, <4>1 DEF BaseInv, AllAsked, Asked, Recorded, None
      <4> QED
        BY <4>2, <4>3 DEF Asked
    <3> QED
      BY <3>1, <3>2
  <2> QED
    BY <2>3, <2>7, <2>8, <2>9, <2>10 DEF BaseInv, AllAsked
<1> QED
  BY <1>4, <1>5 DEF HandleOperation

\* The failure of an operation whose worker is over.
LEMMA FailBase ==
  ASSUME BaseInv, NEW i \in Ids, worker[i].step = "over", Fail(i), inbox # <<>>, inbox' = Tail(inbox),
         active' \in {active, active \ {i}},
         UNCHANGED <<cloud, device, installed, reported, drawn, worker, redeliveries, crashes>>
  PROVE  BaseInv'
<1> DEFINE c == Child[worker[i].request]
<1>1. /\ files' = [files EXCEPT ![i] = None] /\ executing' = TRUE
      /\ out' = out \o Publishing(executing, c, "failed")
  BY DEF Fail
<1>2. c \in Children /\ executing \in BOOLEAN
  BY Drawn DEF BaseInv, Shaped, Children, None
<1>3. /\ Publishing(executing, c, "failed") \in Seq(OutMsgs)
      /\ \A m : Contains(Publishing(executing, c, "failed"), m) =>
           \E d \in Children, t \in Statuses : m = Status(d, t)
  BY <1>2, PublishingStatuses DEF Final
<1>4. Shaped'
  <2>1. out' \in Seq(OutMsgs) /\ inbox' \in Seq(InMsgs)
    BY <1>1, <1>3, Longer, Shorter DEF BaseInv, Shaped
  <2> QED
    BY <1>1, <2>1 DEF BaseInv, Shaped
<1>5. AllPublished'
  BY <1>1, <1>3, <1>4, StatusesPublished
<1>6. files'[i] = None /\ \A j \in Ids \ {i} : files'[j] = files[j]
  BY <1>1 DEF BaseInv, Shaped
<1>7. AllReceived'
  <2>1. drawn <= drawn'
    BY DEF BaseInv, Shaped
  <2>2. \A m : Received(m) => Received(m)'
    BY <1>4, <1>6, <2>1, ReceivedStays DEF BaseInv
  <2> QED
    BY <2>2, InboxShrinks DEF BaseInv, Shaped
<1>8. Asked(i)'
  BY <1>6 DEF BaseInv, AllAsked, Asked, Undrawn, Recorded, Heard, NoWorker, WorkerAt, None
<1>9. AllAsked'
  BY <1>6, <1>8, OthersStay DEF BaseInv
<1>10. reported' \subseteq installed' /\ NoFileLeft'
  BY <1>6 DEF BaseInv, NoFileLeft, None
<1> QED
  BY <1>4, <1>5, <1>7, <1>9, <1>10 DEF BaseInv

LEMMA ResponseBase ==
  ASSUME BaseInv, HandleResponse
  PROVE  BaseInv'
<1>1. /\ inbox # <<>> /\ inbox' = Tail(inbox) /\ "status" \in DOMAIN Head(inbox)
      /\ UNCHANGED <<cloud, device, installed, reported, active, drawn, redeliveries, crashes>>
  BY DEF HandleResponse
<1> PICK i \in Ids, s \in Statuses : Head(inbox).id = i /\ Head(inbox).status = s
  BY <1>1, Shorter, InKinds DEF BaseInv, Shaped
<1>2. /\ Head(inbox) \in InMsgs
      /\ Head(inbox) = Response(i, s) /\ Contains(inbox, Head(inbox)) /\ inbox' \in Seq(InMsgs)
  BY <1>1, Shorter, InKinds DEF BaseInv, Shaped
<1>3. i <= drawn /\ (s = "successful" => worker[i].request \in installed)
  BY <1>2 DEF BaseInv, AllReceived, Received
<1>4. CASE UNCHANGED <<worker, files, out, executing>>
  <2>1. Shaped'
    BY <1>1, <1>2, <1>4 DEF BaseInv, Shaped
  <2>2. (\A m : Received(m) => Received(m)') /\ (\A m : Published(m) => Published(m)')
    <3>1. drawn <= drawn'
      BY <1>1 DEF BaseInv, Shaped
    <3> QED
      BY <1>1, <1>4, <2>1, <3>1, ReceivedStays, PublishedStays DEF BaseInv
  <2>3. AllReceived'
    BY <1>1, <2>2, InboxShrinks DEF BaseInv, Shaped
  <2>4. AllAsked' /\ AllPublished' /\ reported' \subseteq installed' /\ NoFileLeft'
    BY <1>1, <1>4, <2>2 DEF BaseInv, NoFileLeft, AllAsked, AllPublished, Asked, Undrawn, Recorded, Heard, NoWorker, WorkerAt, None
  <2> QED
    BY <2>1, <2>3, <2>4 DEF BaseInv
<1>5. CASE /\ i \in active /\ worker[i].step # "over"
           /\ worker' = [worker EXCEPT ![i].responses = Append(@, s)]
           /\ UNCHANGED <<files, out, executing>>
  <2> DEFINE w == worker[i]
             q == Append(w.responses, s)
  <2>1. w \in Workers /\ w.responses \in Seq(Statuses)
    BY <1>2 DEF BaseInv, Shaped, Workers
  <2>2. q \in Seq(Statuses) /\ \A k \in DOMAIN q : q[k] = s \/ (k \in DOMAIN w.responses /\ q[k] = w.responses[k])
    BY <1>2, <2>1, AppendProperties
  <2>3. /\ worker' = [worker EXCEPT ![i] = [w EXCEPT !.responses = q]]
        /\ [w EXCEPT !.responses = q] \in Workers
    BY <1>2, <1>5, <2>1, <2>2 DEF Workers, BaseInv, Shaped
  <2>4. /\ worker'[i].responses = q /\ worker'[i].step = w.step /\ worker'[i].request = w.request
        /\ worker'[i].status = w.status /\ \A j \in Ids \ {i} : worker'[j] = worker[j]
    BY <1>2, <2>1, <2>3 DEF BaseInv, Shaped, Workers
  <2>5. Shaped'
    BY <1>1, <1>2, <1>5, <2>3 DEF BaseInv, Shaped
  <2> HIDE DEF q
  <2>6. (\A m : Received(m) => Received(m)') /\ (\A m : Published(m) => Published(m)')
    <3>1. drawn <= drawn'
      BY <1>1 DEF BaseInv, Shaped
    <3> QED
      BY <1>1, <1>5, <2>4, <2>5, <3>1, ReceivedStays, PublishedStays DEF BaseInv
  <2>7. AllReceived'
    BY <1>1, <2>6, InboxShrinks DEF BaseInv, Shaped
  <2>8. Asked(i)'
    <3>1. Heard(i)'
      BY <1>1, <1>2, <1>3, <2>2, <2>4 DEF BaseInv, AllAsked, Asked, Heard
    <3>2. Undrawn(i)'
      BY <1>1, <1>2, <1>3, Numbers DEF BaseInv, Undrawn
    <3>3. Recorded(i)'
      BY <1>1, <1>2, <1>5, <2>4 DEF BaseInv, AllAsked, Asked, Recorded, None
    <3> QED
      BY <3>1, <3>2, <3>3 DEF Asked
  <2>9. AllAsked'
    BY <1>1, <1>2, <1>5, <2>4, <2>8, OthersStay DEF BaseInv
  <2>10. AllPublished' /\ reported' \subseteq installed' /\ NoFileLeft'
    BY <1>1, <1>5, <2>6 DEF BaseInv, NoFileLeft, AllPublished, None
  <2> QED
    BY <2>5, <2>7, <2>9, <2>10 DEF BaseInv
<1>6. CASE i \in active /\ worker[i].step = "over" /\ Fail(i) /\ UNCHANGED worker
  BY <1>1, <1>2, <1>6, FailBase
<1> QED
  BY <1>4, <1>5, <1>6 DEF HandleResponse

LEMMA OutcomeBase ==
  ASSUME BaseInv, HandleOutcome
  PROVE  BaseInv'
<1>1. /\ inbox # <<>> /\ inbox' = Tail(inbox) /\ "ended" \in DOMAIN Head(inbox)
      /\ active' = active \ {Head(inbox).ended}
      /\ UNCHANGED <<cloud, device, installed, reported, drawn, worker, redeliveries, crashes>>
  BY DEF HandleOutcome
<1> PICK i \in Ids : Head(inbox).ended = i
  BY <1>1, Shorter, InKinds DEF BaseInv, Shaped
<1> DEFINE c == Child[worker[i].request]
<1>2. /\ Head(inbox) \in InMsgs /\ Head(inbox).ok \in BOOLEAN /\ inbox' \in Seq(InMsgs)
      /\ Head(inbox) = Outcome(i, Head(inbox).ok) /\ Contains(inbox, Head(inbox))
  BY <1>1, Shorter, InKinds DEF BaseInv, Shaped
<1>3. worker[i].step = "over" /\ (Head(inbox).ok => files[i] = None)
  BY <1>2 DEF BaseInv, AllReceived, Received
<1>4. CASE ~Head(inbox).ok
  <2>1. Fail(i)
    BY <1>4 DEF HandleOutcome
  <2> QED
    BY <1>1, <1>2, <1>3, <2>1, FailBase
<1>5. CASE Head(inbox).ok
  <2>1. /\ out' = out \o Publishing(executing, c, "successful") /\ executing' = TRUE /\ UNCHANGED files
    BY <1>5 DEF HandleOutcome
  <2>2. c \in Children /\ executing \in BOOLEAN
    BY <1>2, <1>3, Drawn DEF BaseInv, Shaped, Children, None
  <2>3. /\ Publishing(executing, c, "successful") \in Seq(OutMsgs)
        /\ \A m : Contains(Publishing(executing, c, "successful"), m) =>
             \E d \in Children, t \in Statuses : m = Status(d, t)
    BY <2>2, PublishingStatuses DEF Final
  <2>4. Shaped'
    <3>1. out' \in Seq(OutMsgs)
      BY <2>1, <2>3, Longer DEF BaseInv, Shaped
    <3> QED
      BY <1>1, <1>2, <2>1, <3>1 DEF BaseInv, Shaped
  <2>5. AllPublished'
    BY <1>1, <2>1, <2>3, <2>4, StatusesPublished
  <2>6. AllReceived'
    <3>1. drawn <= drawn'
      BY <1>1 DEF BaseInv, Shaped
    <3>2. \A m : Received(m) => Received(m)'
      BY <1>1, <2>1, <2>4, <3>1, ReceivedStays DEF BaseInv
    <3> QED
      BY <1>1, <3>2, InboxShrinks DEF BaseInv, Shaped
  <2>7. Asked(i)'
    <3>1. Undrawn(i)' /\ Heard(i)'
      BY <1>1, <1>2, <2>1 DEF BaseInv, AllAsked, Asked, Undrawn, Heard, NoWorker, WorkerAt, None
    <3>2. Recorded(i)'
      BY <1>1, <1>2, <1>3, <2>1 DEF BaseInv, AllAsked, Asked, Recorded, None
    <3> QED
      BY <3>1, <3>2 DEF Asked
  <2>8. AllAsked'
    BY <1>1, <1>2, <2>1, <2>7, OthersStay DEF BaseInv
  <2>9. reported' \subseteq installed' /\ NoFileLeft'
    BY <1>1, <1>3, <1>5, <2>1 DEF BaseInv, NoFileLeft, None
  <2> QED
    BY <2>4, <2>5, <2>6, <2>8, <2>9 DEF BaseInv
<1> QED
  BY <1>2, <1>4, <1>5

------------------------------------------------------------------------------
(* The workers. *)

\* A worker changes, not its request, and its file is recorded or removed.
LEMMA WorkerBase ==
  ASSUME BaseInv, NEW i \in Ids, NEW w \in Workers, worker' = [worker EXCEPT ![i] = w],
         w.request = worker[i].request, w.step # None,
         worker[i].step \notin {None, "over"},
         files' \in {files, [files EXCEPT ![i] = None], [files EXCEPT ![i] = worker[i].request]},
         w.step \in {"recorded", "waiting", "reported"} => files'[i] = w.request,
         \A k \in DOMAIN w.responses : w.responses[k] = "successful" => w.request \in installed,
         inbox' \in Seq(InMsgs), out' \in Seq(OutMsgs),
         UNCHANGED <<cloud, device, installed, reported, active, executing, drawn, redeliveries, crashes>>
  PROVE  /\ Shaped' /\ AllAsked' /\ NoFileLeft' /\ reported' \subseteq installed'
         /\ worker'[i] = w /\ (\A m : Received(m) => Received(m)') /\ (\A m : Published(m) => Published(m)')
<1>1. i <= drawn /\ worker[i].request \in Requests
  BY Drawn
<1>2. Shaped'
  BY <1>1 DEF BaseInv, Shaped
<1>3. worker'[i] = w /\ (\A j \in Ids \ {i} : worker'[j] = worker[j] /\ files'[j] = files[j])
  BY DEF BaseInv, Shaped
<1>4. i \in active
  BY DEF BaseInv, AllAsked, Asked, Recorded
<1>5. Asked(i)'
  <2>1. Undrawn(i)'
    BY <1>1, Numbers DEF BaseInv, Undrawn
  <2>2. Recorded(i)'
    BY <1>1, <1>3, <1>4 DEF Recorded
  <2>3. Heard(i)'
    BY <1>3 DEF Heard
  <2> QED
    BY <2>1, <2>2, <2>3 DEF Asked
<1>6. AllAsked'
  BY <1>3, <1>5, OthersStay DEF BaseInv
<1>7. NoFileLeft'
  BY <1>3, <1>4 DEF BaseInv, NoFileLeft, None
<1>8. (\A m : Received(m) => Received(m)') /\ (\A m : Published(m) => Published(m)')
  <2>1. drawn <= drawn'
    BY DEF BaseInv, Shaped
  <2> QED
    BY <1>2, <1>3, <2>1, ReceivedStays, PublishedStays DEF BaseInv
<1> QED
  BY <1>2, <1>3, <1>6, <1>7, <1>8 DEF BaseInv

LEMMA OverWorker ==
  ASSUME NEW s \in Steps, NEW r \in Requests
  PROVE  /\ WorkerAt(s, r) \in Workers /\ WorkerAt(s, r).request = r /\ WorkerAt(s, r).step = s
         /\ WorkerAt(s, r).responses = <<>>
BY DEF WorkerAt, Workers

\* A worker is over.
LEMMA OverBase ==
  ASSUME BaseInv, NEW i \in Ids, NEW ok \in BOOLEAN, Over(i, ok), worker[i].step \notin {None, "over"},
         files' \in {files, [files EXCEPT ![i] = None]}, ok => files'[i] = None, out' = out,
         UNCHANGED <<cloud, device, installed, reported, active, executing, drawn, redeliveries, crashes>>
  PROVE  BaseInv'
<1> DEFINE w == WorkerAt("over", worker[i].request)
<1>1. worker' = [worker EXCEPT ![i] = w] /\ inbox' = Append(inbox, Outcome(i, ok))
  BY DEF Over
<1>2. /\ w \in Workers /\ w.request = worker[i].request /\ w.step = "over"
      /\ \A k \in DOMAIN w.responses : w.responses[k] = "successful" => w.request \in installed
  BY Drawn, OverWorker DEF Steps
<1> HIDE DEF w
<1>3. inbox' \in Seq(InMsgs) /\ out' \in Seq(OutMsgs)
  BY <1>1, Appended, InDistinct DEF BaseInv, Shaped
<1>4. /\ Shaped' /\ AllAsked' /\ NoFileLeft' /\ reported' \subseteq installed'
      /\ worker'[i] = w /\ (\A m : Received(m) => Received(m)') /\ (\A m : Published(m) => Published(m)')
  BY <1>1, <1>2, <1>3, WorkerBase DEF None
<1>5. Received(Outcome(i, ok))'
  <2>1. \A j, t : (Outcome(i, ok) = Outcome(j, t))' => i = j /\ ok = t
    BY DEF Outcome
  <2>2. \A j, t : (Outcome(i, ok) # Response(j, t))'
    BY DEF Response, Outcome
  <2> QED
    BY <1>2, <1>4, <2>1, <2>2 DEF Received
<1>6. AllReceived'
  BY <1>1, <1>4, <1>5, InboxAppends, InDistinct DEF BaseInv, Shaped
<1>7. AllPublished'
  BY <1>4 DEF BaseInv, AllPublished
<1> QED
  BY <1>4, <1>6, <1>7 DEF BaseInv

LEMMA DownloadBase ==
  ASSUME BaseInv, NEW i \in Ids, Download(i)
  PROVE  BaseInv'
<1>1. /\ worker[i].step = "downloading" /\ UNCHANGED out
      /\ UNCHANGED <<cloud, device, installed, reported, active, executing, drawn, redeliveries, crashes>>
  BY DEF Download, At, WorkerOnly, actorVars
<1>2. CASE Over(i, FALSE) /\ UNCHANGED files
  BY <1>1, <1>2, OverBase DEF None
<1>3. CASE /\ worker' = [worker EXCEPT ![i].step = "recorded"]
           /\ files' = [files EXCEPT ![i] = worker[i].request]
           /\ UNCHANGED inbox
  <2> DEFINE w == [worker[i] EXCEPT !.step = "recorded"]
  <2>1. worker[i] \in Workers
    BY DEF BaseInv, Shaped
  <2>2. w \in Workers /\ w.request = worker[i].request /\ w.step = "recorded" /\ w.responses = worker[i].responses
    BY <2>1 DEF Workers, Steps
  <2>3. worker' = [worker EXCEPT ![i] = w]
    BY <1>3
  <2> HIDE DEF w
  <2>4. \A k \in DOMAIN w.responses : w.responses[k] = "successful" => w.request \in installed
    BY <2>2 DEF BaseInv, AllAsked, Asked, Heard
  <2>5. files'[i] = w.request
    BY <1>3, <2>2 DEF BaseInv, Shaped
  <2>6. /\ Shaped' /\ AllAsked' /\ NoFileLeft' /\ reported' \subseteq installed'
        /\ (\A m : Received(m) => Received(m)') /\ (\A m : Published(m) => Published(m)')
    <3>1. inbox' \in Seq(InMsgs) /\ out' \in Seq(OutMsgs)
      BY <1>1, <1>3 DEF BaseInv, Shaped
    <3> QED
      BY <1>1, <1>3, <2>2, <2>3, <2>4, <2>5, <3>1, WorkerBase DEF None
  <2>7. AllPublished' /\ AllReceived'
    BY <1>1, <1>3, <2>6 DEF BaseInv, AllPublished, AllReceived
  <2> QED
    BY <2>6, <2>7 DEF BaseInv
<1> QED
  BY <1>2, <1>3 DEF Download

LEMMA AskBase ==
  ASSUME BaseInv, NEW i \in Ids, AskChild(i)
  PROVE  BaseInv'
<1> DEFINE w == [worker[i] EXCEPT !.step = "waiting"]
<1>1. /\ worker[i].step = "recorded" /\ UNCHANGED <<inbox, files>> /\ out' = Append(out, Ask(i))
      /\ worker' = [worker EXCEPT ![i] = w]
      /\ UNCHANGED <<cloud, device, installed, reported, active, executing, drawn, redeliveries, crashes>>
  BY DEF AskChild, At, WorkerOnly, actorVars
<1>2. worker[i] \in Workers
  BY DEF BaseInv, Shaped
<1>3. w \in Workers /\ w.request = worker[i].request /\ w.step = "waiting" /\ w.responses = worker[i].responses
  BY <1>2 DEF Workers, Steps
<1> HIDE DEF w
<1>4. /\ \A k \in DOMAIN w.responses : w.responses[k] = "successful" => w.request \in installed
      /\ files'[i] = w.request
  BY <1>1, <1>3 DEF BaseInv, AllAsked, Asked, Heard, Recorded
<1>5. /\ inbox' \in Seq(InMsgs) /\ out' \in Seq(OutMsgs)
      /\ \A m : Contains(out', m) <=> Contains(out, m) \/ m = Ask(i)
  BY <1>1, Appended, OutDistinct DEF BaseInv, Shaped
<1>6. /\ Shaped' /\ AllAsked' /\ NoFileLeft' /\ reported' \subseteq installed'
      /\ (\A m : Received(m) => Received(m)') /\ (\A m : Published(m) => Published(m)')
  BY <1>1, <1>3, <1>4, <1>5, WorkerBase DEF None
<1>7. AllReceived'
  BY <1>1, <1>6 DEF BaseInv, AllReceived
<1>8. AllPublished'
  <2>1. i <= drawn
    BY <1>1, Drawn DEF None
  <2>2. Published(Ask(i))'
    BY <1>1, <2>1 DEF Published, Ask, Installed
  <2>3. ASSUME NEW m \in OutMsgs, Contains(out', m) PROVE Published(m)'
    BY <1>5, <1>6, <2>2, <2>3 DEF BaseInv, AllPublished
  <2> QED
    BY <2>3 DEF AllPublished
<1> QED
  BY <1>6, <1>7, <1>8 DEF BaseInv

\* What a worker publishes: statuses, and what is installed.
LEMMA MessagesPublished ==
  ASSUME BaseInv, NEW i \in Ids, worker[i].step = "waiting", NEW s \in Statuses,
         s = "successful" => worker[i].request \in installed
  PROVE  /\ Messages(i, s) \in Seq(OutMsgs)
         /\ \A m : Contains(Messages(i, s), m) => Published(m)
<1> DEFINE c == Child[worker[i].request]
           p == IF worker[i].status = None THEN <<Status(c, "executing")>> ELSE <<>>
           q == CASE s = "successful" -> <<Installed(files[i]), Status(c, s)>>
                  [] s = "failed" -> <<Status(c, s)>>
                  [] OTHER -> <<>>
<1>1. worker[i].request \in Requests /\ files[i] = worker[i].request
  BY Drawn DEF None, BaseInv, AllAsked, Asked, Recorded
<1>2. c \in Children
  BY <1>1 DEF Children
<1>3. /\ Status(c, "executing") \in OutMsgs /\ Status(c, s) \in OutMsgs /\ Installed(files[i]) \in OutMsgs
      /\ Published(Status(c, "executing")) /\ Published(Status(c, s))
  BY <1>1, <1>2, OutDistinct DEF Statuses
<1>4. s = "successful" => Published(Installed(files[i]))
  BY <1>1, OutDistinct DEF Published
<1>5. p \in Seq(OutMsgs) /\ \A m : Contains(p, m) => Published(m)
  BY <1>3 DEF Contains
<1>6. q \in Seq(OutMsgs) /\ \A m : Contains(q, m) => Published(m)
  <2>1. CASE s = "successful"
    <3>1. q = <<Installed(files[i]), Status(c, s)>>
      BY <2>1
    <3> QED
      BY <1>3, <1>4, <2>1, <3>1 DEF Contains
  <2>2. CASE s = "failed"
    <3>1. q = <<Status(c, s)>>
      BY <2>2
    <3> QED
      BY <1>3, <3>1 DEF Contains
  <2>3. CASE s = "executing"
    <3>1. q = <<>>
      BY <2>3
    <3> QED
      BY <3>1 DEF Contains
  <2> QED
    BY <2>1, <2>2, <2>3 DEF Statuses, Final
<1>7. Messages(i, s) = p \o q
  BY DEF Messages
<1> HIDE DEF p, q
<1> QED
  BY <1>5, <1>6, <1>7, Longer

LEMMA ReportsBase ==
  ASSUME BaseInv, NEW i \in Ids, WorkerReports(i)
  PROVE  BaseInv'
<1> DEFINE s == Head(worker[i].responses)
           w == [step |-> IF s = "executing" THEN "waiting" ELSE "reported",
                 request |-> worker[i].request, status |-> s,
                 responses |-> Tail(worker[i].responses)]
<1>1. /\ worker[i].step = "waiting" /\ worker[i].responses # <<>> /\ UNCHANGED <<inbox, files>>
      /\ out' = out \o Messages(i, s)
      /\ UNCHANGED <<cloud, device, installed, reported, active, executing, drawn, redeliveries, crashes>>
  BY DEF WorkerReports, At, WorkerOnly, actorVars
<1>2. worker' = [worker EXCEPT ![i] = w]
  BY DEF WorkerReports
<1>3. worker[i] \in Workers /\ worker[i].responses \in Seq(Statuses)
  BY DEF BaseInv, Shaped, Workers
<1>4. /\ s \in Statuses /\ Tail(worker[i].responses) \in Seq(Statuses) /\ s = worker[i].responses[1]
      /\ 1 \in DOMAIN worker[i].responses
      /\ \A k \in DOMAIN Tail(worker[i].responses) :
           k + 1 \in DOMAIN worker[i].responses /\ Tail(worker[i].responses)[k] = worker[i].responses[k + 1]
  BY <1>1, <1>3
<1>5. \A k \in DOMAIN worker[i].responses :
        worker[i].responses[k] = "successful" => worker[i].request \in installed
  BY DEF BaseInv, AllAsked, Asked, Heard
<1>6. Messages(i, s) \in Seq(OutMsgs) /\ \A m : Contains(Messages(i, s), m) => Published(m)
  BY <1>1, <1>4, <1>5, MessagesPublished
<1>7. /\ w \in Workers /\ w.request = worker[i].request /\ w.responses = Tail(worker[i].responses)
      /\ w.step \in {"waiting", "reported"}
  BY <1>1, <1>3, <1>4 DEF Workers, Steps
<1> HIDE DEF w, s
<1>8. /\ \A k \in DOMAIN w.responses : w.responses[k] = "successful" => w.request \in installed
      /\ files'[i] = w.request
  BY <1>1, <1>4, <1>5, <1>7 DEF BaseInv, AllAsked, Asked, Recorded
<1>9. inbox' \in Seq(InMsgs) /\ out' \in Seq(OutMsgs)
  BY <1>1, <1>6, Longer DEF BaseInv, Shaped
<1>10. /\ Shaped' /\ AllAsked' /\ NoFileLeft' /\ reported' \subseteq installed'
       /\ (\A m : Received(m) => Received(m)') /\ (\A m : Published(m) => Published(m)')
  BY <1>1, <1>2, <1>7, <1>8, <1>9, WorkerBase DEF None
<1>11. AllReceived'
  BY <1>1, <1>10 DEF BaseInv, AllReceived
<1>12. AllPublished'
  BY <1>1, <1>6, <1>10, OutGrows DEF BaseInv, Shaped
<1> QED
  BY <1>10, <1>11, <1>12 DEF BaseInv

LEMMA EndsBase ==
  ASSUME BaseInv, NEW i \in Ids, WorkerEnds(i)
  PROVE  BaseInv'
<1>1. /\ worker[i].step = "reported" /\ UNCHANGED out
      /\ files' = [files EXCEPT ![i] = None] /\ Over(i, TRUE)
      /\ UNCHANGED <<cloud, device, installed, reported, active, executing, drawn, redeliveries, crashes>>
  BY DEF WorkerEnds, At, WorkerOnly, actorVars
<1>2. files'[i] = None
  BY <1>1 DEF BaseInv, Shaped
<1> QED
  BY <1>1, <1>2, OverBase DEF None

LEMMA TimeoutBase ==
  ASSUME BaseInv, NEW i \in Ids, WorkerTimeout(i)
  PROVE  BaseInv'
<1>1. /\ worker[i].step = "waiting" /\ UNCHANGED <<out, files>> /\ Over(i, FALSE)
      /\ UNCHANGED <<cloud, device, installed, reported, active, executing, drawn, redeliveries, crashes>>
  BY DEF WorkerTimeout, At, WorkerOnly, actorVars
<1> QED
  BY <1>1, OverBase DEF None

------------------------------------------------------------------------------
(* The publications, and the crashes of the manager. *)

LEMMA PublishBase ==
  ASSUME BaseInv, Publish
  PROVE  BaseInv'
<1>1. /\ out # <<>> /\ out' = Tail(out)
      /\ UNCHANGED <<installed, inbox, active, executing, drawn, worker, files, redeliveries, crashes>>
  BY DEF Publish, actorVars
<1>2. /\ Head(out) \in OutMsgs /\ Contains(out, Head(out)) /\ out' \in Seq(OutMsgs)
      /\ \A m : Contains(out', m) => Contains(out, m)
  BY <1>1, Shorter DEF BaseInv, Shaped
<1>3. /\ cloud' \in Seq([request : Requests, status : AnyStatus])
      /\ device' \in [Ids -> {"idle", "asked", "executing"}]
      /\ reported' \subseteq installed
      /\ \A i \in Ids : i > drawn => device'[i] = device[i]
  <2>1. CASE "ask" \in DOMAIN Head(out)
    <3>1. Head(out).ask \in Ids /\ Head(out) = Ask(Head(out).ask)
      BY <1>2, <2>1, OutKinds
    <3>2. Head(out).ask <= drawn
      BY <1>2, <3>1 DEF BaseInv, AllPublished, Published
    <3>3. device' = [device EXCEPT ![Head(out).ask] = "asked"] /\ UNCHANGED <<cloud, reported>>
      BY <2>1 DEF Publish
    <3> QED
      BY <3>1, <3>2, <3>3, Numbers DEF BaseInv, Shaped
  <2>2. CASE "ask" \notin DOMAIN Head(out) /\ "firmware" \in DOMAIN Head(out)
    <3>1. Head(out).firmware \in Requests /\ Head(out) = Installed(Head(out).firmware)
      BY <1>2, <2>2, OutKinds
    <3>2. Head(out).firmware \in installed
      BY <1>2, <3>1 DEF BaseInv, AllPublished, Published
    <3>3. reported' = reported \cup {Head(out).firmware} /\ UNCHANGED <<cloud, device>>
      BY <2>2 DEF Publish, CloudReceives
    <3> QED
      BY <3>1, <3>2, <3>3 DEF BaseInv, Shaped
  <2>3. CASE "ask" \notin DOMAIN Head(out) /\ "firmware" \notin DOMAIN Head(out)
    <3> DEFINE S == [request : Requests, status : AnyStatus]
               m == Head(out)
    <3>1. Head(out).status \in AnyStatus
      BY <1>2, <2>3, OutKinds DEF AnyStatus
    <3>2. /\ UNCHANGED <<reported, device>>
          /\ cloud' = [k \in DOMAIN cloud |->
                      IF k \in Concerned(m) /\ \A j \in Concerned(m) : k <= j
                      THEN [cloud[k] EXCEPT !.status = m.status] ELSE cloud[k]]
      BY <2>3 DEF Publish, CloudReceives
    <3>3. cloud \in Seq(S) /\ Len(cloud) \in Nat /\ DOMAIN cloud = 1 .. Len(cloud) /\ \A k \in DOMAIN cloud : cloud[k] \in S
      BY LenProperties, ElementOfSeq DEF BaseInv, Shaped
    <3>4. \A k \in DOMAIN cloud : [cloud[k] EXCEPT !.status = m.status] \in S
      BY <3>1, <3>3
    <3> HIDE DEF S, m
    <3>5. cloud' \in [1 .. Len(cloud) -> S]
      BY <3>2, <3>3, <3>4
    <3>6. cloud' \in Seq(S)
      BY <3>3, <3>5, SeqDef
    <3> QED
      BY <3>2, <3>6 DEF BaseInv, Shaped, S
  <2> QED
    BY <2>1, <2>2, <2>3
<1>4. Shaped'
  BY <1>1, <1>2, <1>3 DEF BaseInv, Shaped
<1>5. (\A m : Received(m) => Received(m)') /\ (\A m : Published(m) => Published(m)')
  <2>1. drawn <= drawn'
    BY <1>1 DEF BaseInv, Shaped
  <2> QED
    BY <1>1, <1>4, <2>1, ReceivedStays, PublishedStays DEF BaseInv
<1>6. AllReceived' /\ AllPublished'
  BY <1>1, <1>2, <1>5 DEF BaseInv, AllReceived, AllPublished
<1>7. ASSUME NEW i \in Ids PROVE Asked(i)'
  <2>1. Undrawn(i)' /\ Heard(i)'
    BY <1>1, <1>3 DEF BaseInv, AllAsked, Asked, Undrawn, Heard, NoWorker, WorkerAt, None
  <2>2. Recorded(i)'
    BY <1>1 DEF BaseInv, AllAsked, Asked, Recorded, None
  <2> QED
    BY <2>1, <2>2 DEF Asked
<1>8. reported' \subseteq installed' /\ NoFileLeft'
  BY <1>1, <1>3 DEF BaseInv, NoFileLeft, None
<1> QED
  BY <1>4, <1>6, <1>7, <1>8 DEF BaseInv, AllAsked

\* What is sent again to the child devices.
LEMMA AskedAgain ==
  ASSUME BaseInv
  PROVE  LET S == {Ask(i) : i \in {j \in Ids : files[j] # None}}
         IN  SetToSeq(S) \in Seq(OutMsgs) /\ \A m : Contains(SetToSeq(S), m) => \E i \in Ids : m = Ask(i) /\ i <= drawn
<1> DEFINE F == {j \in Ids : files[j] # None}
           S == {Ask(i) : i \in F}
           q == SetToSeq(S)
<1>1. IsFiniteSet(S)
  <2>1. IsFiniteSet(Ids)
    BY FirmwareAssumption, FS_Interval DEF Ids
  <2>2. IsFiniteSet(F)
    BY <2>1, FS_Subset
  <2> DEFINE f == [i \in F |-> Ask(i)]
  <2>3. f \in Surjection(F, S)
    BY DEF Surjection
  <2> QED
    BY <2>2, <2>3, FS_Surjection
<1>2. \A i \in F : i \in Ids /\ i <= drawn
  BY Drawn DEF BaseInv, Shaped
<1>3. S \subseteq OutMsgs /\ \A m \in S : \E i \in Ids : m = Ask(i) /\ i <= drawn
  BY <1>2, OutDistinct
<1> HIDE DEF S
<1>4. Cardinality(S) \in Nat /\ q \in [1 .. Cardinality(S) -> S] /\ q \in Seq(S) /\ Len(q) = Cardinality(S)
  BY <1>1, SetToSeqProperties
<1>5. q \in Seq(OutMsgs)
  BY <1>3, <1>4, SeqMonotonic
<1>6. ASSUME NEW m, Contains(q, m) PROVE m \in S
  BY <1>4, <1>6 DEF Contains
<1> QED
  BY <1>3, <1>5, <1>6 DEF S

LEMMA RestartBase ==
  ASSUME BaseInv, Restart
  PROVE  BaseInv'
<1>1. /\ crashes' = crashes + 1 /\ active' = {} /\ executing' = FALSE
      /\ worker' = [i \in Ids |-> WorkerAt(None, worker[i].request)]
      /\ out' = SetToSeq({Ask(i) : i \in {j \in Ids : files[j] # None}})
      /\ inbox' = Resent
      /\ UNCHANGED <<cloud, device, installed, reported, files, drawn, redeliveries>>
  BY DEF Restart
<1>2. out' \in Seq(OutMsgs) /\ \A m : Contains(out', m) => \E i \in Ids : m = Ask(i) /\ i <= drawn
  BY <1>1, AskedAgain
<1>3. \A i \in Ids : WorkerAt(None, worker[i].request) \in Workers
  <2>1. \A i \in Ids : worker[i].request \in Requests \cup {None}
    BY DEF BaseInv, Shaped, Workers
  <2> QED
    BY <2>1 DEF WorkerAt, Workers, Steps
<1>4. \A i \in Ids : worker'[i].step = None /\ worker'[i].request = worker[i].request /\ worker'[i].responses = <<>>
  BY <1>1 DEF WorkerAt
<1>5. Shaped'
  <2>1. worker' \in [Ids -> Workers]
    BY <1>1, <1>3
  <2>2. inbox' \in Seq(InMsgs)
    BY <1>1, ResentOperations DEF BaseInv
  <2>3. crashes' \in Nat /\ active' \subseteq Ids
    BY <1>1 DEF BaseInv, Shaped
  <2>5. executing' \in BOOLEAN
    BY <1>1
  <2>4. UNCHANGED <<cloud, device, installed, reported, files, drawn, redeliveries>>
    BY <1>1
  <2> QED
    BY <1>2, <2>1, <2>2, <2>3, <2>4, <2>5 DEF BaseInv, Shaped
<1>6. ASSUME NEW i \in Ids PROVE Asked(i)'
  <2>1. Recorded(i)' /\ Heard(i)'
    BY <1>1, <1>4 DEF Recorded, Heard, BaseInv, AllAsked, Asked, None
  <2>2. Undrawn(i)'
    <3>1. CASE i > drawn
      <4>1. worker[i].request = None /\ files[i] = None /\ device[i] = "idle"
        BY <3>1 DEF BaseInv, AllAsked, Asked, Undrawn, NoWorker, WorkerAt
      <4>2. worker'[i] = NoWorker
        BY <1>1, <4>1 DEF NoWorker
      <4> QED
        BY <1>1, <4>1, <4>2 DEF Undrawn, NoWorker, WorkerAt, None
    <3>2. CASE ~(i > drawn)
      BY <1>1, <3>2 DEF Undrawn
    <3> QED
      BY <3>1, <3>2
  <2> QED
    BY <2>1, <2>2 DEF Asked
<1>7. AllReceived'
  <2>1. ASSUME NEW m \in InMsgs, Contains(inbox', m) PROVE Received(m)'
    <3>1. \E r \in Requests : m = Operation(r)
      BY <1>1, <2>1, ResentOperations DEF BaseInv
    <3> QED
      BY <3>1 DEF Received, Operation, Response, Outcome
  <2> QED
    BY <2>1 DEF AllReceived
<1>8. AllPublished'
  <2>1. ASSUME NEW m \in OutMsgs, Contains(out', m) PROVE Published(m)'
    <3>1. PICK i \in Ids : m = Ask(i) /\ i <= drawn
      BY <1>2, <2>1
    <3> QED
      BY <1>1, <3>1 DEF Published, Ask, Installed
  <2> QED
    BY <2>1 DEF AllPublished
<1>9. reported' \subseteq installed' /\ NoFileLeft'
  BY <1>1 DEF BaseInv, NoFileLeft, Shaped
<1> QED
  BY <1>5, <1>6, <1>7, <1>8, <1>9 DEF BaseInv, AllAsked

LEMMA NextBase ==
  ASSUME BaseInv, [Next]_vars
  PROVE  BaseInv'
<1>1. CASE UNCHANGED vars
  <2>1. /\ UNCHANGED <<cloud, device, installed, reported, inbox, out, active, executing, drawn>>
        /\ UNCHANGED <<worker, files, redeliveries, crashes>>
    BY <1>1 DEF vars, actorVars
  <2>2. Shaped' /\ reported' \subseteq installed' /\ NoFileLeft'
    BY <2>1 DEF BaseInv, Shaped, NoFileLeft, None
  <2>3. (\A m : Received(m) => Received(m)') /\ (\A m : Published(m) => Published(m)')
    <3>1. drawn <= drawn'
      BY <2>1 DEF BaseInv, Shaped
    <3> QED
      BY <2>1, <2>2, <3>1, ReceivedStays, PublishedStays DEF BaseInv
  <2>4. AllReceived' /\ AllPublished'
    BY <2>1, <2>3 DEF BaseInv, AllReceived, AllPublished
  <2>5. AllAsked'
    BY <2>1 DEF BaseInv, AllAsked, Asked, Undrawn, Recorded, Heard, NoWorker, WorkerAt, None
  <2> QED
    BY <2>2, <2>4, <2>5 DEF BaseInv
<1>2. CASE Next
  BY <1>2, CreateBase, RedeliverBase, ChildBase, OperationBase, ResponseBase, OutcomeBase, DownloadBase,
     AskBase, ReportsBase, EndsBase, TimeoutBase, PublishBase, RestartBase DEF Next, Actor, Worker
<1> QED
  BY <1>1, <1>2

\* A child device is asked only what is recorded, and no file is left.
THEOREM FilesAreTracked == Spec => []FilesTrackWork
<1>1. Spec => []BaseInv
  BY InitBase, NextBase, PTL DEF Spec
<1>2. BaseInv => FilesTrackWork
  <2>1. ASSUME BaseInv PROVE AskedIsRecorded
    BY <2>1 DEF BaseInv, AllAsked, Asked, Recorded, AskedIsRecorded, At
  <2> QED
    BY <2>1 DEF BaseInv, FilesTrackWork
<1> QED
  BY <1>1, <1>2, PTL

------------------------------------------------------------------------------
(* What the cloud is told. *)

\* A child device has one request at most.
OneEach == \A r, s \in Requests : Child[r] = Child[s] => r = s

\* The operation of the cloud for a request is in one of some states.
InCloud(r, X) == \E k \in DOMAIN cloud : cloud[k].request = r /\ cloud[k].status \in X
Known(r) == InCloud(r, AnyStatus)

\* The cloud knows, or is about to know, that the operation is being executed.
Told(r) ==
  \/ InCloud(r, Statuses)
  \/ Known(r) /\ \E h \in DOMAIN out : out[h] = Status(Child[r], "executing")

\* The operation is ended in the cloud, at the latest by the messages before the k-th.
Ended(r, k) ==
  \/ InCloud(r, Final)
  \/ \E j \in DOMAIN out, s \in Final :
       /\ j < k /\ out[j] = Status(Child[r], s)
       /\ \/ InCloud(r, {"executing"})
          \/ Known(r) /\ \E h \in DOMAIN out : h < j /\ out[h] = Status(Child[r], "executing")

\* A success may be told by the k-th message.
Truly(r, k) == r \in installed \/ Ended(r, k)
TrulyNext(r) == Truly(r, Len(out) + 1)

Single == \A j, k \in DOMAIN cloud : cloud[j].request = cloud[k].request => j = k
AllKnown ==
  \A r \in Requests :
    /\ Contains(inbox, Operation(r)) => Known(r)
    /\ \A i \in Ids : i <= drawn /\ worker[i].request = r => Known(r)

WorkersTrue ==
  \A i \in Ids, r \in Requests : worker[i].request = r =>
    /\ worker[i].status # None => Told(r)
    /\ worker[i].step = "reported" => TrulyNext(r)
    /\ Contains(inbox, Outcome(i, TRUE)) => TrulyNext(r)

StatusesTrue ==
  \A r \in Requests, k \in DOMAIN out : out[k] = Status(Child[r], "successful") => Truly(r, k)

CloudTrue == \A k \in DOMAIN cloud : cloud[k].status = "successful" => cloud[k].request \in installed

TruthInv == Single /\ AllKnown /\ WorkersTrue /\ StatusesTrue /\ CloudTrue

LEMMA InitTruth ==
  ASSUME Init PROVE TruthInv
<1>1. Single /\ StatusesTrue /\ CloudTrue
  BY DEF Init, Single, StatusesTrue, CloudTrue
<1>2. \A m : ~Contains(inbox, m)
  BY DEF Init, Contains
<1>3. AllKnown
  BY <1>2, FirmwareAssumption DEF Init, AllKnown, Ids
<1>4. WorkersTrue
  BY <1>2 DEF Init, WorkersTrue, NoWorker, WorkerAt, None
<1> QED
  BY <1>1, <1>3, <1>4 DEF TruthInv

\* More messages, operations or firmware installed.
Grown ==
  /\ \A k \in DOMAIN cloud : k \in DOMAIN cloud' /\ cloud'[k] = cloud[k]
  /\ \A k \in DOMAIN out : k \in DOMAIN out' /\ out'[k] = out[k]
  /\ Len(out) \in Nat /\ Len(out') \in Nat /\ Len(out) <= Len(out') /\ installed \subseteq installed'
  /\ DOMAIN out = 1 .. Len(out) /\ DOMAIN out' = 1 .. Len(out')

LEMMA GrownTruth ==
  ASSUME Grown, NEW r \in Requests
  PROVE  /\ \A X : InCloud(r, X) => InCloud(r, X)'
         /\ (Known(r) => Known(r)') /\ (Told(r) => Told(r)')
         /\ \A k, l \in Nat : k <= l /\ Truly(r, k) => Truly(r, l)'
         /\ TrulyNext(r) => TrulyNext(r)'
<1>1. ASSUME NEW X PROVE InCloud(r, X) => InCloud(r, X)'
  BY DEF Grown, InCloud
<1>2. \A s : Status(Child[r], s)' = Status(Child[r], s)
  BY DEF Status
<1>3. Known(r) => Known(r)'
  BY DEF Grown, Known, InCloud, AnyStatus, Statuses, Final
<1>4. Told(r) => Told(r)'
  <2>1. InCloud(r, Statuses) => InCloud(r, Statuses)'
    BY DEF Grown, InCloud, Statuses, Final
  <2> QED
    BY <1>2, <1>3, <2>1 DEF Grown, Told
<1>5. ASSUME NEW k \in Nat, NEW l \in Nat, k <= l, Ended(r, k) PROVE Ended(r, l)'
  <2>1. (InCloud(r, Final) => InCloud(r, Final)') /\ (InCloud(r, {"executing"}) => InCloud(r, {"executing"})')
    BY DEF Grown, InCloud, Final
  <2>2. CASE InCloud(r, Final)
    BY <2>1, <2>2 DEF Ended
  <2>3. CASE ~InCloud(r, Final)
    <3>1. PICK j \in DOMAIN out, s \in Final :
       /\ j < k /\ out[j] = Status(Child[r], s)
       /\ \/ InCloud(r, {"executing"})
          \/ Known(r) /\ \E h \in DOMAIN out : h < j /\ out[h] = Status(Child[r], "executing")
      BY <1>5, <2>3 DEF Ended
    <3>2. j \in DOMAIN out' /\ out'[j] = Status(Child[r], s)' /\ s \in Final' /\ j < l
      BY <1>2, <1>5, <3>1 DEF Grown, Final
    <3>3. \/ InCloud(r, {"executing"})'
          \/ Known(r)' /\ \E h \in DOMAIN out' : h < j /\ out'[h] = Status(Child[r], "executing")'
      BY <1>2, <1>3, <2>1, <3>1 DEF Grown
    <3> QED
      BY <3>2, <3>3 DEF Ended
  <2> QED
    BY <2>2, <2>3
<1>6. ASSUME NEW k \in Nat, NEW l \in Nat, k <= l, Truly(r, k) PROVE Truly(r, l)'
  BY <1>5, <1>6 DEF Truly, Grown
<1>7. TrulyNext(r) => TrulyNext(r)'
  <2>1. PICK k \in Nat, l \in Nat : k = Len(out) + 1 /\ l = Len(out') + 1 /\ k <= l
    BY DEF Grown
  <2>2. Truly(r, l)' => TrulyNext(r)'
    BY <2>1 DEF TrulyNext, Truly, Ended
  <2> QED
    BY <1>6, <2>1, <2>2 DEF TrulyNext
<1> QED
  BY <1>1, <1>3, <1>4, <1>6, <1>7

\* A step that adds messages keeps what is known, given that what is new is true.
LEMMA GrownKeeps ==
  ASSUME TruthInv, Grown, Single',
         \A r \in Requests : Contains(inbox', Operation(r)) => Contains(inbox, Operation(r)) \/ Known(r)',
         \A r \in Requests, i \in Ids : i <= drawn' /\ worker'[i].request = r =>
           (i <= drawn /\ worker[i].request = r) \/ Known(r)',
         \A r \in Requests, i \in Ids : worker'[i].request = r =>
           /\ worker'[i].status # None => (worker[i].request = r /\ worker[i].status # None) \/ Told(r)'
           /\ worker'[i].step = "reported" =>
                (worker[i].request = r /\ worker[i].step = "reported") \/ TrulyNext(r)'
           /\ Contains(inbox', Outcome(i, TRUE)) =>
                (worker[i].request = r /\ Contains(inbox, Outcome(i, TRUE))) \/ TrulyNext(r)',
         \A r \in Requests, k \in DOMAIN out' :
           out'[k] = Status(Child[r], "successful") => k \in DOMAIN out \/ Truly(r, k)',
         \A k \in DOMAIN cloud' : cloud'[k].status = "successful" => k \in DOMAIN cloud
  PROVE  TruthInv'
<1>1. AllKnown'
  <2>1. \A r : Operation(r)' = Operation(r)
    BY DEF Operation
  <2>2. ASSUME NEW r \in Requests, Contains(inbox', Operation(r)) PROVE Known(r)'
    BY <2>2, GrownTruth DEF TruthInv, AllKnown
  <2>3. ASSUME NEW r \in Requests, NEW i \in Ids, i <= drawn', worker'[i].request = r PROVE Known(r)'
    BY <2>3, GrownTruth DEF TruthInv, AllKnown
  <2> QED
    BY <2>1, <2>2, <2>3 DEF AllKnown
<1>2. WorkersTrue'
  <2>1. \A i : Outcome(i, TRUE)' = Outcome(i, TRUE)
    BY DEF Outcome
  <2>2. ASSUME NEW r \in Requests, NEW i \in Ids, worker'[i].request = r
        PROVE  /\ worker'[i].status # None => Told(r)'
               /\ worker'[i].step = "reported" => TrulyNext(r)'
               /\ Contains(inbox', Outcome(i, TRUE)) => TrulyNext(r)'
    BY <2>2, GrownTruth DEF TruthInv, WorkersTrue
  <2> QED
    BY <2>1, <2>2 DEF WorkersTrue, None
<1>3. StatusesTrue'
  <2>1. \A r : Status(Child[r], "successful")' = Status(Child[r], "successful")
    BY DEF Status
  <2>2. ASSUME NEW r \in Requests, NEW k \in DOMAIN out', out'[k] = Status(Child[r], "successful")
        PROVE  Truly(r, k)'
    <3>1. CASE k \in DOMAIN out
      <4>1. Truly(r, k)
        BY <2>2, <3>1 DEF TruthInv, StatusesTrue, Grown
      <4>2. k \in Nat /\ k <= k
        BY <3>1 DEF Grown
      <4> QED
        BY <4>1, <4>2, GrownTruth
    <3> QED
      BY <2>2, <3>1
  <2> QED
    BY <2>1, <2>2 DEF StatusesTrue
<1>4. CloudTrue'
  BY DEF TruthInv, CloudTrue, Grown
<1> QED
  BY <1>1, <1>2, <1>3, <1>4 DEF TruthInv

LEMMA NothingPublished ==
  ASSUME BaseInv, out' = out, cloud' = cloud, installed \subseteq installed'
  PROVE  /\ Grown
         /\ \A k \in DOMAIN out' : k \in DOMAIN out
         /\ \A k \in DOMAIN cloud' : k \in DOMAIN cloud
<1>1. out \in Seq(OutMsgs)
  BY DEF BaseInv, Shaped
<1>2. Len(out) \in Nat /\ DOMAIN out = 1 .. Len(out) /\ Len(out) <= Len(out)
  BY <1>1
<1> QED
  BY <1>2 DEF Grown

LEMMA SomePublished ==
  ASSUME BaseInv, NEW q \in Seq(OutMsgs), out' = out \o q, cloud' = cloud, installed' = installed
  PROVE  /\ Grown
         /\ \A k \in DOMAIN cloud' : k \in DOMAIN cloud
         /\ \A k \in DOMAIN out' : k \notin DOMAIN out => \E j \in DOMAIN q : k = Len(out) + j /\ out'[k] = q[j]
         /\ \A j \in DOMAIN q : Len(out) + j \in DOMAIN out' /\ out'[Len(out) + j] = q[j]
         /\ Len(out') = Len(out) + Len(q) /\ Len(out) \in Nat /\ Len(q) \in Nat /\ DOMAIN q = 1 .. Len(q)
<1>1. out \in Seq(OutMsgs)
  BY DEF BaseInv, Shaped
<1>2. /\ Len(out) \in Nat /\ DOMAIN out = 1 .. Len(out) /\ Len(q) \in Nat /\ DOMAIN q = 1 .. Len(q)
      /\ Len(out') = Len(out) + Len(q) /\ DOMAIN out' = 1 .. Len(out')
      /\ \A k \in 1 .. Len(out) : out'[k] = out[k]
      /\ \A j \in 1 .. Len(q) : out'[Len(out) + j] = q[j]
  BY <1>1
<1>3. Grown
  BY <1>2 DEF Grown
<1>4. ASSUME NEW k \in DOMAIN out', k \notin DOMAIN out PROVE \E j \in DOMAIN q : k = Len(out) + j /\ out'[k] = q[j]
  <2>1. k - Len(out) \in DOMAIN q /\ k = Len(out) + (k - Len(out))
    BY <1>2, <1>4
  <2> QED
    BY <1>2, <2>1
<1> QED
  BY <1>2, <1>3, <1>4

LEMMA CreateTruth ==
  ASSUME BaseInv, TruthInv, NEW r \in Requests, CreateOperation(r)
  PROVE  TruthInv'
<1> DEFINE o == [request |-> r, status |-> "pending"]
           S == [request : Requests, status : AnyStatus]
<1>1. /\ cloud' = Append(cloud, o) /\ inbox' = Append(inbox, Operation(r))
      /\ \A k \in DOMAIN cloud : cloud[k].request # r
      /\ UNCHANGED <<installed, out, drawn, worker>>
  BY DEF CreateOperation, actorVars
<1>2. cloud \in Seq(S) /\ o \in S /\ out \in Seq(OutMsgs) /\ inbox \in Seq(InMsgs)
  BY DEF BaseInv, Shaped, AnyStatus
<1>3. o.request = r /\ o.status = "pending"
  OBVIOUS
<1> HIDE DEF o, S
<1>4. /\ Len(cloud) \in Nat /\ DOMAIN cloud = 1 .. Len(cloud) /\ DOMAIN cloud' = 1 .. (Len(cloud) + 1)
      /\ \A k \in DOMAIN cloud : k \in DOMAIN cloud' /\ cloud'[k] = cloud[k]
      /\ cloud'[Len(cloud) + 1] = o
  BY <1>1, <1>2
<1>5. Grown
  BY <1>1, <1>2, <1>4 DEF Grown
<1>6. \A k \in DOMAIN cloud' : k \in DOMAIN cloud \/ (k = Len(cloud) + 1 /\ cloud'[k] = o)
  BY <1>4
<1>7. Single'
  BY <1>1, <1>3, <1>4, <1>6 DEF Single, TruthInv
<1>8. Known(r)'
  <2>1. Len(cloud) + 1 \in DOMAIN cloud' /\ cloud'[Len(cloud) + 1].request = r /\ cloud'[Len(cloud) + 1].status \in AnyStatus
    BY <1>3, <1>4 DEF AnyStatus
  <2> QED
    BY <2>1 DEF Known, InCloud, AnyStatus, Statuses, Final
<1>9. \A m : Contains(inbox', m) <=> Contains(inbox, m) \/ m = Operation(r)
  BY <1>1, <1>2, Appended, InDistinct
<1>10. \A q \in Requests : Contains(inbox', Operation(q)) => Contains(inbox, Operation(q)) \/ Known(q)'
  BY <1>8, <1>9 DEF Operation
<1>11. \A i \in Ids : Contains(inbox', Outcome(i, TRUE)) => Contains(inbox, Outcome(i, TRUE))
  BY <1>9 DEF Operation, Outcome
<1>12. \A k \in DOMAIN cloud' : cloud'[k].status = "successful" => k \in DOMAIN cloud
  BY <1>3, <1>6
<1> QED
  BY <1>1, <1>5, <1>7, <1>10, <1>11, <1>12, GrownKeeps

LEMMA ResentKnown ==
  ASSUME BaseInv, NEW r \in Requests, Contains(Resent, Operation(r))
  PROVE  Known(r)
<1>1. PICK j \in DOMAIN cloud : Operation(r) = Operation(cloud[j].request)
  BY ResentOperations DEF BaseInv
<1>2. cloud[j].request = r
  BY <1>1 DEF Operation
<1>3. cloud[j] \in [request : Requests, status : AnyStatus]
  BY ElementOfSeq, LenProperties DEF BaseInv, Shaped
<1> QED
  BY <1>2, <1>3 DEF Known, InCloud

LEMMA RedeliverTruth ==
  ASSUME BaseInv, TruthInv, Redeliver
  PROVE  TruthInv'
<1>1. inbox' = inbox \o Resent /\ UNCHANGED <<cloud, installed, out, drawn, worker>>
  BY DEF Redeliver, actorVars
<1>2. \A m : Contains(inbox', m) <=> Contains(inbox, m) \/ Contains(Resent, m)
  BY <1>1, Longer, ResentOperations DEF BaseInv, Shaped
<1>3. ASSUME NEW r \in Requests, Contains(Resent, Operation(r)) PROVE Known(r)'
  <2>1. Known(r)
    BY <1>3, ResentKnown
  <2> QED
    BY <1>1, <2>1 DEF Known, InCloud, AnyStatus, Statuses, Final
<1>4. \A i \in Ids : Contains(inbox', Outcome(i, TRUE)) => Contains(inbox, Outcome(i, TRUE))
  <2>1. \A i \in Ids : ~Contains(Resent, Outcome(i, TRUE))
    BY ResentOperations DEF Operation, Outcome, BaseInv
  <2> QED
    BY <1>2, <2>1
<1>5. /\ Grown /\ Single' /\ (\A k \in DOMAIN out' : k \in DOMAIN out)
      /\ (\A k \in DOMAIN cloud' : k \in DOMAIN cloud)
  BY <1>1, NothingPublished DEF Single, TruthInv
<1> QED
  BY <1>1, <1>2, <1>3, <1>4, <1>5, GrownKeeps

LEMMA ChildTruth ==
  ASSUME BaseInv, TruthInv, NEW i \in Ids, ChildResponds(i)
  PROVE  TruthInv'
<1>1. PICK s \in Statuses :
        /\ installed' = IF s = "successful" THEN installed \cup {worker[i].request} ELSE installed
        /\ inbox' = Append(inbox, Response(i, s))
  BY DEF ChildResponds, Statuses
<1>2. UNCHANGED <<cloud, out, drawn, worker>>
  BY DEF ChildResponds, actorVars
<1>3. \A m : Contains(inbox', m) <=> Contains(inbox, m) \/ m = Response(i, s)
  BY <1>1, Appended, InDistinct DEF BaseInv, Shaped
<1>4. /\ \A r \in Requests : Contains(inbox', Operation(r)) => Contains(inbox, Operation(r))
      /\ \A j \in Ids : Contains(inbox', Outcome(j, TRUE)) => Contains(inbox, Outcome(j, TRUE))
  BY <1>3 DEF Operation, Outcome, Response
<1>5. /\ Grown /\ Single' /\ (\A k \in DOMAIN out' : k \in DOMAIN out)
      /\ (\A k \in DOMAIN cloud' : k \in DOMAIN cloud)
  BY <1>1, <1>2, NothingPublished DEF Single, TruthInv
<1> QED
  BY <1>2, <1>4, <1>5, GrownKeeps

\* What is in the box once its first message is handled.
LEMMA FirstHandled ==
  ASSUME BaseInv, inbox # <<>>, inbox' = Tail(inbox)
  PROVE  /\ \A m : Contains(inbox', m) => Contains(inbox, m)
         /\ Head(inbox) \in InMsgs /\ Contains(inbox, Head(inbox))
BY Shorter DEF BaseInv, Shaped

\* A request to a child device is published.
LEMMA AskPublished ==
  ASSUME BaseInv, NEW i \in Ids, out' = Append(out, Ask(i)), cloud' = cloud, installed' = installed
  PROVE  /\ Grown /\ \A k \in DOMAIN cloud' : k \in DOMAIN cloud
         /\ \A r \in Requests, k \in DOMAIN out' : out'[k] = Status(Child[r], "successful") => k \in DOMAIN out
<1> DEFINE q == <<Ask(i)>>
<1>1. out' = out \o q /\ q \in Seq(OutMsgs)
  BY OutDistinct, AppendIsConcat DEF BaseInv, Shaped
<1>2. \A j \in DOMAIN q : q[j] = Ask(i)
  OBVIOUS
<1> HIDE DEF q
<1>3. /\ Grown /\ \A k \in DOMAIN cloud' : k \in DOMAIN cloud
      /\ \A k \in DOMAIN out' : k \notin DOMAIN out => \E j \in DOMAIN q : k = Len(out) + j /\ out'[k] = q[j]
  BY <1>1, SomePublished
<1> QED
  BY <1>2, <1>3, OutDistinct

LEMMA OperationTruth ==
  ASSUME BaseInv, TruthInv, HandleOperation
  PROVE  TruthInv'
<1>1. /\ inbox # <<>> /\ inbox' = Tail(inbox) /\ "request" \in DOMAIN Head(inbox)
      /\ UNCHANGED <<cloud, installed>>
  BY DEF HandleOperation
<1>2. PICK r \in Requests : Head(inbox).request = r /\ Head(inbox) = Operation(r)
  BY <1>1, FirstHandled, InKinds
<1>3. /\ \A m : Contains(inbox', m) => Contains(inbox, m)
      /\ Contains(inbox, Operation(r))
  BY <1>1, <1>2, FirstHandled
<1>4. Single'
  BY <1>1 DEF Single, TruthInv
<1>5. CASE UNCHANGED <<drawn, worker>> /\ \E i \in SameInProgress(r) : out' = Append(out, Ask(i))
  <2>1. PICK i \in Ids : out' = Append(out, Ask(i))
    BY <1>5 DEF SameInProgress
  <2>2. /\ Grown /\ \A k \in DOMAIN cloud' : k \in DOMAIN cloud
        /\ \A q \in Requests, k \in DOMAIN out' : out'[k] = Status(Child[q], "successful") => k \in DOMAIN out
    BY <1>1, <2>1, AskPublished
  <2> QED
    BY <1>3, <1>4, <1>5, <2>2, GrownKeeps
<1>6. CASE /\ drawn < MaxIds /\ drawn' = drawn + 1
           /\ worker' = [worker EXCEPT ![drawn + 1] = WorkerAt("downloading", r)]
           /\ UNCHANGED out
  <2>1. /\ Grown /\ (\A k \in DOMAIN out' : k \in DOMAIN out)
        /\ (\A k \in DOMAIN cloud' : k \in DOMAIN cloud)
    BY <1>1, <1>6, NothingPublished
  <2>2. Known(r)'
    BY <1>3, <2>1, GrownTruth DEF TruthInv, AllKnown
  <2>3. PICK n \in Ids : n = drawn + 1 /\ drawn \in Nat /\ \A i \in Ids : i \in Nat
    BY <1>6, FirmwareAssumption DEF BaseInv, Shaped, Ids
  <2>4. /\ \A i \in Ids \ {n} : worker'[i] = worker[i]
        /\ worker'[n].request = r /\ worker'[n].step = "downloading" /\ worker'[n].status = None
    BY <1>6, <2>3 DEF BaseInv, Shaped, WorkerAt
  <2>5. \A q \in Requests, i \in Ids : i <= drawn' /\ worker'[i].request = q =>
           (i <= drawn /\ worker[i].request = q) \/ Known(q)'
    <3>1. \A i \in Ids \ {n} : i <= drawn' => i <= drawn
      BY <1>6, <2>3
    <3> QED
      BY <2>2, <2>4, <3>1
  <2>6. ~Contains(inbox, Outcome(n, TRUE))
    <3>1. SUFFICES ASSUME Contains(inbox, Outcome(n, TRUE)) PROVE FALSE
      OBVIOUS
    <3>2. worker[n].step = "over"
      BY <3>1, InDistinct DEF BaseInv, AllReceived, Received
    <3>3. n <= drawn
      BY <3>2, Drawn DEF None
    <3> QED
      BY <2>3, <3>3
  <2>7. ASSUME NEW q \in Requests, NEW i \in Ids, worker'[i].request = q
        PROVE  /\ worker'[i].status # None => (worker[i].request = q /\ worker[i].status # None) \/ Told(q)'
               /\ worker'[i].step = "reported" =>
                    (worker[i].request = q /\ worker[i].step = "reported") \/ TrulyNext(q)'
               /\ Contains(inbox', Outcome(i, TRUE)) =>
                    (worker[i].request = q /\ Contains(inbox, Outcome(i, TRUE))) \/ TrulyNext(q)'
    BY <1>3, <2>4, <2>6, <2>7
  <2> QED
    BY <1>3, <1>4, <2>1, <2>5, <2>7, GrownKeeps
<1> QED
  BY <1>2, <1>5, <1>6 DEF HandleOperation

\* The statuses published by the actor.
LEMMA PublishingTruth ==
  ASSUME BaseInv, TruthInv, OneEach, NEW i \in Ids, NEW s \in Final, worker[i].step = "over",
         s = "successful" => Contains(inbox, Outcome(i, TRUE)),
         out' = out \o Publishing(executing, Child[worker[i].request], s),
         \A m : Contains(inbox', m) => Contains(inbox, m),
         UNCHANGED <<cloud, installed, drawn, worker>>
  PROVE  TruthInv'
<1>1. PICK r \in Requests : worker[i].request = r
  BY Drawn DEF None
<1> DEFINE q == Publishing(executing, Child[r], s)
<1>2. Child[r] \in Children /\ executing \in BOOLEAN
  BY DEF Children, BaseInv, Shaped
<1>3. q \in Seq(OutMsgs)
  BY <1>2, PublishingStatuses
<1> HIDE DEF q
<1>4. /\ Grown /\ \A k \in DOMAIN cloud' : k \in DOMAIN cloud
      /\ \A k \in DOMAIN out' : k \notin DOMAIN out => \E j \in DOMAIN q : k = Len(out) + j /\ out'[k] = q[j]
      /\ Len(out) \in Nat /\ DOMAIN q = 1 .. Len(q) /\ Len(q) \in Nat
  BY <1>1, <1>3, SomePublished DEF q
<1>5. \A j \in DOMAIN q : \E t \in Statuses : q[j] = Status(Child[r], t) /\ (t = "successful" => s = "successful")
  <2>1. s \in Statuses /\ "executing" \in Statuses
    BY DEF Statuses
  <2>2. CASE executing
    <3>1. q = <<Status(Child[r], s)>>
      BY <2>2 DEF q, Publishing
    <3> QED
      BY <2>1, <3>1
  <2>3. CASE ~executing
    <3>1. q = <<Status(Child[r], "executing"), Status(Child[r], s)>>
      BY <1>2, <2>1, <2>3, PairConcat, OutDistinct DEF q, Publishing
    <3> QED
      BY <2>1, <3>1
  <2> QED
    BY <2>2, <2>3
<1>6. ASSUME NEW p \in Requests, NEW k \in DOMAIN out', out'[k] = Status(Child[p], "successful"), k \notin DOMAIN out
      PROVE  Truly(p, k)'
  <2>1. PICK j \in DOMAIN q : k = Len(out) + j /\ out'[k] = q[j]
    BY <1>4, <1>6
  <2>2. Child[p] = Child[r] /\ s = "successful"
    BY <1>5, <1>6, <2>1, OutDistinct
  <2>3. p = r
    BY <2>2 DEF OneEach
  <2>4. TrulyNext(r)
    BY <1>1, <2>2 DEF TruthInv, WorkersTrue
  <2>5. Len(out) + 1 \in Nat /\ k \in Nat /\ Len(out) + 1 <= k
    BY <1>4, <2>1
  <2> QED
    BY <1>4, <2>3, <2>4, <2>5, GrownTruth DEF TrulyNext
<1>7. Single'
  BY DEF Single, TruthInv
<1> QED
  BY <1>4, <1>6, <1>7, GrownKeeps

LEMMA ResponseTruth ==
  ASSUME BaseInv, TruthInv, OneEach, HandleResponse
  PROVE  TruthInv'
<1>1. /\ inbox # <<>> /\ inbox' = Tail(inbox) /\ "status" \in DOMAIN Head(inbox)
      /\ UNCHANGED <<cloud, installed, drawn>>
  BY DEF HandleResponse
<1>2. PICK i \in Ids : Head(inbox).id = i
  BY <1>1, FirstHandled, InKinds
<1>3. \A m : Contains(inbox', m) => Contains(inbox, m)
  BY <1>1, FirstHandled
<1>4. CASE UNCHANGED out /\ \/ UNCHANGED worker
                            \/ worker' = [worker EXCEPT ![i].responses = Append(@, Head(inbox).status)]
  <2>1. /\ Grown /\ Single' /\ (\A k \in DOMAIN out' : k \in DOMAIN out)
        /\ (\A k \in DOMAIN cloud' : k \in DOMAIN cloud)
    BY <1>1, <1>4, NothingPublished DEF Single, TruthInv
  <2>2. \A j \in Ids : worker'[j].request = worker[j].request /\ worker'[j].status = worker[j].status
                         /\ worker'[j].step = worker[j].step
    <3>1. worker \in [Ids -> Workers]
      BY DEF BaseInv, Shaped
    <3>2. CASE UNCHANGED worker
      BY <3>2
    <3>3. CASE worker' = [worker EXCEPT ![i].responses = Append(@, Head(inbox).status)]
      <4>1. worker' = [worker EXCEPT ![i] = [worker[i] EXCEPT !.responses = Append(worker[i].responses, Head(inbox).status)]]
        BY <3>3
      <4> DEFINE w == [worker[i] EXCEPT !.responses = Append(worker[i].responses, Head(inbox).status)]
      <4>2. w.request = worker[i].request /\ w.status = worker[i].status /\ w.step = worker[i].step
        BY <3>1 DEF Workers
      <4>3. worker' = [worker EXCEPT ![i] = w]
        BY <4>1
      <4> HIDE DEF w
      <4>4. worker'[i] = w /\ \A j \in Ids \ {i} : worker'[j] = worker[j]
        BY <1>2, <3>1, <4>3
      <4> QED
        BY <4>2, <4>4
    <3> QED
      BY <1>4, <3>2, <3>3
  <2> QED
    BY <1>1, <1>3, <2>1, <2>2, GrownKeeps
<1>5. CASE worker[i].step = "over" /\ Fail(i) /\ UNCHANGED worker
  <2>1. out' = out \o Publishing(executing, Child[worker[i].request], "failed")
    BY <1>5 DEF Fail
  <2> QED
    BY <1>1, <1>3, <1>5, <2>1, PublishingTruth DEF Final
<1> QED
  BY <1>2, <1>4, <1>5 DEF HandleResponse

LEMMA OutcomeTruth ==
  ASSUME BaseInv, TruthInv, OneEach, HandleOutcome
  PROVE  TruthInv'
<1>1. /\ inbox # <<>> /\ inbox' = Tail(inbox) /\ "ended" \in DOMAIN Head(inbox)
      /\ UNCHANGED <<cloud, installed, drawn, worker>>
  BY DEF HandleOutcome
<1>2. PICK i \in Ids : Head(inbox).ended = i
  BY <1>1, FirstHandled, InKinds
<1>3. /\ \A m : Contains(inbox', m) => Contains(inbox, m)
      /\ Contains(inbox, Head(inbox)) /\ Head(inbox) \in InMsgs
      /\ Head(inbox).ok \in BOOLEAN /\ Head(inbox) = Outcome(i, Head(inbox).ok)
  BY <1>1, <1>2, FirstHandled, InKinds
<1>4. worker[i].step = "over"
  BY <1>2, <1>3 DEF BaseInv, AllReceived, Received
<1>5. CASE ~Head(inbox).ok
  <2>1. out' = out \o Publishing(executing, Child[worker[i].request], "failed")
    BY <1>2, <1>5 DEF HandleOutcome, Fail
  <2> QED
    BY <1>1, <1>3, <1>4, <2>1, PublishingTruth DEF Final
<1>6. CASE Head(inbox).ok
  <2>1. out' = out \o Publishing(executing, Child[worker[i].request], "successful")
    BY <1>2, <1>6 DEF HandleOutcome
  <2>2. Contains(inbox, Outcome(i, TRUE))
    <3>1. Head(inbox).ok = TRUE
      BY <1>3, <1>6
    <3> QED
      BY <1>3, <3>1
  <2> QED
    BY <1>1, <1>3, <1>4, <2>1, <2>2, PublishingTruth DEF Final
<1> QED
  BY <1>3, <1>5, <1>6

LEMMA OverTruth ==
  ASSUME BaseInv, TruthInv, NEW i \in Ids, NEW ok \in BOOLEAN, Over(i, ok), out' = out,
         ok => worker[i].step = "reported", worker[i].step # None,
         UNCHANGED <<cloud, installed, drawn>>
  PROVE  TruthInv'
<1>1. worker' = [worker EXCEPT ![i] = WorkerAt("over", worker[i].request)] /\ inbox' = Append(inbox, Outcome(i, ok))
  BY DEF Over
<1>2. PICK r \in Requests : worker[i].request = r
  BY Drawn
<1>3. /\ worker'[i].request = r /\ worker'[i].step = "over" /\ worker'[i].status = None
      /\ \A j \in Ids \ {i} : worker'[j] = worker[j]
  BY <1>1, <1>2 DEF BaseInv, Shaped, WorkerAt
<1>4. \A m : Contains(inbox', m) <=> Contains(inbox, m) \/ m = Outcome(i, ok)
  BY <1>1, Appended, InDistinct DEF BaseInv, Shaped
<1>5. \A q \in Requests : Contains(inbox', Operation(q)) => Contains(inbox, Operation(q))
  BY <1>4 DEF Operation, Outcome
<1>6. /\ Grown /\ Single' /\ (\A k \in DOMAIN out' : k \in DOMAIN out)
      /\ (\A k \in DOMAIN cloud' : k \in DOMAIN cloud)
  BY NothingPublished DEF Single, TruthInv
<1>7. ASSUME ok PROVE TrulyNext(r)'
  BY <1>2, <1>6, <1>7, GrownTruth DEF TruthInv, WorkersTrue
<1>8. \A j \in Ids : Contains(inbox', Outcome(j, TRUE)) => Contains(inbox, Outcome(j, TRUE)) \/ (j = i /\ ok)
  BY <1>4, InDistinct
<1>9. ASSUME NEW q \in Requests, NEW j \in Ids, worker'[j].request = q
      PROVE  /\ worker'[j].status # None => (worker[j].request = q /\ worker[j].status # None) \/ Told(q)'
             /\ worker'[j].step = "reported" =>
                  (worker[j].request = q /\ worker[j].step = "reported") \/ TrulyNext(q)'
             /\ Contains(inbox', Outcome(j, TRUE)) =>
                  (worker[j].request = q /\ Contains(inbox, Outcome(j, TRUE))) \/ TrulyNext(q)'
  <2>1. CASE j = i
    BY <1>2, <1>3, <1>7, <1>8, <1>9, <2>1
  <2>2. CASE j # i
    BY <1>3, <1>8, <1>9, <2>2
  <2> QED
    BY <2>1, <2>2
<1>10. \A q \in Requests, j \in Ids : j <= drawn' /\ worker'[j].request = q => j <= drawn /\ worker[j].request = q
  BY <1>2, <1>3
<1> QED
  BY <1>5, <1>6, <1>9, <1>10, GrownKeeps

\* A worker proceeds to a step other than reporting.
LEMMA ProceedTruth ==
  ASSUME BaseInv, TruthInv, NEW i \in Ids, NEW s, worker' = [worker EXCEPT ![i].step = s], s # "reported",
         inbox' = inbox, \/ out' = out
                         \/ out' = Append(out, Ask(i)),
         UNCHANGED <<cloud, installed, drawn>>
  PROVE  TruthInv'
<1>1. \A j \in Ids : /\ worker'[j].request = worker[j].request /\ worker'[j].status = worker[j].status
                     /\ worker'[j].step = "reported" => worker[j].step = "reported"
  BY DEF BaseInv, Shaped, Workers
<1>2. Single'
  BY DEF Single, TruthInv
<1>3. /\ Grown /\ (\A k \in DOMAIN cloud' : k \in DOMAIN cloud)
      /\ \A r \in Requests, k \in DOMAIN out' : out'[k] = Status(Child[r], "successful") => k \in DOMAIN out
  <2>1. CASE out' = out
    BY <2>1, NothingPublished
  <2>2. CASE out' = Append(out, Ask(i))
    BY <2>2, AskPublished
  <2> QED
    BY <2>1, <2>2
<1> QED
  BY <1>1, <1>2, <1>3, GrownKeeps

LEMMA DownloadTruth ==
  ASSUME BaseInv, TruthInv, NEW i \in Ids, Download(i)
  PROVE  TruthInv'
<1>1. worker[i].step = "downloading" /\ UNCHANGED out /\ UNCHANGED <<cloud, installed, drawn>>
  BY DEF Download, At, WorkerOnly, actorVars
<1>2. CASE Over(i, FALSE)
  BY <1>1, <1>2, OverTruth DEF None
<1>3. CASE worker' = [worker EXCEPT ![i].step = "recorded"] /\ UNCHANGED inbox
  BY <1>1, <1>3, ProceedTruth
<1> QED
  BY <1>2, <1>3 DEF Download

LEMMA AskTruth ==
  ASSUME BaseInv, TruthInv, NEW i \in Ids, AskChild(i)
  PROVE  TruthInv'
<1>1. /\ worker' = [worker EXCEPT ![i].step = "waiting"] /\ inbox' = inbox /\ out' = Append(out, Ask(i))
      /\ UNCHANGED <<cloud, installed, drawn>>
  BY DEF AskChild, WorkerOnly, actorVars
<1> QED
  BY <1>1, ProceedTruth

LEMMA EndsTruth ==
  ASSUME BaseInv, TruthInv, NEW i \in Ids, WorkerEnds(i) \/ WorkerTimeout(i)
  PROVE  TruthInv'
<1>1. UNCHANGED out /\ UNCHANGED <<cloud, installed, drawn>>
  BY DEF WorkerEnds, WorkerTimeout, WorkerOnly, actorVars
<1>2. CASE WorkerEnds(i)
  BY <1>1, <1>2, OverTruth DEF WorkerEnds, At, None
<1>3. CASE WorkerTimeout(i)
  BY <1>1, <1>3, OverTruth DEF WorkerTimeout, At, None
<1> QED
  BY <1>2, <1>3

\* What a worker publishes, message by message.
LEMMA MessagesShape ==
  ASSUME BaseInv, NEW i \in Ids, NEW r \in Requests, worker[i].request = r, files[i] = r, NEW s \in Statuses,
         NEW q, q = Messages(i, s)
  PROVE  /\ \A c : \A j \in DOMAIN q : q[j] = Status(c, "successful") => c = Child[r] /\ s = "successful"
         /\ worker[i].status = None => 1 \in DOMAIN q /\ q[1] = Status(Child[r], "executing")
         /\ s = "failed" =>
              /\ Len(q) \in DOMAIN q /\ q[Len(q)] = Status(Child[r], "failed") /\ Len(q) \in Nat
              /\ worker[i].status = None => Len(q) = 2
<1> DEFINE c == Child[r]
           S == OutMsgs
           x == IF worker[i].status = None THEN <<Status(c, "executing")>> ELSE <<>>
           y == CASE s = "successful" -> <<Installed(files[i]), Status(c, s)>>
                  [] s = "failed" -> <<Status(c, s)>>
                  [] OTHER -> <<>>
<1>1. q = x \o y
  BY DEF Messages
<1>2. /\ c \in Children /\ Status(c, "executing") \in S /\ Status(c, s) \in S /\ Installed(r) \in S
  BY OutDistinct DEF Children, Statuses
<1>3. /\ x \in Seq(S) /\ \A j \in DOMAIN x : x[j] = Status(c, "executing")
      /\ worker[i].status = None => 1 \in DOMAIN x /\ Len(x) = 1
  BY <1>2
<1>4. /\ y \in Seq(S) /\ \A j \in DOMAIN y : y[j] = Installed(r) \/ y[j] = Status(c, s)
      /\ s = "failed" => Len(y) = 1 /\ y[1] = Status(c, "failed")
  <2>1. CASE s = "successful"
    <3>1. y = <<Installed(r), Status(c, s)>>
      BY <2>1
    <3>2. <<Installed(r), Status(c, s)>> \in Seq(S) /\ \A j \in DOMAIN <<Installed(r), Status(c, s)>> :
            <<Installed(r), Status(c, s)>>[j] = Installed(r) \/ <<Installed(r), Status(c, s)>>[j] = Status(c, s)
      BY <1>2
    <3> QED
      BY <2>1, <3>1, <3>2
  <2>2. CASE s = "failed"
    <3>1. y = <<Status(c, s)>>
      BY <2>2
    <3> QED
      BY <1>2, <2>2, <3>1
  <2>3. CASE s = "executing"
    <3>1. y = <<>>
      BY <2>3
    <3> QED
      BY <2>3, <3>1
  <2> QED
    BY <2>1, <2>2, <2>3 DEF Statuses, Final
<1> HIDE DEF x, y, S, c
<1>5. /\ Len(q) = Len(x) + Len(y) /\ DOMAIN q = 1 .. Len(q) /\ Len(x) \in Nat /\ Len(y) \in Nat /\ Len(q) \in Nat
      /\ DOMAIN x = 1 .. Len(x) /\ DOMAIN y = 1 .. Len(y)
      /\ \A k \in 1 .. Len(x) : q[k] = x[k]
      /\ \A k \in 1 .. Len(y) : q[Len(x) + k] = y[k]
  BY <1>1, <1>3, <1>4
<1>6. ASSUME NEW j \in DOMAIN q, NEW d, q[j] = Status(d, "successful") PROVE d = c /\ s = "successful"
  <2>1. j \in 1 .. Len(x) \/ \E k \in 1 .. Len(y) : j = Len(x) + k
    <3>1. j \notin 1 .. Len(x) => j - Len(x) \in 1 .. Len(y) /\ j = Len(x) + (j - Len(x))
      BY <1>5
    <3> QED
      BY <3>1
  <2>2. q[j] = Status(c, "executing") \/ q[j] = Installed(r) \/ q[j] = Status(c, s)
    BY <1>3, <1>4, <1>5, <2>1
  <2> QED
    BY <1>6, <2>2, OutDistinct
<1>7. worker[i].status = None => 1 \in DOMAIN q /\ q[1] = Status(c, "executing")
  BY <1>3, <1>5
<1>8. s = "failed" =>
        /\ Len(q) \in DOMAIN q /\ q[Len(q)] = Status(c, "failed") /\ Len(q) \in Nat
        /\ worker[i].status = None => Len(q) = 2
  BY <1>3, <1>4, <1>5
<1> QED
  BY <1>6, <1>7, <1>8 DEF c

LEMMA ReportsTruth ==
  ASSUME BaseInv, TruthInv, OneEach, NEW i \in Ids, WorkerReports(i)
  PROVE  TruthInv'
<1>1. PICK s : s = Head(worker[i].responses)
  OBVIOUS
<1>2. /\ worker[i].step = "waiting" /\ worker[i].responses # <<>> /\ UNCHANGED inbox
      /\ out' = out \o Messages(i, s)
      /\ UNCHANGED <<cloud, installed, drawn>>
  BY <1>1 DEF WorkerReports, At, WorkerOnly, actorVars
<1>3. /\ worker'[i].request = worker[i].request /\ worker'[i].status = s
      /\ worker'[i].step = "reported" => s # "executing"
      /\ \A j \in Ids \ {i} : worker'[j] = worker[j]
  BY <1>1 DEF WorkerReports, BaseInv, Shaped
<1>4. s \in Statuses /\ s = worker[i].responses[1] /\ 1 \in DOMAIN worker[i].responses
  <2>1. worker[i].responses \in Seq(Statuses)
    BY DEF BaseInv, Shaped, Workers
  <2> QED
    BY <1>1, <1>2, <2>1
<1>5. s = "successful" => worker[i].request \in installed
  BY <1>4 DEF BaseInv, AllAsked, Asked, Heard
<1>6. PICK r \in Requests : worker[i].request = r /\ files[i] = r /\ i <= drawn
  BY <1>2, Drawn DEF None, BaseInv, AllAsked, Asked, Recorded
<1>7. PICK q \in Seq(OutMsgs) : q = Messages(i, s)
  BY <1>2, <1>4, <1>5, MessagesPublished
<1>8. /\ \A c : \A j \in DOMAIN q : q[j] = Status(c, "successful") => c = Child[r] /\ s = "successful"
      /\ worker[i].status = None => 1 \in DOMAIN q /\ q[1] = Status(Child[r], "executing")
      /\ s = "failed" =>
           /\ Len(q) \in DOMAIN q /\ q[Len(q)] = Status(Child[r], "failed") /\ Len(q) \in Nat
           /\ worker[i].status = None => Len(q) = 2
  BY <1>4, <1>6, <1>7, MessagesShape
<1>9. /\ Grown
      /\ \A k \in DOMAIN cloud' : k \in DOMAIN cloud
      /\ \A k \in DOMAIN out' : k \notin DOMAIN out => \E j \in DOMAIN q : k = Len(out) + j /\ out'[k] = q[j]
      /\ \A j \in DOMAIN q : Len(out) + j \in DOMAIN out' /\ out'[Len(out) + j] = q[j]
      /\ Len(out') = Len(out) + Len(q) /\ Len(out) \in Nat /\ Len(q) \in Nat /\ DOMAIN q = 1 .. Len(q)
  BY <1>2, <1>7, SomePublished
<1>10. Known(r) /\ Known(r)' /\ (r \in installed => r \in installed')
  BY <1>2, <1>6, <1>9, GrownTruth DEF TruthInv, AllKnown
<1>11. \A t : Status(Child[r], t)' = Status(Child[r], t)
  BY DEF Status
<1>12. Told(r)'
  <2>1. CASE worker[i].status # None
    BY <1>6, <1>9, <2>1, GrownTruth DEF TruthInv, WorkersTrue
  <2>2. CASE worker[i].status = None
    <3>1. Len(out) + 1 \in DOMAIN out' /\ out'[Len(out) + 1] = Status(Child[r], "executing")'
      BY <1>8, <1>9, <1>11, <2>2
    <3> QED
      BY <1>10, <3>1 DEF Told
  <2> QED
    BY <2>1, <2>2
<1>13. ASSUME s # "executing" PROVE TrulyNext(r)'
  <2>1. CASE s = "successful"
    BY <1>5, <1>6, <1>10, <2>1 DEF TrulyNext, Truly
  <2>2. CASE s = "failed"
    <3>1. PICK j \in DOMAIN out' : j = Len(out) + Len(q) /\ j = Len(out')
      BY <1>8, <1>9, <2>2
    <3>2. out'[j] = Status(Child[r], "failed")' /\ "failed" \in Final' /\ j < Len(out') + 1
      BY <1>8, <1>9, <1>11, <2>2, <3>1 DEF Final
    <3>3. \/ InCloud(r, Final)'
          \/ InCloud(r, {"executing"})'
          \/ Known(r)' /\ \E h \in DOMAIN out' : h < j /\ out'[h] = Status(Child[r], "executing")'
      <4>1. CASE worker[i].status = None
        <5>1. 1 \in DOMAIN q /\ q[1] = Status(Child[r], "executing") /\ Len(q) = 2
          BY <1>8, <2>2, <4>1
        <5>2. Len(out) + 1 \in DOMAIN out' /\ out'[Len(out) + 1] = Status(Child[r], "executing")'
          BY <1>9, <1>11, <5>1
        <5>3. Len(out) + 1 < j
          BY <1>9, <3>1, <5>1
        <5> QED
          BY <1>10, <5>2, <5>3
      <4>2. CASE worker[i].status # None
        <5>1. Told(r)
          BY <1>6, <4>2 DEF TruthInv, WorkersTrue
        <5>2. CASE InCloud(r, Statuses)
          <6>1. PICK k \in DOMAIN cloud : cloud[k].request = r /\ cloud[k].status \in Statuses
            BY <5>2 DEF InCloud
          <6> QED
            BY <1>2, <6>1 DEF InCloud, Statuses, Final
        <5>3. CASE \E h \in DOMAIN out : out[h] = Status(Child[r], "executing")
          <6>1. PICK h \in DOMAIN out : out[h] = Status(Child[r], "executing")
            BY <5>3
          <6>2. h \in DOMAIN out' /\ out'[h] = Status(Child[r], "executing")'
            BY <1>9, <1>11, <6>1 DEF Grown
          <6>3. h < j
            BY <1>8, <1>9, <2>2, <3>1 DEF Grown
          <6> QED
            BY <1>10, <6>2, <6>3
        <5> QED
          BY <5>1, <5>2, <5>3 DEF Told
      <4> QED
        BY <4>1, <4>2
    <3>4. Ended(r, Len(out) + 1)'
      BY <3>2, <3>3 DEF Ended
    <3> QED
      BY <3>4 DEF TrulyNext, Truly
  <2> QED
    BY <1>4, <1>13, <2>1, <2>2 DEF Statuses, Final
<1>14. ASSUME NEW p \in Requests, NEW k \in DOMAIN out', out'[k] = Status(Child[p], "successful"), k \notin DOMAIN out
       PROVE  Truly(p, k)'
  <2>1. PICK j \in DOMAIN q : k = Len(out) + j /\ out'[k] = q[j]
    BY <1>9, <1>14
  <2>2. p = r /\ s = "successful"
    BY <1>8, <1>14, <2>1 DEF OneEach
  <2> QED
    BY <1>5, <1>6, <1>10, <2>2 DEF Truly
<1>15. ASSUME NEW p \in Requests, NEW j \in Ids, worker'[j].request = p
       PROVE  /\ worker'[j].status # None => (worker[j].request = p /\ worker[j].status # None) \/ Told(p)'
              /\ worker'[j].step = "reported" =>
                   (worker[j].request = p /\ worker[j].step = "reported") \/ TrulyNext(p)'
              /\ Contains(inbox', Outcome(j, TRUE)) =>
                   (worker[j].request = p /\ Contains(inbox, Outcome(j, TRUE))) \/ TrulyNext(p)'
  <2>1. CASE j = i
    BY <1>2, <1>3, <1>6, <1>12, <1>13, <1>15, <2>1
  <2>2. CASE j # i
    BY <1>2, <1>3, <1>15, <2>2
  <2> QED
    BY <2>1, <2>2
<1>16. \A p \in Requests, j \in Ids : j <= drawn' /\ worker'[j].request = p => j <= drawn /\ worker[j].request = p
  BY <1>2, <1>3
<1>17. Single'
  BY <1>2 DEF Single, TruthInv
<1> QED
  BY <1>2, <1>9, <1>14, <1>15, <1>16, <1>17, GrownKeeps

------------------------------------------------------------------------------
(* A publication, and a crash. *)

\* The operation of a status, if it expects that status, takes it.
LEMMA CloudStep ==
  ASSUME BaseInv, TruthInv, OneEach, Publish, NEW p \in Requests, NEW t \in Statuses,
         Head(out) = Status(Child[p], t)
  PROVE  LET b == IF t = "executing" THEN "pending" ELSE "executing"
         IN  /\ DOMAIN cloud' = DOMAIN cloud
             /\ \A k \in DOMAIN cloud :
                  /\ cloud'[k].request = cloud[k].request
                  /\ cloud'[k].status = IF cloud[k].request = p /\ cloud[k].status = b THEN t ELSE cloud[k].status
<1> DEFINE b == IF t = "executing" THEN "pending" ELSE "executing"
           S == [request : Requests, status : AnyStatus]
<1>1. PICK m : m = Head(out)
  OBVIOUS
<1>2. m.child = Child[p] /\ m.status = t /\ "ask" \notin DOMAIN m /\ "firmware" \notin DOMAIN m
  BY <1>1 DEF Status
<1>3. cloud' = [k \in DOMAIN cloud |->
                  IF k \in Concerned(m) /\ \A j \in Concerned(m) : k <= j
                  THEN [cloud[k] EXCEPT !.status = m.status] ELSE cloud[k]]
  BY <1>1, <1>2 DEF Publish, CloudReceives
<1>4. Len(cloud) \in Nat /\ DOMAIN cloud = 1 .. Len(cloud) /\ \A k \in DOMAIN cloud : cloud[k] \in S
  BY LenProperties, ElementOfSeq DEF BaseInv, Shaped
<1>5. ASSUME NEW k \in DOMAIN cloud
      PROVE  k \in Concerned(m) <=> cloud[k].request = p /\ cloud[k].status = b
  <2>1. cloud[k].request \in Requests
    BY <1>4
  <2>2. Child[cloud[k].request] = Child[p] <=> cloud[k].request = p
    BY <2>1 DEF OneEach
  <2> QED
    BY <1>2, <2>2 DEF Concerned
<1>6. \A j, k \in Concerned(m) : j = k
  <2>1. \A k \in Concerned(m) : k \in DOMAIN cloud
    BY DEF Concerned
  <2> QED
    BY <1>5, <2>1 DEF TruthInv, Single
<1>7. ASSUME NEW k \in DOMAIN cloud
      PROVE  /\ cloud'[k].request = cloud[k].request
             /\ cloud'[k].status = IF cloud[k].request = p /\ cloud[k].status = b THEN t ELSE cloud[k].status
  <2>1. k \in Nat /\ k <= k
    BY <1>4
  <2>2. cloud[k] \in S
    BY <1>4
  <2>3. CASE k \in Concerned(m)
    <3>1. \A j \in Concerned(m) : k <= j
      BY <1>6, <2>1, <2>3
    <3>2. cloud'[k] = [cloud[k] EXCEPT !.status = t]
      BY <1>2, <1>3, <2>3, <3>1
    <3> QED
      BY <1>5, <2>2, <2>3, <3>2
  <2>4. CASE k \notin Concerned(m)
    <3>1. cloud'[k] = cloud[k]
      BY <1>3, <2>4
    <3> QED
      BY <1>5, <2>4, <3>1
  <2> QED
    BY <2>3, <2>4
<1>8. DOMAIN cloud' = DOMAIN cloud
  BY <1>3
<1> QED
  BY <1>7, <1>8

\* What is not a status leaves the operations of the cloud alone.
LEMMA CloudStays ==
  ASSUME BaseInv, Publish
  PROVE  UNCHANGED cloud \/ \E p \in Requests, t \in Statuses : Head(out) = Status(Child[p], t)
<1>1. out # <<>> /\ Head(out) \in OutMsgs
  BY Shorter DEF Publish, BaseInv, Shaped
<1>2. CASE "ask" \in DOMAIN Head(out) \/ "firmware" \in DOMAIN Head(out)
  BY <1>2 DEF Publish, CloudReceives
<1>3. CASE "ask" \notin DOMAIN Head(out) /\ "firmware" \notin DOMAIN Head(out)
  BY <1>1, <1>3, OutKinds DEF Children
<1> QED
  BY <1>2, <1>3

\* How the operation of a request proceeds.
LEMMA OperationProceeds ==
  ASSUME BaseInv, TruthInv, OneEach, Publish, NEW r \in Requests
  PROVE  /\ Known(r) => Known(r)'
         /\ InCloud(r, Final) => InCloud(r, Final)'
         /\ InCloud(r, Statuses) => InCloud(r, {"executing"})' \/ InCloud(r, Final)'
         /\ Head(out) = Status(Child[r], "executing") /\ Known(r) => InCloud(r, {"executing"})' \/ InCloud(r, Final)'
         /\ \A s \in Final : Head(out) = Status(Child[r], s) /\ InCloud(r, {"executing"}) => InCloud(r, Final)'
<1>1. CASE UNCHANGED cloud /\ \A t \in Statuses : Head(out) # Status(Child[r], t)
  <2>1. \A t \in Statuses : t \in Final \/ t = "executing"
    BY DEF Statuses
  <2>2. (Known(r) => Known(r)') /\ (InCloud(r, Final) => InCloud(r, Final)')
    BY <1>1 DEF Known, InCloud, AnyStatus, Statuses, Final
  <2>3. InCloud(r, Statuses) => InCloud(r, {"executing"})' \/ InCloud(r, Final)'
    BY <1>1 DEF InCloud, Statuses, Final
  <2>4. "executing" \in Statuses /\ \A s \in Final : s \in Statuses
    BY DEF Statuses
  <2> QED
    BY <1>1, <2>2, <2>3, <2>4
<1>2. ASSUME NEW p \in Requests, NEW t \in Statuses, Head(out) = Status(Child[p], t)
      PROVE  /\ Known(r) => Known(r)'
             /\ InCloud(r, Final) => InCloud(r, Final)'
             /\ InCloud(r, Statuses) => InCloud(r, {"executing"})' \/ InCloud(r, Final)'
             /\ Head(out) = Status(Child[r], "executing") /\ Known(r) => InCloud(r, {"executing"})' \/ InCloud(r, Final)'
             /\ \A s \in Final : Head(out) = Status(Child[r], s) /\ InCloud(r, {"executing"}) => InCloud(r, Final)'
  <2> DEFINE b == IF t = "executing" THEN "pending" ELSE "executing"
  <2>1. /\ DOMAIN cloud' = DOMAIN cloud
        /\ \A k \in DOMAIN cloud :
             /\ cloud'[k].request = cloud[k].request
             /\ cloud'[k].status = IF cloud[k].request = p /\ cloud[k].status = b THEN t ELSE cloud[k].status
    BY <1>2, CloudStep
  <2>2. \A s : Head(out) = Status(Child[r], s) => r = p /\ s = t
    BY <1>2, OutDistinct DEF OneEach
  <2>3. ASSUME Known(r) PROVE Known(r)'
    <3>1. PICK k \in DOMAIN cloud : cloud[k].request = r /\ cloud[k].status \in AnyStatus
      BY <2>3 DEF Known, InCloud
    <3>2. t \in AnyStatus
      BY DEF AnyStatus
    <3> QED
      BY <2>1, <3>1, <3>2 DEF Known, InCloud, AnyStatus, Statuses, Final
  <2>4. ASSUME InCloud(r, Final) PROVE InCloud(r, Final)'
    BY <2>1, <2>4 DEF InCloud, Final
  <2>5. ASSUME InCloud(r, Statuses) PROVE InCloud(r, {"executing"})' \/ InCloud(r, Final)'
    BY <2>1, <2>5 DEF InCloud, Statuses, Final
  <2>6. ASSUME Head(out) = Status(Child[r], "executing"), Known(r)
        PROVE  InCloud(r, {"executing"})' \/ InCloud(r, Final)'
    <3>1. r = p /\ t = "executing"
      BY <2>2, <2>6
    <3> QED
      BY <2>1, <2>6, <3>1 DEF Known, InCloud, AnyStatus, Statuses, Final
  <2>7. ASSUME NEW s \in Final, Head(out) = Status(Child[r], s), InCloud(r, {"executing"}) PROVE InCloud(r, Final)'
    <3>1. r = p /\ t = s /\ t # "executing"
      BY <2>2, <2>7 DEF Final
    <3> QED
      BY <2>1, <2>7, <3>1 DEF InCloud, Final
  <2> QED
    BY <2>3, <2>4, <2>5, <2>6, <2>7
<1>3. CASE \E p \in Requests, t \in Statuses : Head(out) = Status(Child[p], t)
  BY <1>2, <1>3
<1>4. CASE ~\E p \in Requests, t \in Statuses : Head(out) = Status(Child[p], t)
  BY <1>1, <1>4, CloudStays
<1> QED
  BY <1>3, <1>4

\* What is about to be told is, or still is about to be.
LEMMA OutcomeProceeds ==
  ASSUME BaseInv, TruthInv, OneEach, Publish, NEW r \in Requests
  PROVE  /\ Told(r) => Told(r)'
         /\ \A k \in Nat : Truly(r, k + 1) => Truly(r, k)'
<1>1. /\ out # <<>> /\ out' = Tail(out) /\ installed' = installed
  BY DEF Publish
<1>2. /\ Len(out) \in Nat /\ DOMAIN out = 1 .. Len(out) /\ Head(out) = out[1]
      /\ \A j \in DOMAIN out : j = 1 \/ (j - 1 \in DOMAIN out' /\ out'[j - 1] = out[j])
  <2>1. out \in Seq(OutMsgs)
    BY DEF BaseInv, Shaped
  <2> QED
    BY <1>1, <2>1
<1>3. /\ Known(r) => Known(r)'
      /\ InCloud(r, Final) => InCloud(r, Final)'
      /\ InCloud(r, Statuses) => InCloud(r, {"executing"})' \/ InCloud(r, Final)'
      /\ Head(out) = Status(Child[r], "executing") /\ Known(r) => InCloud(r, {"executing"})' \/ InCloud(r, Final)'
      /\ \A s \in Final : Head(out) = Status(Child[r], s) /\ InCloud(r, {"executing"}) => InCloud(r, Final)'
  BY OperationProceeds
<1>4. \A s : Status(Child[r], s)' = Status(Child[r], s)
  BY DEF Status
<1>5. InCloud(r, {"executing"}) => InCloud(r, Statuses)
  BY DEF InCloud, Statuses
<1>6. InCloud(r, {"executing"})' \/ InCloud(r, Final)' => InCloud(r, Statuses)'
  BY DEF InCloud, Statuses, Final
<1>7. ASSUME Told(r) PROVE Told(r)'
  <2>1. CASE InCloud(r, Statuses)
    BY <1>3, <1>6, <2>1 DEF Told
  <2>2. CASE Known(r) /\ \E h \in DOMAIN out : out[h] = Status(Child[r], "executing")
    <3>1. PICK h \in DOMAIN out : out[h] = Status(Child[r], "executing")
      BY <2>2
    <3>2. CASE h = 1
      BY <1>2, <1>3, <1>6, <2>2, <3>1, <3>2 DEF Told
    <3>3. CASE h # 1
      BY <1>2, <1>3, <1>4, <2>2, <3>1, <3>3 DEF Told
    <3> QED
      BY <3>2, <3>3
  <2> QED
    BY <1>7, <2>1, <2>2 DEF Told
<1>8. ASSUME NEW k \in Nat, Ended(r, k + 1) PROVE Ended(r, k)'
  <2>1. CASE InCloud(r, Final)
    BY <1>3, <2>1 DEF Ended
  <2>2. CASE ~InCloud(r, Final)
    <3>1. PICK j \in DOMAIN out, s \in Final :
       /\ j < k + 1 /\ out[j] = Status(Child[r], s)
       /\ \/ InCloud(r, {"executing"})
          \/ Known(r) /\ \E h \in DOMAIN out : h < j /\ out[h] = Status(Child[r], "executing")
      BY <1>8, <2>2 DEF Ended
    <3>2. CASE j = 1
      <4>1. \A h \in DOMAIN out : ~(h < j)
        BY <1>2, <3>2
      <4>2. InCloud(r, Final)'
        BY <1>2, <1>3, <3>1, <3>2, <4>1
      <4> QED
        BY <4>2 DEF Ended
    <3>3. CASE j # 1
      <4>1. PICK l \in DOMAIN out' : l = j - 1 /\ out'[l] = Status(Child[r], s)'
        BY <1>2, <1>4, <3>1, <3>3
      <4>2. l < k /\ s \in Final'
        BY <1>2, <3>1, <4>1 DEF Final
      <4>3. \/ InCloud(r, Final)'
            \/ InCloud(r, {"executing"})'
            \/ Known(r)' /\ \E h \in DOMAIN out' : h < l /\ out'[h] = Status(Child[r], "executing")'
        <5>1. CASE InCloud(r, {"executing"})
          BY <1>3, <1>5, <5>1
        <5>2. CASE Known(r) /\ \E h \in DOMAIN out : h < j /\ out[h] = Status(Child[r], "executing")
          <6>1. PICK h \in DOMAIN out : h < j /\ out[h] = Status(Child[r], "executing")
            BY <5>2
          <6>2. CASE h = 1
            BY <1>2, <1>3, <5>2, <6>1, <6>2
          <6>3. CASE h # 1
            <7>1. h - 1 \in DOMAIN out' /\ out'[h - 1] = Status(Child[r], "executing")'
              BY <1>2, <1>4, <6>1, <6>3
            <7>2. h - 1 < l
              BY <1>2, <4>1, <6>1
            <7> QED
              BY <1>3, <5>2, <7>1, <7>2
          <6> QED
            BY <6>2, <6>3
        <5> QED
          BY <3>1, <5>1, <5>2
      <4> QED
        BY <4>1, <4>2, <4>3 DEF Ended
    <3> QED
      BY <3>2, <3>3
  <2> QED
    BY <2>1, <2>2
<1>9. ASSUME NEW k \in Nat, Truly(r, k + 1) PROVE Truly(r, k)'
  BY <1>1, <1>8, <1>9 DEF Truly
<1> QED
  BY <1>7, <1>9

\* The cloud is told of a success only if it is one.
LEMMA SuccessTrue ==
  ASSUME BaseInv, TruthInv, OneEach, Publish
  PROVE  CloudTrue'
<1>1. out # <<>> /\ installed' = installed
  BY DEF Publish
<1>2. CASE UNCHANGED cloud
  BY <1>1, <1>2 DEF CloudTrue, TruthInv
<1>3. ASSUME NEW p \in Requests, NEW t \in Statuses, Head(out) = Status(Child[p], t) PROVE CloudTrue'
  <2> DEFINE b == IF t = "executing" THEN "pending" ELSE "executing"
  <2>1. /\ DOMAIN cloud' = DOMAIN cloud
        /\ \A k \in DOMAIN cloud :
             /\ cloud'[k].request = cloud[k].request
             /\ cloud'[k].status = IF cloud[k].request = p /\ cloud[k].status = b THEN t ELSE cloud[k].status
    BY <1>3, CloudStep
  <2>2. ASSUME NEW k \in DOMAIN cloud, cloud'[k].status = "successful" PROVE cloud[k].request \in installed
    <3>1. CASE cloud[k].status = "successful"
      BY <3>1 DEF TruthInv, CloudTrue
    <3>2. CASE cloud[k].status # "successful"
      <4>1. cloud[k].request = p /\ cloud[k].status = "executing" /\ t = "successful"
        BY <2>1, <2>2, <3>2
      <4>2. 1 \in DOMAIN out /\ out[1] = Status(Child[p], "successful") /\ \A j \in DOMAIN out : ~(j < 1)
        <5>1. out \in Seq(OutMsgs)
          BY DEF BaseInv, Shaped
        <5> QED
          BY <1>1, <1>3, <4>1, <5>1
      <4>3. Truly(p, 1)
        BY <4>2 DEF TruthInv, StatusesTrue
      <4>4. ~InCloud(p, Final)
        BY <4>1 DEF InCloud, Final, TruthInv, Single
      <4> QED
        BY <4>1, <4>2, <4>3, <4>4 DEF Truly, Ended
    <3> QED
      BY <3>1, <3>2
  <2> QED
    BY <1>1, <2>1, <2>2 DEF CloudTrue
<1> QED
  BY <1>2, <1>3, CloudStays

LEMMA PublishTruth ==
  ASSUME BaseInv, TruthInv, OneEach, Publish
  PROVE  TruthInv'
<1>1. out # <<>> /\ out' = Tail(out) /\ UNCHANGED <<inbox, drawn, worker, installed>>
  BY DEF Publish, actorVars
<1>2. /\ Len(out') \in Nat /\ DOMAIN out' = 1 .. Len(out') /\ Len(out) = Len(out') + 1
      /\ \A k \in DOMAIN out' : k + 1 \in DOMAIN out /\ out'[k] = out[k + 1] /\ k \in Nat
  <2>1. out \in Seq(OutMsgs)
    BY DEF BaseInv, Shaped
  <2> QED
    BY <1>1, <2>1
<1>3. \A r \in Requests : /\ Known(r) => Known(r)'
                          /\ Told(r) => Told(r)'
                          /\ \A k \in Nat : Truly(r, k + 1) => Truly(r, k)'
  BY OperationProceeds, OutcomeProceeds
<1>4. Single'
  <2>1. CASE UNCHANGED cloud
    BY <2>1 DEF Single, TruthInv
  <2>2. ASSUME NEW p \in Requests, NEW t \in Statuses, Head(out) = Status(Child[p], t) PROVE Single'
    BY <2>2, CloudStep DEF Single, TruthInv
  <2> QED
    BY <2>1, <2>2, CloudStays
<1>5. AllKnown'
  <2>1. \A r : Operation(r)' = Operation(r)
    BY DEF Operation
  <2> QED
    BY <1>1, <1>3, <2>1 DEF TruthInv, AllKnown
<1>6. \A r \in Requests : TrulyNext(r) => TrulyNext(r)'
  <2>1. ASSUME NEW r \in Requests, TrulyNext(r) PROVE TrulyNext(r)'
    <3>1. PICK n \in Nat : n = Len(out') + 1 /\ n + 1 = Len(out) + 1
      BY <1>2
    <3>2. Truly(r, n)'
      BY <1>3, <2>1, <3>1 DEF TrulyNext
    <3> QED
      BY <3>1, <3>2 DEF TrulyNext, Truly, Ended
  <2> QED
    BY <2>1
<1>7. WorkersTrue'
  <2>1. \A i : Outcome(i, TRUE)' = Outcome(i, TRUE)
    BY DEF Outcome
  <2>2. ASSUME NEW r \in Requests, NEW i \in Ids, worker'[i].request = r
        PROVE  /\ worker'[i].status # None => Told(r)'
               /\ worker'[i].step = "reported" => TrulyNext(r)'
               /\ Contains(inbox', Outcome(i, TRUE)) => TrulyNext(r)'
    BY <1>1, <1>3, <1>6, <2>2 DEF TruthInv, WorkersTrue
  <2> QED
    BY <2>1, <2>2 DEF WorkersTrue, None
<1>8. StatusesTrue'
  <2>1. \A r : Status(Child[r], "successful")' = Status(Child[r], "successful")
    BY DEF Status
  <2>2. ASSUME NEW r \in Requests, NEW k \in DOMAIN out', out'[k] = Status(Child[r], "successful")
        PROVE  Truly(r, k)'
    <3>1. Truly(r, k + 1)
      BY <1>2, <2>2 DEF TruthInv, StatusesTrue
    <3> QED
      BY <1>2, <1>3, <3>1
  <2> QED
    BY <2>1, <2>2 DEF StatusesTrue
<1> QED
  BY <1>4, <1>5, <1>7, <1>8, SuccessTrue DEF TruthInv

LEMMA RestartTruth ==
  ASSUME BaseInv, TruthInv, Restart
  PROVE  TruthInv'
<1>1. /\ worker' = [i \in Ids |-> WorkerAt(None, worker[i].request)]
      /\ out' = SetToSeq({Ask(i) : i \in {j \in Ids : files[j] # None}})
      /\ inbox' = Resent /\ UNCHANGED <<cloud, installed, drawn>>
  BY DEF Restart
<1>2. out' \in Seq(OutMsgs) /\ \A m : Contains(out', m) => \E i \in Ids : m = Ask(i)
  BY <1>1, AskedAgain
<1>3. \A c : \A k \in DOMAIN out' : out'[k] # Status(c, "successful")
  <2>1. \A k \in DOMAIN out' : Contains(out', out'[k])
    BY <1>2 DEF Contains
  <2> QED
    BY <1>2, <2>1, OutDistinct
<1>4. \A i \in Ids : worker'[i].step = None /\ worker'[i].request = worker[i].request /\ worker'[i].status = None
  BY <1>1 DEF WorkerAt
<1>5. \A r \in Requests : Known(r) => Known(r)'
  BY <1>1 DEF Known, InCloud, AnyStatus, Statuses, Final
<1>6. AllKnown'
  <2>1. \A r : Operation(r)' = Operation(r)
    BY DEF Operation
  <2>2. \A r \in Requests : Contains(inbox', Operation(r)) => Known(r)'
    BY <1>1, <1>5, ResentKnown
  <2> QED
    BY <1>1, <1>4, <1>5, <2>1, <2>2 DEF TruthInv, AllKnown
<1>7. WorkersTrue'
  <2>1. \A i : (Contains(inbox, Outcome(i, TRUE)))' = Contains(inbox', Outcome(i, TRUE))
    BY DEF Outcome
  <2>2. \A i \in Ids : ~Contains(inbox', Outcome(i, TRUE))
    BY <1>1, ResentOperations DEF Operation, Outcome, BaseInv
  <2> QED
    BY <1>4, <2>1, <2>2 DEF WorkersTrue, None
<1>8. StatusesTrue'
  BY <1>3 DEF StatusesTrue, Status
<1>9. Single' /\ CloudTrue'
  BY <1>1 DEF Single, CloudTrue, TruthInv
<1> QED
  BY <1>6, <1>7, <1>8, <1>9 DEF TruthInv

LEMMA NextTruth ==
  ASSUME BaseInv, TruthInv, OneEach, [Next]_vars
  PROVE  TruthInv'
<1>1. CASE UNCHANGED vars
  <2>1. UNCHANGED <<cloud, installed, inbox, out, drawn, worker>>
    BY <1>1 DEF vars, actorVars
  <2>2. /\ Grown /\ Single' /\ (\A k \in DOMAIN out' : k \in DOMAIN out)
        /\ (\A k \in DOMAIN cloud' : k \in DOMAIN cloud)
    BY <2>1, NothingPublished DEF Single, TruthInv
  <2> QED
    BY <2>1, <2>2, GrownKeeps
<1>2. CASE Next
  BY <1>2, CreateTruth, RedeliverTruth, ChildTruth, OperationTruth, ResponseTruth, OutcomeTruth, DownloadTruth,
     AskTruth, ReportsTruth, EndsTruth, PublishTruth, RestartTruth DEF Next, Actor, Worker
<1> QED
  BY <1>1, <1>2

\* The cloud is told of a success only if the child device has installed the firmware: when
\* a child device has one request at most, as the cloud is told of its outcome by the child
\* device, not by the request.
THEOREM CloudIsToldTheTruth ==
  ASSUME OneEach
  PROVE  Spec => []Truthful
<1>1. Spec => []BaseInv
  BY InitBase, NextBase, PTL DEF Spec
<1>2. BaseInv /\ TruthInv /\ [Next]_vars => TruthInv'
  BY NextTruth
<1>3. Spec => []TruthInv
  BY <1>1, <1>2, InitTruth, PTL DEF Spec
<1>4. BaseInv /\ TruthInv => Truthful
  BY DEF BaseInv, TruthInv, CloudTrue, Truthful
<1> QED
  BY <1>1, <1>3, <1>4, PTL

------------------------------------------------------------------------------
(* Device restarts: a success comes from the restart manager, which reports one *)
(* when the device has been restarted; it then goes through messages, effects, *)
(* the board and its copy on disk before it is published.                      *)

\* A state, which is a success of a restart only if its command is one of R, the
\* restarts that may be reported as successful.
Genuine(R, c, s) ==
  c \in Restarts => s = State(s.status, s.next) /\ (s.status = "successful" => c \in R)

\* What a message and an effect tell of a restart; scripts and timeouts are those of
\* its workflow.
MessageGenuine(R, m) == Genuine(R, m.cmd, m.state)
EffectGenuine(R, e) ==
  /\ Genuine(R, e.cmd, e.state)
  /\ e.cmd \in Restarts =>
       /\ e.do # "inputScript"
       /\ e.do = "script" => HasAction(e.cmd, e.state) /\ Action(e.cmd, e.state).do = "script"
       /\ e.do = "sleep" => HasAction(e.cmd, e.state) /\ Action(e.cmd, e.state).do = "awaitRestart"

Contents(q) == {q[i] : i \in DOMAIN q}
MessagesGenuine(R, q) == q \in Seq(Contents(q)) /\ \A i \in DOMAIN q : MessageGenuine(R, q[i])
EffectsGenuine(R, q) == q \in Seq(Contents(q)) /\ \A i \in DOMAIN q : EffectGenuine(R, q[i])
StatesGenuine(R, f) == DOMAIN f = Cmds /\ \A c \in Cmds : Genuine(R, c, f[c])

\* The restarts that may be reported as successful: the device has been restarted, or
\* the agent stopped before the file of the restart was dated.
Explained == rebooted \cup early

\* Once the agent has been stopped, a persisted restart is dated, unless it is explained;
\* and a restart is dated before it is launched.
WitnessGenuine ==
  /\ DOMAIN manager = Cmds
  /\ \A c \in Restarts :
       /\ ~up /\ c \in pending => witness = "since" \/ c \in Explained
       /\ up /\ manager[c] = "recovering" => witness = "since" \/ c \in Explained
       /\ manager[c] = "working" => witness = "since"

RestartInv ==
  /\ StatesGenuine(Explained, retained) /\ StatesGenuine(Explained, board)
  /\ StatesGenuine(Explained, disk)
  /\ MessagesGenuine(Explained, net) /\ MessagesGenuine(Explained, input)
  /\ EffectsGenuine(Explained, todo)
  /\ WitnessGenuine

------------------------------------------------------------------------------

LEMMA GenuineGrows ==
  ASSUME NEW R, NEW T, R \subseteq T
  PROVE  /\ \A c, s : Genuine(R, c, s) => Genuine(T, c, s)
         /\ \A f : StatesGenuine(R, f) => StatesGenuine(T, f)
         /\ \A q : MessagesGenuine(R, q) => MessagesGenuine(T, q)
         /\ \A q : EffectsGenuine(R, q) => EffectsGenuine(T, q)
<1>1. \A c, s : Genuine(R, c, s) => Genuine(T, c, s)
  BY DEF Genuine
<1> QED
  BY <1>1 DEF StatesGenuine, MessagesGenuine, MessageGenuine, EffectsGenuine, EffectGenuine

\* A state of which the status is changed.
LEMMA GotoGenuine ==
  ASSUME NEW R, NEW c, NEW s, NEW t, Genuine(R, c, s), c \in Restarts => t # "successful"
  PROVE  Genuine(R, c, Goto(s, t))
  BY DEF Genuine, Goto, State

LEMMA FixedGenuine ==
  ASSUME NEW R, NEW c
  PROVE  Genuine(R, c, InitState) /\ Genuine(R, c, Cleared)
  BY DEF Genuine, InitState, Cleared, State

LEMMA SeqOfContents ==
  ASSUME NEW S, NEW q \in Seq(S)
  PROVE  q \in Seq(Contents(q))
  BY DEF Contents

LEMMA QueueAppended ==
  ASSUME NEW R, NEW q, NEW m, MessagesGenuine(R, q), MessageGenuine(R, m)
  PROVE  MessagesGenuine(R, Append(q, m))
<1> DEFINE S == Contents(q) \cup {m}
           r == Append(q, m)
<1>1. Contents(q) \subseteq S /\ m \in S /\ q \in Seq(Contents(q))
  BY DEF MessagesGenuine
<1> HIDE DEF S
<1>2. q \in Seq(S)
  BY <1>1, SeqMonotonic
<1>3. /\ r \in Seq(S) /\ r[Len(q) + 1] = m /\ \A i \in DOMAIN q : r[i] = q[i]
      /\ \A i \in DOMAIN r : i \in DOMAIN q \/ i = Len(q) + 1
  BY <1>1, <1>2
<1> HIDE DEF r
<1>4. r \in Seq(Contents(r))
  BY <1>3, SeqOfContents
<1>5. \A i \in DOMAIN r : MessageGenuine(R, r[i])
  BY <1>3 DEF MessagesGenuine
<1> QED
  BY <1>4, <1>5 DEF MessagesGenuine, r

LEMMA QueueTail ==
  ASSUME NEW R, NEW q, q # <<>>
  PROVE  /\ MessagesGenuine(R, q) => MessagesGenuine(R, Tail(q)) /\ MessageGenuine(R, Head(q))
         /\ EffectsGenuine(R, q) => EffectsGenuine(R, Tail(q)) /\ EffectGenuine(R, Head(q))
<1> SUFFICES ASSUME q \in Seq(Contents(q))
             PROVE  /\ Tail(q) \in Seq(Contents(Tail(q))) /\ Head(q) = q[1] /\ 1 \in DOMAIN q
                    /\ \A i \in DOMAIN Tail(q) : i + 1 \in DOMAIN q /\ Tail(q)[i] = q[i + 1]
  BY DEF MessagesGenuine, EffectsGenuine
<1>1. /\ Tail(q) \in Seq(Contents(q)) /\ Head(q) = q[1] /\ 1 \in DOMAIN q
      /\ \A i \in DOMAIN Tail(q) : i + 1 \in DOMAIN q /\ Tail(q)[i] = q[i + 1]
  <2> DEFINE S == Contents(q)
  <2>1. q \in Seq(S)
    OBVIOUS
  <2> HIDE DEF S
  <2> QED
    BY <2>1 DEF S
<1>2. Tail(q) \in Seq(Contents(Tail(q)))
  BY <1>1, SeqOfContents
<1> QED
  BY <1>1, <1>2

LEMMA EffectsFew ==
  ASSUME NEW R
  PROVE  /\ EffectsGenuine(R, <<>>)
         /\ \A e : EffectGenuine(R, e) => EffectsGenuine(R, <<e>>)
         /\ \A e, f : EffectGenuine(R, e) /\ EffectGenuine(R, f) => EffectsGenuine(R, <<e, f>>)
         /\ \A e, f, g : EffectGenuine(R, e) /\ EffectGenuine(R, f) /\ EffectGenuine(R, g) =>
              EffectsGenuine(R, <<e, f, g>>)
<1>1. EffectsGenuine(R, <<>>)
  BY DEF EffectsGenuine
<1>2. ASSUME NEW e, EffectGenuine(R, e) PROVE EffectsGenuine(R, <<e>>)
  <2>1. <<e>> \in Seq({e}) /\ DOMAIN <<e>> = {1} /\ <<e>>[1] = e
    OBVIOUS
  <2> QED
    BY <1>2, <2>1, SeqOfContents DEF EffectsGenuine
<1>3. ASSUME NEW e, NEW f, EffectGenuine(R, e), EffectGenuine(R, f)
      PROVE  EffectsGenuine(R, <<e, f>>)
  <2>1. <<e, f>> \in Seq({e, f}) /\ DOMAIN <<e, f>> = {1, 2} /\ <<e, f>>[1] = e /\ <<e, f>>[2] = f
    OBVIOUS
  <2> QED
    BY <1>3, <2>1, SeqOfContents DEF EffectsGenuine
<1>4. ASSUME NEW e, NEW f, NEW g, EffectGenuine(R, e), EffectGenuine(R, f), EffectGenuine(R, g)
      PROVE  EffectsGenuine(R, <<e, f, g>>)
  <2>1. /\ <<e, f, g>> \in Seq({e, f, g}) /\ DOMAIN <<e, f, g>> = {1, 2, 3}
        /\ <<e, f, g>>[1] = e /\ <<e, f, g>>[2] = f /\ <<e, f, g>>[3] = g
    OBVIOUS
  <2> QED
    BY <1>4, <2>1, SeqOfContents DEF EffectsGenuine
<1> QED
  BY <1>1, <1>2, <1>3, <1>4

LEMMA EffectsJoined ==
  ASSUME NEW R, NEW p, NEW q, EffectsGenuine(R, p), EffectsGenuine(R, q)
  PROVE  EffectsGenuine(R, p \o q)
<1> DEFINE S == Contents(p) \cup Contents(q)
           r == p \o q
<1>1. /\ Contents(p) \subseteq S /\ Contents(q) \subseteq S
      /\ p \in Seq(Contents(p)) /\ q \in Seq(Contents(q))
  BY DEF EffectsGenuine
<1> HIDE DEF S
<1>2. p \in Seq(S) /\ q \in Seq(S)
  BY <1>1, SeqMonotonic
<1>3. /\ r \in Seq(S)
      /\ \A i \in DOMAIN r : (i \in DOMAIN p /\ r[i] = p[i]) \/ (i - Len(p) \in DOMAIN q /\ r[i] = q[i - Len(p)])
  BY <1>2
<1> HIDE DEF r
<1>4. r \in Seq(Contents(r))
  BY <1>3, SeqOfContents
<1>5. \A i \in DOMAIN r : EffectGenuine(R, r[i])
  BY <1>3 DEF EffectsGenuine
<1> QED
  BY <1>4, <1>5 DEF EffectsGenuine, r

\* An effect which is neither a script nor a timeout.
LEMMA PlainEffect ==
  ASSUME NEW R, NEW c, NEW s, Genuine(R, c, s),
         NEW do \in {"save", "send", "publish", "dispatch", "background", "process"}
  PROVE  EffectGenuine(R, Effect(do, c, s))
  BY DEF EffectGenuine, Effect

LEMMA PublishGenuine ==
  ASSUME NEW R, NEW c, NEW s, Genuine(R, c, s)
  PROVE  EffectsGenuine(R, PublishState(c, s))
<1>1. /\ EffectGenuine(R, Effect("save", c, s)) /\ EffectGenuine(R, Effect("send", c, s))
      /\ EffectGenuine(R, Effect("publish", c, s))
  BY PlainEffect
<1> QED
  BY <1>1, EffectsFew DEF PublishState

\* Any state of a command which is not a restart.
LEMMA OthersGenuine ==
  ASSUME NEW R, NEW c, c \notin Restarts
  PROVE  \A s : Genuine(R, c, s)
  BY DEF Genuine

LEMMA WorkflowOfRestart ==
  ASSUME ByManagerOnly, NEW c \in Restarts, NEW s, HasAction(c, s)
  PROVE  /\ Action(c, s).do \notin {"operation", "iterate"} /\ Action(c, s).do \in ActionKinds
         /\ "successful" \notin LeadsTo(Action(c, s))
<1>1. OpOf[c] \in DOMAIN Workflow /\ s.status \in DOMAIN Workflow[OpOf[c]]
  BY DEF HasAction, Registered
<1> QED
  BY <1>1, EngineAssumptions DEF ByManagerOnly, Action

LEMMA InvokeGenuine ==
  ASSUME NEW R, NEW c, NEW s, c \notin Restarts
  PROVE  EffectsGenuine(R, InvokeEffects(c, s))
<1> DEFINE d == SubTopic(c, SubOperation(c, s))
<1>1. EffectsGenuine(R, PublishState(c, Goto(s, Action(c, s).onExec)))
  BY PublishGenuine, OthersGenuine
<1>2. EffectGenuine(R, Effect("publish", d, InitState))
  BY FixedGenuine, PlainEffect
<1>3. EffectsGenuine(R, <<Effect("publish", d, InitState)>>)
  BY <1>2, EffectsFew
<1> QED
  BY <1>1, <1>3, EffectsJoined DEF InvokeEffects

\* The parent of a finished sub-command is resumed in its state on the board.
LEMMA ParentGenuine ==
  ASSUME NEW R, NEW c, StatesGenuine(R, board)
  PROVE  EffectsGenuine(R, ResumeParent(c))
<1> DEFINE p == Parent[c]
<1>1. Genuine(R, p, board[p])
  BY DEF StatesGenuine, Genuine, Restarts
<1>2. EffectGenuine(R, Effect("send", p, board[p]))
  BY <1>1, PlainEffect
<1> QED
  BY <1>2, EffectsFew DEF ResumeParent

LEMMA ActionGenuine ==
  ASSUME ByManagerOnly, NEW R, NEW c, NEW s,
         StatesGenuine(R, board), Genuine(R, c, s), HasAction(c, s),
         Action(c, s).do # "awaitOperation"
  PROVE  EffectsGenuine(R, ActionEffects(c, s))
<1> DEFINE a == Action(c, s)
<1>1. a.do \in ActionKinds
  BY EngineAssumptions DEF HasAction, Registered, Action
<1>2. c \in Restarts => a.do \notin {"operation", "iterate"} /\ "successful" \notin LeadsTo(a)
  BY WorkflowOfRestart
<1>3. CASE a.do = "clear"
  BY <1>3, ParentGenuine DEF ActionEffects
<1>4. CASE a.do = "move"
  <2>1. Genuine(R, c, Goto(s, a.to))
    BY <1>2, <1>4, GotoGenuine DEF LeadsTo
  <2> QED
    BY <1>4, <2>1, PublishGenuine DEF ActionEffects
<1>5. CASE a.do = "builtin"
  <2>1. Genuine(R, c, Goto(s, a.onExec)) /\ Genuine(R, c, Goto(s, "scheduled"))
    BY <1>2, <1>5, GotoGenuine DEF LeadsTo
  <2>2. EffectsGenuine(R, PublishState(c, Goto(s, a.onExec)))
    BY <2>1, PublishGenuine
  <2>3. EffectsGenuine(R, <<Effect("dispatch", c, Goto(s, "scheduled"))>>)
    BY <2>1, PlainEffect, EffectsFew
  <2> QED
    BY <1>5, <2>2, <2>3, EffectsJoined DEF ActionEffects
<1>6. CASE a.do = "legacyBuiltin"
  <2>1. EffectsGenuine(R, <<Effect("dispatch", c, s)>>)
    BY PlainEffect, EffectsFew
  <2> QED
    BY <1>6, <2>1 DEF ActionEffects
<1>7. CASE a.do = "script"
  <2>1. EffectGenuine(R, Effect("script", c, s))
    BY <1>7 DEF EffectGenuine, Effect
  <2> QED
    BY <1>7, <2>1, EffectsFew DEF ActionEffects
<1>8. CASE a.do = "background"
  <2>1. Genuine(R, c, Goto(s, a.onExec))
    BY <1>2, <1>8, GotoGenuine DEF LeadsTo
  <2>2. EffectsGenuine(R, PublishState(c, Goto(s, a.onExec)))
    BY <2>1, PublishGenuine
  <2>3. EffectsGenuine(R, <<Effect("background", c, s)>>)
    BY PlainEffect, EffectsFew
  <2> QED
    BY <1>8, <2>2, <2>3, EffectsJoined DEF ActionEffects, BackgroundEffects
<1>9. CASE a.do = "awaitRestart"
  <2>1. EffectGenuine(R, Effect("sleep", c, s))
    BY <1>9 DEF EffectGenuine, Effect
  <2> QED
    BY <1>9, <2>1, EffectsFew DEF ActionEffects
<1>10. CASE a.do = "operation"
  <2>1. c \notin Restarts
    BY <1>2, <1>10
  <2>2. EffectsGenuine(R, InvokeEffects(c, s))
    BY <2>1, InvokeGenuine
  <2>3. EffectGenuine(R, Effect("inputScript", c, s))
    BY <2>1 DEF EffectGenuine, Effect
  <2>4. EffectsGenuine(R, <<Effect("inputScript", c, s)>>)
    BY <2>3, EffectsFew
  <2> QED
    BY <1>10, <2>2, <2>4 DEF ActionEffects
<1>11. CASE a.do = "iterate"
  <2>1. Genuine(R, c, Iterate(c, s, a))
    BY <1>2, <1>11, OthersGenuine
  <2>2. EffectsGenuine(R, PublishState(c, Iterate(c, s, a)))
    BY <2>1, PublishGenuine
  <2> QED
    BY <1>11, <2>2 DEF ActionEffects
<1> QED
  BY <1>1, <1>3, <1>4, <1>5, <1>6, <1>7, <1>8, <1>9, <1>10, <1>11 DEF ActionKinds

\* A command that awaits a sub-command is no restart, and a sub-command is cleared.
LEMMA AwaitGenuine ==
  ASSUME ByManagerOnly, NEW R, NEW c, NEW s, NEW d \in SubCommands(c)
  PROVE  EffectsGenuine(R, AwaitEffects(c, s, d))
<1>1. c \notin Restarts
  BY DEF ByManagerOnly, SubCommands
<1>2. EffectsGenuine(R, PublishState(c, Completed(c, s, d)))
  BY <1>1, OthersGenuine, PublishGenuine
<1>3. EffectsGenuine(R, PublishState(d, Cleared))
  BY FixedGenuine, PublishGenuine
<1>4. EffectsGenuine(R, PublishState(c, Completed(c, s, d)) \o PublishState(d, Cleared))
  BY <1>2, <1>3, EffectsJoined
<1> QED
  BY <1>4, EffectsFew DEF AwaitEffects

\* process_command_update()
LEMMA ProcessGenuine ==
  ASSUME ByManagerOnly, NEW R, NEW c, NEW s, StatesGenuine(R, board), Genuine(R, c, s),
         NEW q \in ProcessEffects(c, s)
  PROVE  EffectsGenuine(R, q)
<1>1. q = <<>> \/ (HasAction(c, s) /\ Action(c, s).do # "awaitOperation" /\ q = ActionEffects(c, s))
        \/ \E d \in SubCommands(c) : q = AwaitEffects(c, s, d)
  BY DEF ProcessEffects
<1> QED
  BY <1>1, ActionGenuine, AwaitGenuine, EffectsFew

\* adapt_builtin_response() and finalize_builtin_command_update()
LEMMA AdaptedGenuine ==
  ASSUME ByManagerOnly, NEW R, NEW c, NEW r, StatesGenuine(R, board), Genuine(R, c, r)
  PROVE  EffectsGenuine(R, Finalize(c, Adapted(c, r)))
<1> DEFINE s == board[c]
           t == Adapted(c, r)
<1>2. ASSUME c \in Restarts PROVE Genuine(R, c, t)
  <2>1. Genuine(R, c, s)
    BY <1>2 DEF StatesGenuine, Restarts
  <2>2. r.status = "successful" => c \in R
    BY <1>2 DEF Genuine
  <2>3. \A st : (st = "successful" => c \in R) => Genuine(R, c, Goto(s, st))
    BY <2>1 DEF Genuine, Goto, State
  <2>4. ASSUME HasAction(c, s), Action(c, s).do \in {"awaitOperation", "legacyBuiltin"}
        PROVE  Action(c, s).onError # "successful"
    BY <1>2, <2>4, WorkflowOfRestart DEF LeadsTo
  <2> HIDE DEF s
  <2> QED
    BY <2>2, <2>3, <2>4 DEF Adapted, s
<1>3. Genuine(R, c, t)
  BY <1>2, OthersGenuine
<1>4. /\ EffectGenuine(R, Effect("save", c, t)) /\ EffectGenuine(R, Effect("publish", c, t))
      /\ EffectGenuine(R, Effect("process", c, t))
  BY <1>3, PlainEffect
<1> HIDE DEF t
<1>5. /\ EffectsGenuine(R, <<Effect("save", c, t), Effect("publish", c, t)>>)
      /\ EffectsGenuine(R, <<Effect("process", c, t)>>) /\ EffectsGenuine(R, <<>>)
  BY <1>4, EffectsFew
<1>6. EffectsGenuine(R, Finalize(c, t))
  BY <1>5, EffectsJoined DEF Finalize
<1> QED
  BY <1>6 DEF t

\* resume_command()
LEMMA ResumedGenuine ==
  ASSUME ByManagerOnly, NEW R, NEW c, NEW s, Genuine(R, c, s)
  PROVE  Genuine(R, c, Resumed(c, s))
<1>1. ASSUME c \in Restarts, HasAction(c, s), Action(c, s).do = "awaitRestart"
      PROVE  Action(c, s).onSuccess # "successful"
  BY <1>1, WorkflowOfRestart DEF LeadsTo
<1> QED
  BY <1>1, GotoGenuine DEF Resumed

------------------------------------------------------------------------------
(* Each step of the agent keeps to genuine restarts.                           *)

LEMMA UpdateGenuine ==
  ASSUME NEW R, NEW f, NEW c, NEW s, StatesGenuine(R, f), Genuine(R, c, s)
  PROVE  StatesGenuine(R, [f EXCEPT ![c] = s])
  BY DEF StatesGenuine

\* A step by which no device is restarted, and which leaves the managers alone.
LEMMA EngineFrame ==
  ASSUME WitnessGenuine, UNCHANGED <<up, pending, witness, manager, Explained>>
  PROVE  WitnessGenuine'
  BY DEF WitnessGenuine, Restarts

LEMMA RequestGenuine ==
  ASSUME RestartInv, NEW c, Request(c) \/ ClearRequest(c)
  PROVE  RestartInv'
<1> USE DEF RestartInv
<1>1. PICK s \in {InitState, Cleared} :
        retained' = [retained EXCEPT ![c] = s] /\ net' = Append(net, Mqtt(c, s))
  BY DEF Request, ClearRequest
<1>2. /\ UNCHANGED <<disk, up, engineVars, managerVars, Explained>>
  BY DEF Request, ClearRequest, history, Explained
<1>3. Genuine(Explained, c, s) /\ MessageGenuine(Explained, Mqtt(c, s))
  BY FixedGenuine DEF MessageGenuine, Mqtt
<1>4. StatesGenuine(Explained, retained') /\ MessagesGenuine(Explained, net')
  BY <1>1, <1>3, UpdateGenuine, QueueAppended
<1>5. WitnessGenuine'
  BY <1>2, EngineFrame DEF managerVars
<1> QED
  BY <1>2, <1>4, <1>5 DEF engineVars

LEMMA DeliverGenuine ==
  ASSUME RestartInv, Deliver
  PROVE  RestartInv'
<1> USE DEF RestartInv
<1>1. MessagesGenuine(Explained, net') /\ MessageGenuine(Explained, Head(net))
  BY QueueTail DEF Deliver
<1>2. MessagesGenuine(Explained, input')
  BY <1>1, QueueAppended DEF Deliver
<1>3. UNCHANGED <<retained, disk, up, board, todo, managerVars, Explained>>
  BY DEF Deliver, history, Explained
<1>4. WitnessGenuine'
  BY <1>3, EngineFrame DEF managerVars
<1> QED
  BY <1>1, <1>2, <1>3, <1>4

LEMMA OnMqttGenuine ==
  ASSUME RestartInv, OnMqtt
  PROVE  RestartInv'
<1> USE DEF RestartInv
<1> DEFINE c == Head(input).cmd
           s == Head(input).state
<1>1. MessagesGenuine(Explained, input') /\ Genuine(Explained, c, s)
  BY QueueTail DEF OnMqtt, Take, MessageGenuine
<1>2. UNCHANGED <<retained, net, disk, up, managerVars, Explained>>
  BY DEF OnMqtt, history, Explained
<1>3. board' = [board EXCEPT ![c] = s] \/ board' = board
  BY DEF OnMqtt
<1>4. StatesGenuine(Explained, board')
  BY <1>1, <1>3, UpdateGenuine
<1>5. todo' \in {NewRequest(c), <<Effect("save", c, s)>>, <<>>}
  BY DEF OnMqtt
<1>6. EffectsGenuine(Explained, NewRequest(c))
  BY FixedGenuine, PlainEffect, EffectsFew DEF NewRequest
<1>7. EffectsGenuine(Explained, <<Effect("save", c, s)>>)
  BY <1>1, PlainEffect, EffectsFew
<1>8. EffectsGenuine(Explained, todo')
  BY <1>5, <1>6, <1>7, EffectsFew
<1>9. WitnessGenuine'
  BY <1>2, EngineFrame DEF managerVars
<1> QED
  BY <1>1, <1>2, <1>4, <1>8, <1>9

LEMMA OnInternalGenuine ==
  ASSUME ByManagerOnly, RestartInv, OnInternal
  PROVE  RestartInv'
<1> USE DEF RestartInv
<1> DEFINE c == Head(input).cmd
           s == Head(input).state
<1>1. MessagesGenuine(Explained, input') /\ Genuine(Explained, c, s)
  BY QueueTail DEF OnInternal, Take, MessageGenuine
<1>2. UNCHANGED <<retained, net, disk, up, board, managerVars, Explained>>
  BY DEF OnInternal, history, Explained
<1>3. EffectsGenuine(Explained, todo')
  BY <1>1, ProcessGenuine DEF OnInternal
<1>4. WitnessGenuine'
  BY <1>2, EngineFrame DEF managerVars
<1> QED
  BY <1>1, <1>2, <1>3, <1>4

LEMMA OnReplyGenuine ==
  ASSUME ByManagerOnly, RestartInv, OnReply
  PROVE  RestartInv'
<1> USE DEF RestartInv
<1> DEFINE c == Head(input).cmd
           s == Head(input).state
<1>1. MessagesGenuine(Explained, input') /\ Genuine(Explained, c, s)
  BY QueueTail DEF OnReply, Take, MessageGenuine
<1>2. UNCHANGED <<retained, net, disk, up, board, managerVars, Explained>>
  BY DEF OnReply, history, Explained
<1>3. EffectsGenuine(Explained, Finalize(c, Adapted(c, s)))
  BY <1>1, AdaptedGenuine
<1>4. EffectsGenuine(Explained, <<Effect("dispatch", c, s)>>)
  BY <1>1, PlainEffect, EffectsFew
<1>5. EffectsGenuine(Explained, todo')
  BY <1>3, <1>4 DEF OnReply
<1>6. WitnessGenuine'
  BY <1>2, EngineFrame DEF managerVars
<1> QED
  BY <1>1, <1>2, <1>5, <1>6

\* The next effect of a handler.
LEMMA NextEffect ==
  ASSUME RestartInv, NEW do, Step(do)
  PROVE  /\ EffectsGenuine(Explained, Tail(todo)) /\ EffectGenuine(Explained, Head(todo))
         /\ Genuine(Explained, Head(todo).cmd, Head(todo).state)
  BY QueueTail DEF RestartInv, Step, EffectGenuine

LEMMA SaveGenuine ==
  ASSUME RestartInv, Save \/ Send \/ PublishMessage \/ Dispatch \/ RunBackground
  PROVE  RestartInv'
<1> USE DEF RestartInv
<1> DEFINE c == Head(todo).cmd
           s == Head(todo).state
<1>1. PICK do : Step(do)
  BY DEF Save, Send, PublishMessage, Dispatch, RunBackground
<1>2. EffectsGenuine(Explained, Tail(todo)) /\ Genuine(Explained, c, s)
  BY <1>1, NextEffect
<1>3. /\ todo' = Tail(todo) /\ UNCHANGED <<up, pending, witness, manager, Explained>>
  BY DEF Save, Send, PublishMessage, Dispatch, RunBackground, managerVars, history, Explained
<1>4. StatesGenuine(Explained, [board EXCEPT ![c] = s]) /\ StatesGenuine(Explained, [retained EXCEPT ![c] = s])
  BY <1>2, UpdateGenuine
<1>5. MessageGenuine(Explained, Internal(c, s)) /\ MessageGenuine(Explained, Mqtt(c, s))
  BY <1>2 DEF MessageGenuine, Internal, Mqtt
<1>6. MessagesGenuine(Explained, Append(input, Internal(c, s))) /\ MessagesGenuine(Explained, Append(net, Mqtt(c, s)))
  BY <1>5, QueueAppended
<1>7. StatesGenuine(Explained, board') /\ StatesGenuine(Explained, disk') /\ StatesGenuine(Explained, retained')
  BY <1>4 DEF Save, Send, PublishMessage, Dispatch, RunBackground
<1>8. MessagesGenuine(Explained, input') /\ MessagesGenuine(Explained, net')
  BY <1>6 DEF Save, Send, PublishMessage, Dispatch, RunBackground
<1>9. WitnessGenuine'
  BY <1>3, EngineFrame
<1> QED
  BY <1>2, <1>3, <1>7, <1>8, <1>9

LEMMA ProcessingGenuine ==
  ASSUME ByManagerOnly, RestartInv, RunScript \/ RunInputScript \/ AwaitRestartTimeout \/ Process
  PROVE  RestartInv'
<1> DEFINE c == Head(todo).cmd
           s == Head(todo).state
<1>0. UNCHANGED <<retained, net, disk, up, board, input, managerVars, history>>
  <2>1. CASE RunScript
    BY <2>1 DEF RunScript
  <2>2. CASE RunInputScript
    BY <2>2 DEF RunInputScript
  <2>3. CASE AwaitRestartTimeout
    BY <2>3 DEF AwaitRestartTimeout
  <2>4. CASE Process
    BY <2>4 DEF Process
  <2> QED
    BY <2>1, <2>2, <2>3, <2>4
<1>1. UNCHANGED <<retained, net, disk, up, board, input, managerVars, Explained>>
  BY <1>0 DEF history, Explained
<1>2. WitnessGenuine'
  BY <1>1, EngineFrame DEF RestartInv, managerVars
<1>3. PICK do \in {"script", "inputScript", "sleep", "process"} : Step(do)
  <2>1. CASE RunScript
    BY <2>1 DEF RunScript
  <2>2. CASE RunInputScript
    BY <2>2 DEF RunInputScript
  <2>3. CASE AwaitRestartTimeout
    BY <2>3 DEF AwaitRestartTimeout
  <2>4. CASE Process
    BY <2>4 DEF Process
  <2> QED
    BY <2>1, <2>2, <2>3, <2>4
<1>4. EffectsGenuine(Explained, Tail(todo)) /\ EffectGenuine(Explained, Head(todo)) /\ Genuine(Explained, c, s)
  BY <1>3, NextEffect
<1>5. ASSUME NEW q, todo' = q \o Tail(todo), EffectsGenuine(Explained, q)
      PROVE  RestartInv'
  <2>1. EffectsGenuine(Explained, todo')
    BY <1>4, <1>5, EffectsJoined
  <2> QED
    BY <1>1, <1>2, <2>1 DEF RestartInv
<1>6. CASE RunScript
  <2>1. PICK st \in Action(c, s).to : todo' = PublishState(c, Goto(s, st)) \o Tail(todo)
    BY <1>6 DEF RunScript
  <2>2. ASSUME c \in Restarts PROVE st # "successful"
    <3>1. HasAction(c, s) /\ Action(c, s).do = "script"
      BY <1>4, <1>6, <2>2 DEF RunScript, EffectGenuine, Step
    <3> QED
      BY <2>1, <2>2, <3>1, WorkflowOfRestart DEF LeadsTo
  <2>3. Genuine(Explained, c, Goto(s, st))
    BY <1>4, <2>2, GotoGenuine
  <2>4. EffectsGenuine(Explained, PublishState(c, Goto(s, st)))
    BY <2>3, PublishGenuine
  <2> QED
    BY <1>5, <2>1, <2>4
<1>7. CASE RunInputScript
  <2>1. c \notin Restarts
    BY <1>4, <1>7 DEF RunInputScript, EffectGenuine, Step
  <2>2. EffectsGenuine(Explained, InvokeEffects(c, s))
    BY <2>1, InvokeGenuine
  <2>3. EffectsGenuine(Explained, PublishState(c, Goto(s, "failed")))
    BY <2>1, OthersGenuine, PublishGenuine
  <2>4. \/ todo' = InvokeEffects(c, s) \o Tail(todo)
        \/ todo' = PublishState(c, Goto(s, "failed")) \o Tail(todo)
    BY <1>7 DEF RunInputScript
  <2> QED
    BY <1>5, <2>2, <2>3, <2>4
<1>8. CASE AwaitRestartTimeout
  <2>1. ASSUME c \in Restarts PROVE Action(c, s).onTimeout # "successful"
    <3>1. HasAction(c, s) /\ Action(c, s).do = "awaitRestart"
      BY <1>4, <1>8, <2>1 DEF AwaitRestartTimeout, EffectGenuine, Step
    <3> QED
      BY <2>1, <3>1, WorkflowOfRestart DEF LeadsTo
  <2>2. Genuine(Explained, c, Goto(s, Action(c, s).onTimeout))
    BY <1>4, <2>1, GotoGenuine
  <2>3. EffectsGenuine(Explained, PublishState(c, Goto(s, Action(c, s).onTimeout)))
    BY <2>2, PublishGenuine
  <2>4. todo' = PublishState(c, Goto(s, Action(c, s).onTimeout)) \o Tail(todo)
    BY <1>8 DEF AwaitRestartTimeout
  <2> QED
    BY <1>5, <2>3, <2>4
<1>9. CASE Process
  <2>1. PICK q \in ProcessEffects(c, s) : todo' = q \o Tail(todo)
    BY <1>9 DEF Process
  <2>2. EffectsGenuine(Explained, q)
    BY <1>4, <2>1, ProcessGenuine DEF RestartInv
  <2> QED
    BY <1>5, <2>1, <2>2
<1> QED
  BY <1>6, <1>7, <1>8, <1>9

\* A step of a manager starts no recovery, and reports the success of a restart only
\* when it recovers one without a file dated since the last boot.
LEMMA ManagerSteps ==
  ASSUME NEW c \in Cmds, Manager(c)
  PROVE  /\ up /\ UNCHANGED <<retained, net, disk, up, board, todo, Explained>>
         /\ witness' \in {witness, "since"}
         /\ \/ manager' = manager
            \/ \E v \in {"idle", "preparing", "working", "closing", "reporting"} :
                 /\ manager' = [manager EXCEPT ![c] = v]
                 /\ v = "working" /\ OpOf[c] \in Rebooting => witness' = "since"
         /\ \/ input' = input
            \/ \E st \in Finished \cup {"executing"} :
                 /\ input' = Append(input, Reply(c, st))
                 /\ st = "successful" /\ OpOf[c] \in Rebooting =>
                      manager[c] = "recovering" /\ witness # "since"
<1> USE DEF TakeRequest, ManagerReplies, history, Explained, engineVars, Finished
<1>1. CASE ManagerStart(c)
  BY <1>1 DEF ManagerStart
<1>2. CASE ManagerPrepares(c)
  BY <1>2 DEF ManagerPrepares
<1>3. CASE ManagerReady(c)
  BY <1>3 DEF ManagerReady
<1>4. CASE ManagerExecute(c)
  BY <1>4, EngineAssumptions DEF ManagerExecute, Executes
<1>5. CASE ManagerIgnores(c) \/ ManagerGivesUp(c)
  BY <1>5 DEF ManagerIgnores, ManagerGivesUp
<1>6. CASE ManagerRefuses(c)
  BY <1>6 DEF ManagerRefuses
<1>7. CASE ManagerUnready(c)
  BY <1>7 DEF ManagerUnready
<1>8. CASE ManagerClose(c)
  BY <1>8 DEF ManagerClose
<1>9. CASE ManagerAborts(c)
  BY <1>9 DEF ManagerAborts
<1>10. CASE ManagerReports(c)
  BY <1>10 DEF ManagerReports
<1>11. CASE \E status \in Finished : ManagerDone(c, status)
  BY <1>11 DEF ManagerDone, EndsByItself
<1>12. CASE \E status \in Finished : ManagerRecovers(c, status)
  BY <1>12 DEF ManagerRecovers, HasRebooted, Finished
<1> QED
  BY <1>1, <1>2, <1>3, <1>4, <1>5, <1>6, <1>7, <1>8, <1>9, <1>10, <1>11, <1>12 DEF Manager

LEMMA ManagerGenuine ==
  ASSUME RestartInv, NEW c \in Cmds, Manager(c)
  PROVE  RestartInv'
<1> USE DEF RestartInv
<1>1. /\ up /\ UNCHANGED <<retained, net, disk, up, board, todo, Explained>>
      /\ witness' \in {witness, "since"}
  BY ManagerSteps
<1>2. WitnessGenuine'
  <2>1. /\ DOMAIN manager' = DOMAIN manager
        /\ \A d : manager'[d] = "recovering" => manager[d] = "recovering"
        /\ \A d \in Restarts : manager'[d] = "working" => manager[d] = "working" \/ witness' = "since"
    <3>1. CASE manager' = manager
      BY <3>1
    <3>2. CASE \E v \in {"idle", "preparing", "working", "closing", "reporting"} :
                 /\ manager' = [manager EXCEPT ![c] = v]
                 /\ v = "working" /\ OpOf[c] \in Rebooting => witness' = "since"
      BY <3>2 DEF WitnessGenuine, Restarts
    <3> QED
      BY <3>1, <3>2, ManagerSteps
  <2> QED
    BY <1>1, <2>1 DEF WitnessGenuine, Restarts
<1>3. MessagesGenuine(Explained, input')
  <2>1. CASE input' = input
    BY <2>1
  <2>2. ASSUME NEW st, input' = Append(input, Reply(c, st)),
               st = "successful" /\ OpOf[c] \in Rebooting =>
                 manager[c] = "recovering" /\ witness # "since"
        PROVE  MessagesGenuine(Explained, input')
    <3>1. c \in Restarts /\ st = "successful" => c \in Explained
      BY <1>1, <2>2 DEF WitnessGenuine, Restarts
    <3>2. MessageGenuine(Explained, Reply(c, st))
      BY <3>1 DEF MessageGenuine, Reply, Genuine, State
    <3> QED
      BY <2>2, <3>2, QueueAppended
  <2> QED
    BY <2>1, <2>2, ManagerSteps
<1> QED
  BY <1>1, <1>2, <1>3

------------------------------------------------------------------------------
(* The agent stops and starts again.                                           *)

LEMMA CrashGenuine ==
  ASSUME RestartInv, NEW kind \in {"process", "device"}, Crash(kind)
  PROVE  RestartInv'
<1> USE DEF RestartInv
<1>1. Explained \subseteq Explained' /\ UNCHANGED <<retained, net, disk, pending>>
  BY DEF Crash, Explained
<1>2. /\ StatesGenuine(Explained', retained') /\ StatesGenuine(Explained', disk')
      /\ MessagesGenuine(Explained', net')
  BY <1>1, GenuineGrows
<1>3. StatesGenuine(Explained', board')
  BY FixedGenuine DEF Crash, StatesGenuine
<1>4. MessagesGenuine(Explained', input') /\ EffectsGenuine(Explained', todo')
  BY DEF Crash, MessagesGenuine, EffectsGenuine
<1>5. WitnessGenuine'
  <2>1. ~up' /\ manager' = [c \in Cmds |-> "idle"]
    BY DEF Crash
  <2>2. ASSUME NEW c \in Restarts, c \in pending PROVE witness' = "since" \/ c \in Explained'
    <3>1. CASE kind = "device"
      BY <2>2, <3>1 DEF Crash, Explained
    <3>2. CASE kind = "process"
      <4>1. early' = early \cup Undated /\ witness' = witness
        BY <3>2 DEF Crash
      <4> QED
        BY <2>2, <4>1 DEF Undated, Restarts, Explained
    <3> QED
      BY <3>1, <3>2
  <2> QED
    BY <1>1, <2>1, <2>2 DEF WitnessGenuine, Restarts
<1> QED
  BY <1>2, <1>3, <1>4, <1>5

\* The commands which were in progress are resumed.
LEMMA ResumeGenuine ==
  ASSUME ByManagerOnly, NEW R, StatesGenuine(R, disk), NEW q, Len(q) \in Nat
  PROVE  EffectsGenuine(R, ResumeEffects(q))
<1> DEFINE n == 2 * Len(q)
           r == ResumeEffects(q)
           e(i) == Effect(IF i % 2 = 1 THEN "publish" ELSE "process", q[(i + 1) \div 2],
                          Resumed(q[(i + 1) \div 2], disk[q[(i + 1) \div 2]]))
           S == {e(i) : i \in 1..n}
<1>1. \A i \in 1..n : EffectGenuine(R, e(i))
  <2> TAKE i \in 1..n
  <2> DEFINE c == q[(i + 1) \div 2]
  <2>1. Genuine(R, c, disk[c])
    BY DEF StatesGenuine, Genuine, Restarts
  <2> HIDE DEF c
  <2>2. Genuine(R, c, Resumed(c, disk[c]))
    BY <2>1, ResumedGenuine
  <2>3. EffectGenuine(R, Effect(IF i % 2 = 1 THEN "publish" ELSE "process", c, Resumed(c, disk[c])))
    BY <2>2, PlainEffect
  <2> QED
    BY <2>3 DEF c
<1>2. r = [i \in 1..n |-> e(i)]
  BY DEF ResumeEffects
<1>3. n \in Nat /\ \A i \in 1..n : e(i) \in S
  OBVIOUS
<1> HIDE DEF n, S, r, e
<1>4. r \in Seq(S) /\ DOMAIN r = 1..n /\ \A i \in 1..n : r[i] = e(i)
  BY <1>2, <1>3
<1>5. r \in Seq(Contents(r))
  BY <1>4, SeqOfContents
<1> QED
  BY <1>1, <1>4, <1>5 DEF EffectsGenuine, r

\* The retained requests are received again.
LEMMA RetainedGenuine ==
  ASSUME NEW R, NEW p, MessagesGenuine(R, p), NEW q, Len(q) \in Nat
  PROVE  MessagesGenuine(R, p \o [i \in 1..Len(q) |-> Mqtt(q[i], InitState)])
<1> DEFINE n == Len(q)
           m(i) == Mqtt(q[i], InitState)
           t == [i \in 1..n |-> m(i)]
           S == Contents(p) \cup {m(i) : i \in 1..n}
           r == p \o t
<1>1. \A i \in 1..n : MessageGenuine(R, m(i))
  BY FixedGenuine DEF MessageGenuine, Mqtt
<1>2. n \in Nat /\ \A i \in 1..n : m(i) \in S
  OBVIOUS
<1>3. Contents(p) \subseteq S /\ p \in Seq(Contents(p))
  BY DEF MessagesGenuine
<1> HIDE DEF n, S, m
<1>4. t \in Seq(S) /\ DOMAIN t = 1..n /\ \A i \in 1..n : t[i] = m(i)
  BY <1>2
<1>5. p \in Seq(S)
  BY <1>3, SeqMonotonic
<1> HIDE DEF t
<1>t. t \in Seq(S)
  BY <1>4
<1>6. /\ r \in Seq(S)
      /\ \A i \in DOMAIN r : (i \in DOMAIN p /\ r[i] = p[i]) \/ (i - Len(p) \in DOMAIN t /\ r[i] = t[i - Len(p)])
  BY <1>t, <1>5
<1> HIDE DEF r
<1>7. r \in Seq(Contents(r))
  BY <1>6, SeqOfContents
<1>8. \A i \in DOMAIN r : MessageGenuine(R, r[i])
  BY <1>1, <1>4, <1>6 DEF MessagesGenuine
<1>9. MessagesGenuine(R, r)
  BY <1>7, <1>8 DEF MessagesGenuine
<1> QED
  BY <1>9 DEF r, t, m, n

LEMMA OrdersFinite ==
  ASSUME NEW S \in SUBSET Cmds, NEW q \in Orders(S)
  PROVE  Len(q) \in Nat
<1>1. IsFiniteSet(S)
  BY EngineAssumptions, FS_Subset
<1>2. Cardinality(S) \in Nat
  BY <1>1, FS_CardinalityType
<1>3. q \in Seq(S)
  BY <1>2 DEF Orders
<1> QED
  BY <1>3

LEMMA AgentRestartGenuine ==
  ASSUME ByManagerOnly, RestartInv, AgentRestart
  PROVE  RestartInv'
<1> USE DEF RestartInv
<1>1. UNCHANGED <<retained, disk, input, pending, witness, Explained>> /\ board' = disk /\ up' /\ ~up
  BY DEF AgentRestart, history, Explained, LoadedBoard
<1>2. EffectsGenuine(Explained, todo')
  <2>1. PICK q \in Orders({c \in Cmds : disk[c] # Cleared}) : todo' = ResumeEffects(q)
    BY DEF AgentRestart
  <2>2. Len(q) \in Nat
    BY OrdersFinite
  <2> QED
    BY <2>1, <2>2, ResumeGenuine
<1>3. MessagesGenuine(Explained, net')
  <2>1. PICK q \in Orders({c \in Cmds : retained[c] = InitState}) :
          net' = net \o [i \in 1..Len(q) |-> Mqtt(q[i], InitState)]
    BY DEF AgentRestart
  <2>2. Len(q) \in Nat
    BY OrdersFinite
  <2> QED
    BY <2>1, <2>2, RetainedGenuine
<1>4. WitnessGenuine'
  <2>1. manager' = [c \in Cmds |-> IF c \in pending THEN "recovering" ELSE "idle"]
    BY DEF AgentRestart
  <2> QED
    BY <1>1, <2>1 DEF WitnessGenuine, Restarts
<1> QED
  BY <1>1, <1>2, <1>3, <1>4

------------------------------------------------------------------------------

LEMMA RestartInvInit ==
  ASSUME EngineInit
  PROVE  RestartInv
<1>1. \A R : StatesGenuine(R, [c \in Cmds |-> Cleared])
  BY FixedGenuine DEF StatesGenuine
<1>2. \A R : MessagesGenuine(R, <<>>) /\ EffectsGenuine(R, <<>>)
  BY DEF MessagesGenuine, EffectsGenuine
<1>3. WitnessGenuine
  BY DEF EngineInit, WitnessGenuine, Restarts
<1> QED
  BY <1>1, <1>2, <1>3 DEF EngineInit, RestartInv

LEMMA RestartInvStep ==
  ASSUME ByManagerOnly, RestartInv, [EngineNext]_workflowVars
  PROVE  RestartInv'
<1>1. ASSUME NEW c \in Cmds, Request(c) \/ ClearRequest(c) PROVE RestartInv'
  BY <1>1, RequestGenuine
<1>2. ASSUME NEW c \in Cmds, Manager(c) PROVE RestartInv'
  BY <1>2, ManagerGenuine
<1>3. CASE Deliver
  BY <1>3, DeliverGenuine
<1>4. CASE WorkflowActor
  BY <1>4, OnMqttGenuine, OnInternalGenuine, OnReplyGenuine, SaveGenuine, ProcessingGenuine
     DEF WorkflowActor
<1>5. CASE AgentRestart
  BY <1>5, AgentRestartGenuine
<1>6. ASSUME NEW kind \in {"process", "device"}, Crash(kind) PROVE RestartInv'
  BY <1>6, CrashGenuine
<1>7. CASE UNCHANGED workflowVars
  <2>1. UNCHANGED <<retained, net, disk, up, board, input, todo, pending, witness, manager, Explained>>
    BY <1>7 DEF workflowVars, engineVars, managerVars, history, Explained
  <2> QED
    BY <2>1, EngineFrame DEF RestartInv
<1> QED
  BY <1>1, <1>2, <1>3, <1>4, <1>5, <1>6, <1>7 DEF EngineNext

\* A device restart is reported as successful only if the device has been restarted
\* since the request was persisted, or the agent alone has been stopped while this
\* request had no dated file, which is never so once the restart is launched: whatever
\* the workflow of the restart does around its manager, and wherever the agent or the
\* device stops, provided that the workflow takes its success from the manager.
THEOREM RestartsAreGenuine ==
  ASSUME ByManagerOnly
  PROVE  EngineSpec => []RestartNotFaked
<1>1. EngineInit => RestartInv
  BY RestartInvInit
<1>2. RestartInv /\ [EngineNext]_workflowVars => RestartInv'
  BY RestartInvStep
<1>3. RestartInv => RestartNotFaked
  BY DEF RestartInv, StatesGenuine, Genuine, Restarts, RestartNotFaked, WitnessGenuine, Explained
<1> QED
  BY <1>1, <1>2, <1>3, PTL DEF EngineSpec

==============================================================================
