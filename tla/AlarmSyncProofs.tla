--------------------------- MODULE AlarmSyncProofs ---------------------------
(* For any alarms, payloads, changes and crashes: a start of the mapper sends   *)
(* the cloud no alarm it already has, but for those a crash has separated from  *)
(* their copy, and those whose copies come after the end of the sync window.    *)
EXTENDS AlarmSync, SelectionTheorems

Values == Payloads \cup {Clear}
Received == [on : {"alarm", "copy"}, id : Alarms, payload : Values]
Sent == [on : {"cloud", "copy"}, id : Alarms, payload : Values]

\* The alarm at position i of a queue is a copy, resp. the last copy of its alarm.
IsCopy(q, i, a) == q[i].on = "copy" /\ q[i].id = a
LastCopy(q, i) ==
  q[i].on = "copy" /\ \A j \in DOMAIN q : IsCopy(q, j, q[i].id) => j <= i

\* Nothing is published while the mapper is down or collects what it is replayed.
Silent == mapper # "synced" => outbox = <<>> /\ todo = {}
Forgotten == mapper = "down" => old = NoneSeen

\* Each alarm for the cloud is followed by its copy.
Followed ==
  \A i \in DOMAIN outbox :
    /\ outbox[i].on = "cloud" =>
         i + 1 \in DOMAIN outbox /\ outbox[i + 1] = Copy(outbox[i].id, outbox[i].payload)
    /\ outbox[i].on = "copy" /\ i # 1 => outbox[i - 1] = Cloud(outbox[i].id, outbox[i].payload)

\* The copies are what the cloud knows, but for the ones which have been lost, and the
\* one which is next to be sent.
InJournal(a) == copies[a] = cloud[a] \/ a \in torn
Journal ==
  /\ outbox = <<>> \/ Head(outbox).on = "cloud" => \A a \in Alarms : InJournal(a)
  /\ outbox # <<>> /\ Head(outbox).on = "copy" =>
       /\ cloud[Head(outbox).id] = Head(outbox).payload
       /\ \A a \in Alarms : a # Head(outbox).id => InJournal(a)

\* The last copy of an alarm on its way to the mapper is the retained one.
CopiesInOrder ==
  \A i \in DOMAIN inbox : LastCopy(inbox, i) => inbox[i].payload = copies[inbox[i].id]

\* The copies which are not on their way any more have been collected.
Known(a) == old[a] = copies[a] \/ (old[a] = Unseen /\ copies[a] = Clear)
Collected ==
  mapper = "syncing" =>
    \A a \in Alarms : (\A i \in DOMAIN inbox : ~IsCopy(inbox, i, a)) => Known(a)

\* What has been missed is news to the cloud, until it is published.
News ==
  \A m \in todo :
    /\ m.payload = Clear \/ cloud[m.id] # m.payload \/ m.id \in torn \cup late
    /\ \A n \in todo : m.id = n.id => m = n
    /\ \A i \in DOMAIN outbox : outbox[i].id # m.id

IndInv == TypeOK /\ Silent /\ Forgotten /\ Followed /\ Journal /\ CopiesInOrder /\ Collected /\ News

------------------------------------------------------------------------------
(* The queues.                                                                 *)

LEMMA TailElements ==
  ASSUME NEW S, NEW q \in Seq(S), q # <<>>
  PROVE  /\ Head(q) = q[1] /\ Head(q) \in S /\ Tail(q) \in Seq(S)
         /\ Len(q) \in Nat \ {0} /\ DOMAIN q = 1 .. Len(q)
         /\ Len(Tail(q)) = Len(q) - 1 /\ DOMAIN Tail(q) = 1 .. Len(q) - 1
         /\ \A i \in 1 .. Len(q) - 1 : i + 1 \in 1 .. Len(q) /\ Tail(q)[i] = q[i + 1]
BY HeadTailProperties

LEMMA AppendElements ==
  ASSUME NEW S, NEW q \in Seq(S), NEW x \in S
  PROVE  /\ Append(q, x) \in Seq(S) /\ Len(q) \in Nat /\ DOMAIN q = 1 .. Len(q)
         /\ DOMAIN Append(q, x) = 1 .. Len(q) + 1
         /\ \A i \in 1 .. Len(q) + 1 : i \in 1 .. Len(q) \/ i = Len(q) + 1
         /\ \A i \in 1 .. Len(q) : i \in 1 .. Len(q) + 1 /\ Append(q, x)[i] = q[i]
         /\ Append(q, x)[Len(q) + 1] = x
<1>1. /\ Append(q, x) \in Seq(S) /\ Len(q) \in Nat /\ DOMAIN q = 1 .. Len(q)
      /\ DOMAIN Append(q, x) = 1 .. Len(q) + 1
      /\ \A i \in 1 .. Len(q) : Append(q, x)[i] = q[i]
      /\ Append(q, x)[Len(q) + 1] = x
  BY AppendProperties
<1>2. /\ \A i \in 1 .. Len(q) + 1 : i \in 1 .. Len(q) \/ i = Len(q) + 1
      /\ \A i \in 1 .. Len(q) : i \in 1 .. Len(q) + 1
  BY <1>1
<1> QED
  BY <1>1, <1>2

\* A received alarm changes nothing to the copies on their way.
LEMMA AlarmAppended ==
  ASSUME TypeOK, CopiesInOrder, Collected, NEW m \in Received, m.on = "alarm",
         inbox' = Append(inbox, m), UNCHANGED <<copies, old, mapper>>
  PROVE  CopiesInOrder' /\ Collected'
<1>1. inbox \in Seq(Received)
  BY DEF TypeOK, Received, Values
<1>2. /\ Len(inbox) \in Nat /\ DOMAIN inbox = 1 .. Len(inbox) /\ DOMAIN inbox' = 1 .. Len(inbox) + 1
      /\ \A i \in 1 .. Len(inbox) + 1 : i \in 1 .. Len(inbox) \/ i = Len(inbox) + 1
      /\ \A i \in 1 .. Len(inbox) : i \in 1 .. Len(inbox) + 1 /\ inbox'[i] = inbox[i]
      /\ inbox'[Len(inbox) + 1] = m
  BY <1>1, AppendElements
<1>3. /\ DOMAIN inbox \subseteq DOMAIN inbox'
      /\ \A i \in DOMAIN inbox : inbox'[i] = inbox[i]
      /\ \A i \in DOMAIN inbox' : inbox'[i].on = "copy" => i \in DOMAIN inbox
  BY <1>2
<1>4. CopiesInOrder'
  BY <1>3 DEF CopiesInOrder, LastCopy, IsCopy
<1>5. Collected'
  BY <1>3 DEF Collected, IsCopy, Known
<1> QED
  BY <1>4, <1>5

\* An alarm and its copy are published after the others.
LEMMA ConvertedAppended ==
  ASSUME TypeOK, Followed, Journal, NEW m, m.id \in Alarms, m.payload \in Values,
         outbox' = outbox \o Converted(m), UNCHANGED <<copies, cloud, torn>>
  PROVE  /\ outbox' \in Seq(Sent) /\ Followed' /\ Journal'
         /\ \A i \in DOMAIN outbox' : outbox'[i].id = m.id \/ (i \in DOMAIN outbox /\ outbox'[i] = outbox[i])
<1>1. outbox \in Seq(Sent) /\ Len(outbox) \in Nat /\ DOMAIN outbox = 1 .. Len(outbox)
  <2>1. outbox \in Seq(Sent)
    BY DEF TypeOK, Sent, Values
  <2> QED
    BY <2>1, LenProperties
<1>2. CASE m.payload \in Malformed
  <2>1. outbox' = outbox
    BY <1>1, <1>2 DEF Converted
  <2> QED
    BY <1>1, <2>1 DEF Followed, Journal, InJournal
<1>3. CASE m.payload \notin Malformed
  <2> DEFINE c == Cloud(m.id, m.payload)
             d == Copy(m.id, m.payload)
             n == Len(outbox)
  <2>1. c \in Sent /\ d \in Sent /\ c.on = "cloud" /\ d.on = "copy" /\ c.id = m.id /\ d.id = m.id
        /\ c.payload = m.payload /\ d.payload = m.payload
    BY DEF Sent, Cloud, Copy
  <2>2. outbox' = outbox \o <<c, d>>
    BY <1>3 DEF Converted
  <2>3. d = Copy(c.id, c.payload) /\ c = Cloud(d.id, d.payload)
    BY <2>1
  <2> HIDE DEF c, d
  <2>4. /\ outbox' \in Seq(Sent) /\ DOMAIN outbox' = 1 .. n + 2
        /\ outbox'[n + 1] = c /\ outbox'[n + 2] = d
        /\ \A i \in 1 .. n : outbox'[i] = outbox[i]
    BY <1>1, <2>1, <2>2
  <2>5. /\ DOMAIN outbox' = 1 .. n + 2 /\ \A i \in 1 .. n : i \in 1 .. n + 2 /\ i + 1 \in 1 .. n + 2
        /\ \A i \in 1 .. n + 2 : i \in 1 .. n \/ i = n + 1 \/ i = n + 2
        /\ n + 1 \in 1 .. n + 2 /\ n + 2 \in 1 .. n + 2 /\ (n + 1) + 1 = n + 2 /\ (n + 2) - 1 = n + 1
    <3>1. n \in Nat
      BY <1>1
    <3> HIDE DEF n
    <3>2. \A i \in 1 .. n : i \in 1 .. n + 2 /\ i + 1 \in 1 .. n + 2
      BY <3>1
    <3>3. \A i \in 1 .. n + 2 : i \in 1 .. n \/ i = n + 1 \/ i = n + 2
      BY <3>1
    <3>4. n + 1 \in 1 .. n + 2 /\ n + 2 \in 1 .. n + 2 /\ (n + 1) + 1 = n + 2 /\ (n + 2) - 1 = n + 1
      BY <3>1
    <3> QED
      BY <2>4, <3>2, <3>3, <3>4
  <2>6. Followed'
    <3> SUFFICES ASSUME NEW i \in DOMAIN outbox'
                 PROVE  /\ outbox'[i].on = "cloud" =>
                             /\ i + 1 \in DOMAIN outbox'
                             /\ outbox'[i + 1] = Copy(outbox'[i].id, outbox'[i].payload)
                        /\ outbox'[i].on = "copy" /\ i # 1 =>
                             outbox'[i - 1] = Cloud(outbox'[i].id, outbox'[i].payload)
      BY DEF Followed
    <3>1. CASE i \in 1 .. n
      <4>1. outbox'[i] = outbox[i] /\ i \in DOMAIN outbox
        BY <1>1, <2>4, <3>1
      <4>2. outbox[i].on = "cloud" => i + 1 \in DOMAIN outbox /\ outbox'[i + 1] = outbox[i + 1]
        BY <1>1, <2>4, <4>1 DEF Followed
      <4>3. i # 1 => i - 1 \in DOMAIN outbox /\ outbox'[i - 1] = outbox[i - 1]
        BY <1>1, <2>4, <3>1
      <4> QED
        BY <1>1, <2>5, <4>1, <4>2, <4>3 DEF Followed
    <3>2. CASE i = n + 1
      BY <2>1, <2>3, <2>4, <2>5, <3>2
    <3>3. CASE i = n + 2
      BY <2>1, <2>3, <2>4, <2>5, <3>3
    <3> QED
      BY <2>5, <3>1, <3>2, <3>3
  <2>7. Journal'
    <3>1. CASE outbox = <<>>
      <4>1. Head(outbox') = c /\ outbox' # <<>>
        BY <2>2, <3>1
      <4> QED
        BY <2>1, <3>1, <4>1 DEF Journal, InJournal
    <3>2. CASE outbox # <<>>
      <4>1. 1 \in 1 .. n /\ Head(outbox) = outbox[1]
        BY <1>1, <3>2, TailElements
      <4>2. outbox' # <<>> /\ Head(outbox') = outbox'[1]
        BY <2>4, <2>5, <4>1, TailElements
      <4>3. Head(outbox') = Head(outbox)
        BY <2>4, <4>1, <4>2
      <4> QED
        BY <3>2, <4>2, <4>3 DEF Journal, InJournal
    <3> QED
      BY <3>1, <3>2
  <2> QED
    BY <1>1, <2>1, <2>4, <2>5, <2>6, <2>7
<1> QED
  BY <1>2, <1>3

------------------------------------------------------------------------------
(* The steps.                                                                  *)

LEMMA InitHolds == Init => IndInv
<1> SUFFICES ASSUME Init PROVE IndInv
  OBVIOUS
<1>1. TypeOK
  <2>1. raised \in [Alarms -> Payloads \cup {Clear}]
    BY DEF Init
  <2>2. pending \in [Alarms -> Payloads \cup {Clear, Unseen}] /\ old = pending
    BY DEF Init, NoneSeen
  <2>3. inbox = <<>> /\ outbox = <<>>
    BY DEF Init
  <2> QED
    BY <2>1, <2>2, <2>3, AlarmAssumptions, EmptySeq DEF Init, TypeOK
<1>2. DOMAIN inbox = {} /\ DOMAIN outbox = {}
  BY DEF Init
<1> QED
  BY <1>1, <1>2 DEF Init, IndInv, Silent, Forgotten, Followed, Journal, InJournal, CopiesInOrder,
                    Collected, News

LEMMA ChangeKeeps ==
  ASSUME IndInv, NEW a \in Alarms, NEW p \in Values, Change(a, p)
  PROVE  IndInv'
<1>1. inbox \in Seq(Received) /\ Alarm(a, p) \in Received /\ Alarm(a, p).on = "alarm"
  BY DEF IndInv, TypeOK, Received, Values, Alarm
<1>2. inbox' = inbox \/ inbox' = Append(inbox, Alarm(a, p))
  BY DEF Change
<1>3. inbox' \in Seq(Received)
  BY <1>1, <1>2, AppendElements
<1>4. CopiesInOrder' /\ Collected'
  <2>1. CASE inbox' = inbox
    BY <2>1 DEF IndInv, CopiesInOrder, Collected, Known, Change, converterVars
  <2>2. CASE inbox' = Append(inbox, Alarm(a, p))
    BY <1>1, <2>2, AlarmAppended DEF IndInv, Change, converterVars
  <2> QED
    BY <1>2, <2>1, <2>2
<1>5. raised' \in [Alarms -> Values] /\ changes' \in 0 .. MaxChanges
  BY AlarmAssumptions DEF Change, IndInv, TypeOK, Values
<1>6. TypeOK'
  BY <1>3, <1>5 DEF IndInv, TypeOK, Change, converterVars, historyVars, Received, Values
<1> QED
  BY <1>4, <1>6 DEF IndInv, Change, converterVars, historyVars, Silent, Forgotten, Followed, Journal,
                    InJournal, News

\* What is left in the outbox once its head is sent.
LEMMA OutboxTail ==
  ASSUME TypeOK, Followed, outbox # <<>>, outbox' = Tail(outbox)
  PROVE  /\ outbox \in Seq(Sent) /\ outbox' \in Seq(Sent) /\ Followed'
         /\ Head(outbox) \in Sent /\ Head(outbox) = outbox[1] /\ 1 \in DOMAIN outbox
         /\ outbox' # <<>> => 2 \in DOMAIN outbox /\ Head(outbox') = outbox[2]
         /\ 2 \in DOMAIN outbox => outbox' # <<>>
         /\ \A i \in DOMAIN outbox' : \E j \in DOMAIN outbox : outbox'[i] = outbox[j]
<1>1. outbox \in Seq(Sent)
  BY DEF TypeOK, Sent, Values
<1>2. /\ Head(outbox) = outbox[1] /\ Head(outbox) \in Sent /\ outbox' \in Seq(Sent)
      /\ Len(outbox) \in Nat \ {0} /\ DOMAIN outbox = 1 .. Len(outbox)
      /\ DOMAIN outbox' = 1 .. Len(outbox) - 1 /\ Len(outbox') = Len(outbox) - 1
      /\ \A i \in 1 .. Len(outbox) - 1 : i + 1 \in 1 .. Len(outbox) /\ outbox'[i] = outbox[i + 1]
  BY <1>1, TailElements
<1> DEFINE n == Len(outbox)
<1>3. n \in Nat \ {0}
  BY <1>2
<1>4. Followed'
  <2> SUFFICES ASSUME NEW i \in DOMAIN outbox'
               PROVE  /\ outbox'[i].on = "cloud" =>
                           /\ i + 1 \in DOMAIN outbox'
                           /\ outbox'[i + 1] = Copy(outbox'[i].id, outbox'[i].payload)
                      /\ outbox'[i].on = "copy" /\ i # 1 =>
                           outbox'[i - 1] = Cloud(outbox'[i].id, outbox'[i].payload)
    BY DEF Followed
  <2>1. i \in 1 .. n - 1 /\ i + 1 \in DOMAIN outbox /\ outbox'[i] = outbox[i + 1]
    BY <1>2
  <2>2. ASSUME outbox'[i].on = "cloud"
        PROVE  i + 1 \in DOMAIN outbox' /\ outbox'[i + 1] = Copy(outbox'[i].id, outbox'[i].payload)
    <3>1. /\ (i + 1) + 1 \in DOMAIN outbox
          /\ outbox[(i + 1) + 1] = Copy(outbox'[i].id, outbox'[i].payload)
      BY <2>1, <2>2 DEF Followed
    <3>2. i + 1 \in 1 .. n - 1
      BY <1>2, <1>3, <2>1, <3>1
    <3> QED
      BY <1>2, <3>1, <3>2
  <2>3. ASSUME outbox'[i].on = "copy", i # 1
        PROVE  outbox'[i - 1] = Cloud(outbox'[i].id, outbox'[i].payload)
    <3>1. i - 1 \in 1 .. n - 1 /\ (i - 1) + 1 = i /\ (i + 1) - 1 = i /\ i + 1 # 1
      BY <1>3, <2>1, <2>3
    <3>2. outbox[(i + 1) - 1] = Cloud(outbox'[i].id, outbox'[i].payload)
      BY <2>1, <2>3, <3>1 DEF Followed
    <3> QED
      BY <1>2, <3>1, <3>2
  <2> QED
    BY <2>2, <2>3
<1>5. outbox' # <<>> => 2 \in DOMAIN outbox /\ Head(outbox') = outbox[2]
  <2> SUFFICES ASSUME outbox' # <<>> PROVE 2 \in DOMAIN outbox /\ Head(outbox') = outbox[2]
    OBVIOUS
  <2>1. Head(outbox') = outbox'[1] /\ Len(outbox') \in Nat \ {0}
    BY <1>2, TailElements
  <2>2. 1 \in 1 .. n - 1 /\ 1 + 1 = 2
    BY <1>2, <1>3, <2>1
  <2> QED
    BY <1>2, <2>1, <2>2
<1>6. 2 \in DOMAIN outbox => outbox' # <<>>
  <2> SUFFICES ASSUME 2 \in DOMAIN outbox PROVE outbox' # <<>>
    OBVIOUS
  <2>1. Len(outbox') # 0
    BY <1>2
  <2> QED
    BY <2>1
<1>7. 1 \in DOMAIN outbox
  BY <1>2, <1>3
<1> QED
  BY <1>1, <1>2, <1>4, <1>5, <1>6, <1>7

LEMMA DeliverKeeps ==
  ASSUME IndInv, Deliver
  PROVE  IndInv'
<1> DEFINE m == Head(outbox)
<1>1. outbox # <<>> /\ outbox' = Tail(outbox) /\ TypeOK /\ Followed /\ mapper = "synced"
  BY DEF Deliver, IndInv, Silent
<1>2. /\ outbox \in Seq(Sent) /\ outbox' \in Seq(Sent) /\ Followed'
      /\ m \in Sent /\ m = outbox[1] /\ 1 \in DOMAIN outbox
      /\ outbox' # <<>> => 2 \in DOMAIN outbox /\ Head(outbox') = outbox[2]
      /\ 2 \in DOMAIN outbox => outbox' # <<>>
      /\ \A i \in DOMAIN outbox' : \E j \in DOMAIN outbox : outbox'[i] = outbox[j]
  BY <1>1, OutboxTail
<1> HIDE DEF m
<1>3. m.id \in Alarms /\ m.payload \in Values /\ m.on \in {"cloud", "copy"}
  BY <1>2 DEF Sent
<1>4. /\ UNCHANGED <<raised, mapper, pending, old, todo, late, changes, crashes>>
  BY DEF Deliver, converterVars, boundVars
<1>5. Silent' /\ Forgotten' /\ Collected'
  BY <1>1, <1>4 DEF Silent, Forgotten, Collected
<1>6. CASE m.on = "cloud"
  <2>1. cloud' = [cloud EXCEPT ![m.id] = m.payload] /\ UNCHANGED <<copies, inbox, torn>>
    BY <1>6 DEF Deliver, m
  <2>2. \A a \in Alarms : InJournal(a)
    BY <1>1, <1>6 DEF IndInv, Journal, m
  <2>3. 2 \in DOMAIN outbox /\ outbox[2] = Copy(m.id, m.payload)
    <3>1. 1 + 1 = 2
      OBVIOUS
    <3> QED
      BY <1>1, <1>2, <1>6, <3>1 DEF Followed
  <2>4. Journal'
    <3>1. outbox' # <<>> /\ Head(outbox') = Copy(m.id, m.payload)
      BY <1>2, <2>3
    <3>2. /\ Head(outbox').on = "copy" /\ Head(outbox').id = m.id
          /\ Head(outbox').payload = m.payload
      BY <3>1 DEF Copy
    <3>3. cloud'[m.id] = m.payload /\ \A a \in Alarms : a # m.id => InJournal(a)'
      BY <1>3, <2>1, <2>2 DEF IndInv, TypeOK, InJournal
    <3> QED
      BY <3>1, <3>2, <3>3 DEF Journal
  <2>5. CopiesInOrder'
    BY <2>1 DEF IndInv, CopiesInOrder
  <2>6. News'
    BY <1>2, <1>4, <2>1 DEF IndInv, News, TypeOK
  <2>7. cloud' \in [Alarms -> Values]
    BY <1>3, <2>1 DEF IndInv, TypeOK, Values
  <2>8. TypeOK'
    BY <1>2, <1>4, <2>1, <2>7 DEF IndInv, TypeOK, Sent, Values
  <2> QED
    BY <1>2, <1>5, <2>4, <2>5, <2>6, <2>8 DEF IndInv
<1>7. CASE m.on = "copy"
  <2>1. /\ copies' = [copies EXCEPT ![m.id] = m.payload]
        /\ inbox' = Append(inbox, m) /\ torn' = torn \ {m.id}
        /\ UNCHANGED cloud
    BY <1>7 DEF Deliver, m
  <2>2. \A a \in Alarms : InJournal(a)'
    <3>1. cloud[m.id] = m.payload /\ \A a \in Alarms : a # m.id => InJournal(a)
      BY <1>1, <1>7 DEF IndInv, Journal, m
    <3> QED
      BY <1>3, <2>1, <3>1 DEF IndInv, TypeOK, InJournal
  <2>3. Journal'
    <3>1. 2 \in DOMAIN outbox => outbox[2].on # "copy"
      <4> SUFFICES ASSUME 2 \in DOMAIN outbox, outbox[2].on = "copy" PROVE FALSE
        OBVIOUS
      <4>1. 2 - 1 = 1 /\ 2 # 1
        OBVIOUS
      <4>2. outbox[1] = Cloud(outbox[2].id, outbox[2].payload)
        BY <1>1, <4>1 DEF Followed
      <4> QED
        BY <1>2, <1>7, <4>2 DEF Cloud
    <3> QED
      BY <1>2, <2>2, <3>1 DEF Journal
  <2>4. m \in Received /\ inbox \in Seq(Received)
    BY <1>2, <1>7 DEF IndInv, TypeOK, Sent, Received, Values
  <2>5. /\ inbox' \in Seq(Received) /\ Len(inbox) \in Nat /\ DOMAIN inbox = 1 .. Len(inbox)
        /\ DOMAIN inbox' = 1 .. Len(inbox) + 1
        /\ \A i \in 1 .. Len(inbox) + 1 : i \in 1 .. Len(inbox) \/ i = Len(inbox) + 1
        /\ \A i \in 1 .. Len(inbox) : i \in 1 .. Len(inbox) + 1 /\ inbox'[i] = inbox[i]
        /\ inbox'[Len(inbox) + 1] = m
    BY <2>1, <2>4, AppendElements
  <2>6. CopiesInOrder'
    <3> SUFFICES ASSUME NEW i \in DOMAIN inbox', LastCopy(inbox', i)
                 PROVE  inbox'[i].payload = copies'[inbox'[i].id]
      BY DEF CopiesInOrder
    <3>1. CASE i = Len(inbox) + 1
      BY <1>3, <2>1, <2>5, <3>1 DEF IndInv, TypeOK
    <3>2. CASE i \in 1 .. Len(inbox)
      <4>1. inbox'[i] = inbox[i] /\ LastCopy(inbox, i)
        BY <2>5, <3>2 DEF LastCopy, IsCopy
      <4>2. inbox[i].id # m.id
        <5>1. Len(inbox) + 1 \in DOMAIN inbox' /\ ~(Len(inbox) + 1 <= i)
          BY <2>5, <3>2
        <5> QED
          BY <1>7, <2>5, <4>1, <5>1 DEF LastCopy, IsCopy
      <4>3. inbox[i] \in Received
        BY <2>4, <2>5, <3>2
      <4>4. inbox[i].id \in Alarms
        BY <4>3 DEF Received
      <4> QED
        BY <2>1, <2>5, <3>2, <4>1, <4>2, <4>4 DEF IndInv, CopiesInOrder, TypeOK
    <3> QED
      BY <2>5, <3>1, <3>2
  <2>7. News'
    <3>1. \A n \in todo : n.id # m.id
      BY <1>2 DEF IndInv, News
    <3> QED
      BY <1>2, <1>4, <2>1, <3>1 DEF IndInv, News
  <2>8. copies' \in [Alarms -> Values]
    BY <1>3, <2>1 DEF IndInv, TypeOK, Values
  <2>9. TypeOK'
    BY <1>2, <1>4, <2>1, <2>5, <2>8 DEF IndInv, TypeOK, Sent, Received, Values
  <2> QED
    BY <1>2, <1>5, <2>3, <2>6, <2>7, <2>9 DEF IndInv
<1> QED
  BY <1>3, <1>6, <1>7

\* What is left in the inbox once its head is received.
LEMMA InboxTail ==
  ASSUME TypeOK, CopiesInOrder, Receive, UNCHANGED copies
  PROVE  /\ inbox' \in Seq(Received) /\ CopiesInOrder'
         /\ Head(inbox) \in Received /\ Head(inbox) = inbox[1] /\ 1 \in DOMAIN inbox
         /\ \A i \in DOMAIN inbox' : i + 1 \in DOMAIN inbox /\ inbox'[i] = inbox[i + 1]
         /\ \A j \in DOMAIN inbox : j # 1 => j - 1 \in DOMAIN inbox' /\ inbox'[j - 1] = inbox[j]
<1>1. inbox \in Seq(Received) /\ inbox # <<>> /\ inbox' = Tail(inbox)
  BY DEF TypeOK, Received, Values, Receive
<1>2. /\ Head(inbox) = inbox[1] /\ Head(inbox) \in Received /\ inbox' \in Seq(Received)
      /\ Len(inbox) \in Nat \ {0} /\ DOMAIN inbox = 1 .. Len(inbox)
      /\ DOMAIN inbox' = 1 .. Len(inbox) - 1
      /\ \A i \in 1 .. Len(inbox) - 1 : i + 1 \in 1 .. Len(inbox) /\ inbox'[i] = inbox[i + 1]
  BY <1>1, TailElements
<1>3. ASSUME NEW j \in DOMAIN inbox, j # 1
      PROVE  j - 1 \in DOMAIN inbox' /\ inbox'[j - 1] = inbox[j]
  <2>1. j - 1 \in 1 .. Len(inbox) - 1 /\ (j - 1) + 1 = j
    BY <1>2, <1>3
  <2> QED
    BY <1>2, <2>1
<1>6. CopiesInOrder'
  <2> SUFFICES ASSUME NEW i \in DOMAIN inbox', LastCopy(inbox', i)
               PROVE  inbox'[i].payload = copies'[inbox'[i].id]
    BY DEF CopiesInOrder
  <2>1. i + 1 \in DOMAIN inbox /\ inbox'[i] = inbox[i + 1] /\ i \in Nat
    BY <1>2
  <2>2. LastCopy(inbox, i + 1)
    <3> SUFFICES ASSUME NEW j \in DOMAIN inbox, IsCopy(inbox, j, inbox[i + 1].id) PROVE j <= i + 1
      BY <2>1 DEF LastCopy
    <3>1. CASE j = 1
      BY <2>1, <3>1
    <3>2. CASE j # 1
      <4>1. j - 1 \in DOMAIN inbox' /\ IsCopy(inbox', j - 1, inbox'[i].id)
        BY <1>3, <2>1, <3>2 DEF IsCopy
      <4>2. j - 1 <= i /\ j \in Nat
        BY <1>2, <4>1 DEF LastCopy
      <4> QED
        BY <2>1, <4>2
    <3> QED
      BY <3>1, <3>2
  <2> QED
    BY <2>1, <2>2 DEF CopiesInOrder
<1>8. 1 \in DOMAIN inbox
  BY <1>2
<1>9. \A i \in DOMAIN inbox' : i + 1 \in DOMAIN inbox /\ inbox'[i] = inbox[i + 1]
  BY <1>2
<1> QED
  BY <1>2, <1>3, <1>6, <1>8, <1>9

LEMMA TryConvertKeeps ==
  ASSUME IndInv, TryConvertAlarm
  PROVE  IndInv'
<1> DEFINE m == Head(inbox)
<1>1. Receive /\ m.on = "alarm" /\ UNCHANGED <<raised, copies, cloud, mapper, old, todo, torn, late, changes, crashes>>
  BY DEF TryConvertAlarm, brokerVars, historyVars, boundVars
<1>2. /\ inbox' \in Seq(Received) /\ CopiesInOrder'
      /\ m \in Received /\ m = inbox[1] /\ 1 \in DOMAIN inbox
      /\ \A i \in DOMAIN inbox' : i + 1 \in DOMAIN inbox /\ inbox'[i] = inbox[i + 1]
      /\ \A j \in DOMAIN inbox : j # 1 => j - 1 \in DOMAIN inbox' /\ inbox'[j - 1] = inbox[j]
  BY <1>1, InboxTail DEF IndInv
<1> HIDE DEF m
<1>3. m.id \in Alarms /\ m.payload \in Values
  BY <1>2 DEF Received
<1>4. todo = {}
  BY <1>1 DEF Receive
<1>5. Collected'
  <2> SUFFICES ASSUME mapper = "syncing"
               PROVE  \A a \in Alarms : (\A i \in DOMAIN inbox' : ~IsCopy(inbox', i, a)) => Known(a)
    BY <1>1 DEF Collected, Known
  <2>1. ASSUME NEW a \in Alarms, \A i \in DOMAIN inbox' : ~IsCopy(inbox', i, a)
        PROVE  Known(a)
    <3>1. ASSUME NEW j \in DOMAIN inbox PROVE ~IsCopy(inbox, j, a)
      <4>1. CASE j = 1
        BY <1>1, <1>2, <4>1 DEF IsCopy
      <4>2. CASE j # 1
        BY <1>2, <2>1, <4>2 DEF IsCopy
      <4> QED
        BY <4>1, <4>2
    <3> QED
      BY <3>1 DEF IndInv, Collected
  <2> QED
    BY <2>1
<1>6. News' /\ Forgotten'
  BY <1>1, <1>4 DEF IndInv, News, Forgotten
<1>7. CASE mapper = "syncing"
  <2>1. pending' = [pending EXCEPT ![m.id] = m.payload] /\ outbox' = outbox
    BY <1>7 DEF TryConvertAlarm, m
  <2>2. pending' \in [Alarms -> Values \cup {Unseen}]
    BY <1>3, <2>1 DEF IndInv, TypeOK, Values
  <2>3. TypeOK'
    BY <1>1, <1>2, <2>1, <2>2 DEF IndInv, TypeOK, Received, Values
  <2>4. Silent' /\ Followed' /\ Journal'
    BY <1>1, <2>1 DEF IndInv, Silent, Followed, Journal, InJournal
  <2> QED
    BY <1>2, <1>5, <1>6, <2>3, <2>4 DEF IndInv
<1>8. CASE mapper = "synced"
  <2>1. outbox' = outbox \o Converted(m) /\ pending' = pending
    BY <1>8 DEF TryConvertAlarm, m
  <2>2. outbox' \in Seq(Sent) /\ Followed' /\ Journal'
    BY <1>1, <1>3, <2>1, ConvertedAppended DEF IndInv
  <2>3. TypeOK'
    BY <1>1, <1>2, <2>1, <2>2 DEF IndInv, TypeOK, Received, Sent, Values
  <2>4. Silent'
    BY <1>1, <1>8 DEF Silent
  <2> QED
    BY <1>2, <1>5, <1>6, <2>2, <2>3, <2>4 DEF IndInv
<1> QED
  BY <1>7, <1>8 DEF TryConvertAlarm

LEMMA InternalKeeps ==
  ASSUME IndInv, ProcessInternalAlarm
  PROVE  IndInv'
<1> DEFINE m == Head(inbox)
<1>1. /\ Receive /\ m.on = "copy"
      /\ UNCHANGED <<raised, copies, cloud, mapper, pending, todo, outbox, torn, late, changes, crashes>>
  BY DEF ProcessInternalAlarm, brokerVars, historyVars, boundVars
<1>2. /\ inbox' \in Seq(Received) /\ CopiesInOrder'
      /\ m \in Received /\ m = inbox[1] /\ 1 \in DOMAIN inbox
      /\ \A i \in DOMAIN inbox' : i + 1 \in DOMAIN inbox /\ inbox'[i] = inbox[i + 1]
      /\ \A j \in DOMAIN inbox : j # 1 => j - 1 \in DOMAIN inbox' /\ inbox'[j - 1] = inbox[j]
  BY <1>1, InboxTail DEF IndInv
<1>3. old' = IF mapper = "syncing" THEN [old EXCEPT ![m.id] = m.payload] ELSE old
  BY DEF ProcessInternalAlarm
<1> HIDE DEF m
<1>4. m.id \in Alarms /\ m.payload \in Values
  BY <1>2 DEF Received
<1>5. old' \in [Alarms -> Values \cup {Unseen}]
  BY <1>3, <1>4 DEF IndInv, TypeOK, Values
<1>6. TypeOK'
  BY <1>1, <1>2, <1>5 DEF IndInv, TypeOK, Received, Values
<1>7. Collected'
  <2> SUFFICES ASSUME mapper = "syncing"
               PROVE  \A a \in Alarms : (\A i \in DOMAIN inbox' : ~IsCopy(inbox', i, a)) => Known(a)'
    BY <1>1 DEF Collected
  <2>1. ASSUME NEW a \in Alarms, \A i \in DOMAIN inbox' : ~IsCopy(inbox', i, a)
        PROVE  Known(a)'
    <3>1. \A j \in DOMAIN inbox : j # 1 => ~IsCopy(inbox, j, a)
      BY <1>2, <2>1 DEF IsCopy
    <3>2. CASE m.id = a
      <4>1. LastCopy(inbox, 1)
        <5>1. \A j \in DOMAIN inbox : j # 1 => ~IsCopy(inbox, j, inbox[1].id)
          BY <1>2, <3>1, <3>2
        <5> QED
          BY <1>1, <1>2, <5>1 DEF LastCopy
      <4>2. m.payload = copies[a]
        BY <1>2, <3>2, <4>1 DEF IndInv, CopiesInOrder
      <4>3. old'[a] = m.payload
        BY <1>3, <3>2 DEF IndInv, TypeOK
      <4> QED
        BY <1>1, <4>2, <4>3 DEF Known
    <3>3. CASE m.id # a
      <4>1. \A j \in DOMAIN inbox : ~IsCopy(inbox, j, a)
        BY <1>2, <3>1, <3>3 DEF IsCopy
      <4>2. Known(a)
        BY <4>1 DEF IndInv, Collected
      <4>3. old'[a] = old[a]
        BY <1>3, <3>3 DEF IndInv, TypeOK
      <4> QED
        BY <1>1, <4>2, <4>3 DEF Known
    <3> QED
      BY <3>2, <3>3
  <2> QED
    BY <2>1
<1>8. Silent' /\ Forgotten' /\ Followed' /\ Journal' /\ News'
  <2>1. mapper # "down"
    BY <1>1 DEF Receive
  <2> QED
    BY <1>1, <2>1 DEF IndInv, Silent, Forgotten, Followed, Journal, InJournal, News
<1> QED
  BY <1>2, <1>6, <1>7, <1>8 DEF IndInv

\* With all its copies received, an alarm which has been missed is news to the cloud.
LEMMA TimeoutKeeps ==
  ASSUME IndInv, ProcessSyncTimeout
  PROVE  IndInv'
<1>1. /\ mapper = "syncing" /\ mapper' = "synced" /\ todo' = Missed
      /\ pending' = NoneSeen /\ old' = NoneSeen /\ late' = Awaited
      /\ UNCHANGED <<raised, copies, cloud, inbox, outbox, torn, changes, crashes>>
  BY DEF ProcessSyncTimeout, brokerVars, boundVars
<1>2. outbox = <<>> /\ DOMAIN outbox = {} /\ \A a \in Alarms : InJournal(a)
  BY <1>1 DEF IndInv, Silent, Journal
<1>3. \A a \in Alarms : Known(a) \/ a \in late'
  <2>1. \A a \in Alarms : a \notin Awaited => \A i \in DOMAIN inbox : ~IsCopy(inbox, i, a)
    BY DEF Awaited, IsCopy
  <2> QED
    BY <1>1, <2>1 DEF IndInv, Collected
<1>4. /\ pending \in [Alarms -> Values \cup {Unseen}] /\ old \in [Alarms -> Values \cup {Unseen}]
      /\ Unseen \notin Values
  BY AlarmAssumptions DEF IndInv, TypeOK, Values
<1>5. \A m \in todo' : \E a \in Alarms :
        \/ m = Alarm(a, Clear) /\ old[a] # Unseen /\ pending[a] = Unseen
        \/ m = Alarm(a, pending[a]) /\ pending[a] # Unseen /\ pending[a] # old[a]
  BY <1>1 DEF Missed
<1>6. \A m \in todo' :
        /\ m.on = "alarm" /\ m.id \in Alarms /\ m.payload \in Values
        /\ \/ m.payload = Clear /\ old[m.id] # Unseen /\ pending[m.id] = Unseen
           \/ m.payload = pending[m.id] /\ pending[m.id] # Unseen /\ pending[m.id] # old[m.id]
        /\ m = Alarm(m.id, m.payload)
  BY <1>4, <1>5 DEF Alarm, Values
<1>7. News'
  <2> SUFFICES ASSUME NEW m \in todo'
               PROVE  /\ m.payload = Clear \/ cloud[m.id] # m.payload \/ m.id \in torn \cup late'
                      /\ \A n \in todo' : m.id = n.id => m = n
    BY <1>1, <1>2 DEF News
  <2>1. m.payload = Clear \/ cloud[m.id] # m.payload \/ m.id \in torn \cup late'
    BY <1>2, <1>3, <1>6 DEF Known, InJournal
  <2>2. \A n \in todo' : m.id = n.id => m.payload = n.payload
    BY <1>6
  <2>3. \A n \in todo' : m.id = n.id => m = n
    BY <1>6, <2>2
  <2> QED
    BY <2>1, <2>3
<1>8. TypeOK'
  <2>1. todo' \subseteq [on : {"alarm"}, id : Alarms, payload : Payloads \cup {Clear}]
    BY <1>6 DEF Alarm, Values
  <2>2. NoneSeen \in [Alarms -> Payloads \cup {Clear, Unseen}]
    BY DEF NoneSeen
  <2>3. Awaited \subseteq Alarms
    <3>1. inbox \in Seq(Received)
      BY DEF IndInv, TypeOK, Received, Values
    <3>2. \A i \in DOMAIN inbox : inbox[i] \in Received
      BY <3>1
    <3> QED
      BY <3>2 DEF Awaited, Received
  <2> QED
    BY <1>1, <2>1, <2>2, <2>3 DEF IndInv, TypeOK
<1>9. Silent' /\ Forgotten' /\ Collected'
  BY <1>1 DEF Silent, Forgotten, Collected
<1>10. Followed' /\ Journal' /\ CopiesInOrder'
  BY <1>1 DEF IndInv, Followed, Journal, InJournal, CopiesInOrder
<1> QED
  BY <1>7, <1>8, <1>9, <1>10 DEF IndInv

LEMMA MissedKeeps ==
  ASSUME IndInv, ProcessMissed
  PROVE  IndInv'
<1>1. PICK m \in todo : todo' = todo \ {m} /\ outbox' = outbox \o Converted(m)
  BY DEF ProcessMissed
<1>2. UNCHANGED <<raised, copies, cloud, inbox, mapper, pending, old, torn, late, changes, crashes>>
  BY DEF ProcessMissed, brokerVars, converterVars, historyVars, boundVars
<1>3. m.id \in Alarms /\ m.payload \in Values /\ mapper = "synced"
  BY DEF IndInv, TypeOK, Silent, Values
<1>4. /\ outbox' \in Seq(Sent) /\ Followed' /\ Journal'
      /\ \A i \in DOMAIN outbox' :
           outbox'[i].id = m.id \/ (i \in DOMAIN outbox /\ outbox'[i] = outbox[i])
  BY <1>1, <1>2, <1>3, ConvertedAppended DEF IndInv
<1>5. News'
  <2> SUFFICES ASSUME NEW n \in todo'
               PROVE  /\ n.payload = Clear \/ cloud[n.id] # n.payload \/ n.id \in torn \cup late
                      /\ \A o \in todo' : n.id = o.id => n = o
                      /\ \A i \in DOMAIN outbox' : outbox'[i].id # n.id
    BY <1>2 DEF News
  <2>1. n \in todo /\ n # m /\ n.id # m.id
    BY <1>1 DEF IndInv, News
  <2> QED
    BY <1>1, <1>4, <2>1 DEF IndInv, News
<1>6. TypeOK'
  BY <1>1, <1>2, <1>4 DEF IndInv, TypeOK, Sent, Values
<1>7. Silent' /\ Forgotten' /\ Collected' /\ CopiesInOrder'
  BY <1>2, <1>3 DEF IndInv, Silent, Forgotten, Collected, CopiesInOrder
<1> QED
  BY <1>4, <1>5, <1>6, <1>7 DEF IndInv

\* The broker keeps all the copies the mapper has not received, in their order.
LEMMA CrashKeeps ==
  ASSUME IndInv, Crash
  PROVE  IndInv'
<1>1. /\ mapper' = "down" /\ pending' = NoneSeen /\ old' = NoneSeen
      /\ todo' = {} /\ outbox' = <<>> /\ crashes' = crashes + 1
      /\ crashes < MaxCrashes /\ torn' = torn \cup Separated /\ late' = {}
      /\ UNCHANGED <<raised, copies, cloud, changes>>
  BY DEF Crash, brokerVars
<1>2. Separated \subseteq Alarms /\ \A a \in Alarms : InJournal(a)'
  <2>1. outbox \in Seq(Sent)
    BY DEF IndInv, TypeOK, Sent, Values
  <2>2. CASE outbox # <<>> /\ Head(outbox).on = "copy"
    <3>1. Head(outbox) \in Sent
      BY <2>1, <2>2, TailElements
    <3>2. Separated = {Head(outbox).id} /\ Head(outbox).id \in Alarms
      BY <2>2, <3>1 DEF Separated, Sent
    <3> QED
      BY <1>1, <2>2, <3>2 DEF IndInv, Journal, InJournal
  <2>3. CASE ~(outbox # <<>> /\ Head(outbox).on = "copy")
    <3>1. outbox = <<>> \/ Head(outbox).on = "cloud"
      <4>1. outbox # <<>> => Head(outbox) \in Sent
        BY <2>1, TailElements
      <4> QED
        BY <2>3, <4>1 DEF Sent
    <3>2. Separated = {} /\ \A a \in Alarms : InJournal(a)
      BY <2>3, <3>1 DEF Separated, IndInv, Journal
    <3> QED
      BY <1>1, <3>2 DEF InJournal
  <2> QED
    BY <2>2, <2>3
<1>3. inbox \in Seq(Received) /\ Len(inbox) \in Nat /\ DOMAIN inbox = 1 .. Len(inbox)
  <2>1. inbox \in Seq(Received)
    BY DEF IndInv, TypeOK, Received, Values
  <2> QED
    BY <2>1, LenProperties
<1>4. PICK n \in 0 .. Len(inbox) :
        inbox' = Selected(inbox, {i \in (n + 1) .. Len(inbox) : Kept(inbox[i])})
  BY DEF Crash
<1> DEFINE I == {i \in (n + 1) .. Len(inbox) : Kept(inbox[i])}
           p == Positions(I)
           m == Cardinality(I)
<1>5. I \in SUBSET (1 .. Len(inbox))
  BY <1>3
<1>6. /\ m \in Nat /\ p \in [1 .. m -> I]
      /\ \A k, l \in 1 .. m : k < l => p[k] < p[l]
      /\ \A i \in I : \E k \in 1 .. m : p[k] = i
  BY <1>3, <1>5, PositionsProperties
<1>7. inbox' = [k \in 1 .. m |-> inbox[p[k]]]
  <2>1. inbox' = [k \in DOMAIN p |-> inbox[p[k]]]
    BY <1>4 DEF Selected
  <2>2. DOMAIN p = 1 .. m
    BY <1>6
  <2> QED
    BY <2>1, <2>2
<1>8. \A i \in I : i \in 1 .. Len(inbox) /\ i >= n + 1
  BY <1>3
<1>9. \A i \in 1 .. Len(inbox) : i >= n + 1 /\ inbox[i].on = "copy" => i \in I
  BY <1>3 DEF Kept
<1> HIDE DEF I, p, m
<1>10. inbox' \in Seq(Received)
  <2>1. \A k \in 1 .. m : inbox[p[k]] \in Received
    BY <1>3, <1>6, <1>8
  <2>2. inbox' \in [1 .. m -> Received]
    BY <1>7, <2>1
  <2> QED
    BY <1>6, <2>2
<1>11. CopiesInOrder'
  <2> SUFFICES ASSUME NEW k \in DOMAIN inbox', LastCopy(inbox', k)
               PROVE  inbox'[k].payload = copies'[inbox'[k].id]
    BY DEF CopiesInOrder
  <2>1. k \in 1 .. m /\ p[k] \in I /\ p[k] \in DOMAIN inbox /\ inbox'[k] = inbox[p[k]]
    BY <1>3, <1>6, <1>7, <1>8
  <2>2. LastCopy(inbox, p[k])
    <3> SUFFICES ASSUME NEW j \in DOMAIN inbox, IsCopy(inbox, j, inbox[p[k]].id), ~(j <= p[k])
                 PROVE  FALSE
      BY <2>1 DEF LastCopy
    <3>1. j \in Nat /\ p[k] \in Nat /\ n \in Nat /\ p[k] >= n + 1
      BY <1>3, <1>8, <2>1
    <3>2. j >= n + 1
      BY <3>1
    <3>3. j \in I
      BY <1>3, <1>9, <3>2 DEF IsCopy
    <3>4. PICK l \in 1 .. m : p[l] = j
      BY <1>6, <3>3
    <3>5. IsCopy(inbox', l, inbox'[k].id) /\ l \in DOMAIN inbox'
      BY <1>7, <2>1, <3>4 DEF IsCopy
    <3>6. l <= k
      BY <3>5 DEF LastCopy
    <3>7. l = k \/ l < k
      BY <1>6, <2>1, <3>6
    <3>8. p[l] <= p[k]
      BY <1>6, <2>1, <3>1, <3>4, <3>7
    <3> QED
      BY <3>4, <3>8
  <2> QED
    BY <1>1, <2>1, <2>2 DEF IndInv, CopiesInOrder
<1>12. TypeOK'
  <2>1. NoneSeen \in [Alarms -> Payloads \cup {Clear, Unseen}]
    BY DEF NoneSeen
  <2>2. crashes' \in 0 .. MaxCrashes /\ torn' \subseteq Alarms /\ late' \subseteq Alarms
    BY <1>1, <1>2, AlarmAssumptions DEF IndInv, TypeOK
  <2>3. outbox' \in Seq([on : {"cloud", "copy"}, id : Alarms, payload : Payloads \cup {Clear}])
    BY <1>1, EmptySeq
  <2>4. todo' \subseteq [on : {"alarm"}, id : Alarms, payload : Payloads \cup {Clear}]
    BY <1>1
  <2> QED
    BY <1>1, <1>10, <2>1, <2>2, <2>3, <2>4 DEF IndInv, TypeOK, Received, Values
<1>13. DOMAIN outbox' = {}
  BY <1>1
<1>14. Silent' /\ Forgotten' /\ Followed' /\ Journal' /\ Collected' /\ News'
  BY <1>1, <1>2, <1>13 DEF Silent, Forgotten, Followed, Journal, Collected, News
<1> QED
  BY <1>11, <1>12, <1>14 DEF IndInv

LEMMA RetainedFinite ==
  ASSUME TypeOK
  PROVE  Retained \subseteq Received /\ IsFiniteSet(Retained)
<1> DEFINE A == {b \in Alarms : raised[b] # Clear}
           C == {b \in Alarms : copies[b] # Clear}
           f == [a \in A |-> Alarm(a, raised[a])]
           g == [a \in C |-> Copy(a, copies[a])]
           F == {Alarm(a, raised[a]) : a \in A}
           G == {Copy(a, copies[a]) : a \in C}
<1>1. IsFiniteSet(A) /\ IsFiniteSet(C)
  BY AlarmAssumptions, FS_Subset
<1>2. f \in Surjection(A, F) /\ g \in Surjection(C, G)
  BY DEF Surjection
<1>3. IsFiniteSet(F) /\ IsFiniteSet(G)
  BY <1>1, <1>2, FS_Surjection
<1>4. Retained = F \cup G
  BY DEF Retained
<1>5. F \subseteq Received /\ G \subseteq Received
  BY DEF TypeOK, Received, Values, Alarm, Copy
<1> HIDE DEF F, G
<1> QED
  BY <1>3, <1>4, <1>5, FS_Union

LEMMA StartKeeps ==
  ASSUME IndInv, Start
  PROVE  IndInv'
<1>1. /\ mapper = "down" /\ mapper' = "syncing"
      /\ UNCHANGED <<raised, copies, cloud, pending, old, todo, outbox, torn, late, changes, crashes>>
  BY DEF Start, brokerVars, historyVars, boundVars
<1>2. PICK q \in SetToSeqs(Retained) : inbox' = inbox \o q
  BY DEF Start
<1>3. inbox \in Seq(Received) /\ Len(inbox) \in Nat /\ DOMAIN inbox = 1 .. Len(inbox)
  <2>1. inbox \in Seq(Received)
    BY DEF IndInv, TypeOK, Received, Values
  <2> QED
    BY <2>1, LenProperties
<1>4. Retained \subseteq Received /\ IsFiniteSet(Retained) /\ Cardinality(Retained) \in Nat
  BY RetainedFinite, FS_CardinalityType DEF IndInv
<1>5. /\ q \in [1 .. Cardinality(Retained) -> Retained]
      /\ \A i, j \in 1 .. Cardinality(Retained) : i # j => q[i] # q[j]
  BY DEF SetToSeqs
<1>6. \A x \in Retained : \E i \in 1 .. Cardinality(Retained) : q[i] = x
  BY <1>4, <1>5, AllEnumerated
<1> DEFINE k == Len(inbox)
           r == Cardinality(Retained)
<1>7. q \in Seq(Received) /\ Len(q) = r
  <2>1. q \in [1 .. r -> Received]
    BY <1>4, <1>5
  <2> QED
    BY <1>4, <2>1
<1>8. /\ inbox' \in Seq(Received) /\ Len(inbox') = k + r
      /\ \A i \in 1 .. k + r : inbox'[i] = IF i <= k THEN inbox[i] ELSE q[i - k]
  BY <1>2, <1>3, <1>7, ConcatProperties
<1>9. k \in Nat /\ r \in Nat /\ DOMAIN inbox' = 1 .. k + r
  BY <1>3, <1>4, <1>8, LenProperties
<1> HIDE DEF k, r
<1>10. /\ \A i \in 1 .. k : i \in 1 .. k + r /\ inbox'[i] = inbox[i]
       /\ \A i \in 1 .. r : k + i \in 1 .. k + r /\ inbox'[k + i] = q[i] /\ q[i] \in Retained
  <2>1. \A i \in 1 .. k : i \in 1 .. k + r /\ i <= k
    BY <1>9
  <2>2. \A i \in 1 .. r : k + i \in 1 .. k + r /\ ~(k + i <= k) /\ (k + i) - k = i
    BY <1>9
  <2> QED
    BY <1>5, <1>8, <2>1, <2>2 DEF r
<1>11. \A i \in 1 .. k + r : i \in 1 .. k \/ \E j \in 1 .. r : i = k + j
  <2> SUFFICES ASSUME NEW i \in 1 .. k + r, i \notin 1 .. k PROVE \E j \in 1 .. r : i = k + j
    OBVIOUS
  <2>1. i - k \in 1 .. r /\ i = k + (i - k)
    BY <1>9
  <2> QED
    BY <2>1
<1>12. \A x \in Retained : x.on = "copy" => x.payload = copies[x.id]
  BY DEF Retained, Alarm, Copy
<1>13. \A a \in Alarms : copies[a] # Clear => \E i \in 1 .. r : IsCopy(q, i, a)
  <2> SUFFICES ASSUME NEW a \in Alarms, copies[a] # Clear PROVE \E i \in 1 .. r : IsCopy(q, i, a)
    OBVIOUS
  <2>1. Copy(a, copies[a]) \in Retained
    BY DEF Retained
  <2>2. PICK i \in 1 .. r : q[i] = Copy(a, copies[a])
    BY <1>6, <2>1 DEF r
  <2> QED
    BY <2>2 DEF IsCopy, Copy
<1>14. CopiesInOrder'
  <2> SUFFICES ASSUME NEW i \in DOMAIN inbox', LastCopy(inbox', i)
               PROVE  inbox'[i].payload = copies[inbox'[i].id]
    BY <1>1 DEF CopiesInOrder
  <2>1. CASE i \in 1 .. k
    <3>1. inbox'[i] = inbox[i] /\ i \in DOMAIN inbox
      BY <1>3, <1>10, <2>1 DEF k
    <3>2. LastCopy(inbox, i)
      BY <1>3, <1>9, <1>10, <3>1 DEF LastCopy, IsCopy, k
    <3> QED
      BY <3>1, <3>2 DEF IndInv, CopiesInOrder
  <2>2. ASSUME NEW j \in 1 .. r, i = k + j PROVE inbox'[i].payload = copies[inbox'[i].id]
    BY <1>10, <1>12, <2>2 DEF LastCopy
  <2> QED
    BY <1>9, <1>11, <2>1, <2>2
<1>15. Collected'
  <2>1. ASSUME NEW a \in Alarms, \A i \in DOMAIN inbox' : ~IsCopy(inbox', i, a)
        PROVE  Known(a)'
    <3>1. copies[a] = Clear
      BY <1>9, <1>10, <1>13, <2>1 DEF IsCopy
    <3>2. old[a] = Unseen
      BY <1>1 DEF IndInv, Forgotten, NoneSeen
    <3> QED
      BY <1>1, <3>1, <3>2 DEF Known
  <2> QED
    BY <2>1 DEF Collected
<1>16. TypeOK'
  BY <1>1, <1>8 DEF IndInv, TypeOK, Received, Values
<1>17. Silent' /\ Forgotten' /\ Followed' /\ Journal' /\ News'
  BY <1>1 DEF IndInv, Silent, Forgotten, Followed, Journal, InJournal, News
<1> QED
  BY <1>14, <1>15, <1>16, <1>17 DEF IndInv

------------------------------------------------------------------------------

\* Whatever is raised, cleared or received, whenever the mapper crashes and whenever its
\* sync window ends: what a start sends is news to the cloud, and the copies tell what
\* the cloud knows (sync and process_internal_alarm), except for an alarm whose last copy
\* was lost by a crash just after the alarm was sent, and, as for what is sent, for one
\* which had copies on their way when the window ended.
THEOREM NoAlarmIsResent == Spec => []NothingResent
<1>1. IndInv /\ [Next]_vars => IndInv'
  <2> SUFFICES ASSUME IndInv, [Next]_vars PROVE IndInv'
    OBVIOUS
  <2>1. ASSUME NEW a \in Alarms, NEW p \in Payloads \cup {Clear}, Change(a, p) PROVE IndInv'
    BY <2>1, ChangeKeeps DEF Values
  <2>2. CASE Deliver
    BY <2>2, DeliverKeeps
  <2>3. CASE TryConvertAlarm
    BY <2>3, TryConvertKeeps
  <2>4. CASE ProcessInternalAlarm
    BY <2>4, InternalKeeps
  <2>5. CASE ProcessMissed
    BY <2>5, MissedKeeps
  <2>6. CASE Start
    BY <2>6, StartKeeps
  <2>7. CASE ProcessSyncTimeout
    BY <2>7, TimeoutKeeps
  <2>8. CASE Crash
    BY <2>8, CrashKeeps
  <2>9. CASE UNCHANGED vars
    <3>1. UNCHANGED <<raised, copies, cloud, inbox, mapper, pending, old, todo, outbox,
                      torn, late, changes, crashes>>
      BY <2>9 DEF vars, brokerVars, converterVars, historyVars, boundVars
    <3> QED
      BY <3>1 DEF IndInv, TypeOK, Silent, Forgotten, Followed, Journal, InJournal, CopiesInOrder,
                  Collected, Known, News
  <2> QED
    BY <2>1, <2>2, <2>3, <2>4, <2>5, <2>6, <2>7, <2>8, <2>9 DEF Next, Mapper
<1>2. IndInv => NothingResent
  BY DEF IndInv, Journal, InJournal, News, NothingResent, JournalTrue
<1> QED
  BY <1>1, <1>2, InitHolds, PTL DEF Spec
=============================================================================
