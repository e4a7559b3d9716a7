-------------------------- MODULE MqttBridgeProofs --------------------------
(* For any messages, topics bridged in either direction or both, sizes of the   *)
(* channels and lost connections: a message is acknowledged to its source only  *)
(* once its target has it, packet ids are paired with their messages, and the   *)
(* local broker ends up showing the status of the bridge, as long as no message *)
(* about the health of the bridge is sent twice.                                *)
EXTENDS MqttBridge, SelectionTheorems

------------------------------------------------------------------------------
(* What goes where.                                                            *)

Insts == [msg : Msgs, hops : Nat]
Healths == [msg : {None}, status : {"up", "down", None}]

\* The message has reached the broker it is forwarded to.
Arrived(m) == Inst(m, 0) \in got[Other(Origin[m])]

\* What the broker of a side sends: what is published there, and what comes back of
\* the messages which have reached the other side.
From(c) ==
  {x \in Insts : (x.hops = 0 => Origin[x.msg] = c) /\ (x.hops # 0 => Arrived(x.msg))}

\* What is published on a side by the bridge.
Onto(c) == From(Other(c)) \cup (IF c = "local" THEN Healths ELSE {})

\* What may be acknowledged to a side.
Settled(c) ==
  {x \in From(c) : x.hops = 0 /\ x.msg \in Forwarded => x \in got[Other(c)]}

Acks(c) == [do : {"ack"}, item : Settled(c)]
Pubs(c, ids) == [do : {"pub"}, id : ids, item : Onto(c)]
Received(c) == [do : {"pub"}, id : {0}, item : From(c)] \cup [do : {"puback"}, id : Nat]
Modes(c) ==
  {Polling} \cup [do : {"pair"}, id : Nat]
            \cup [do : {"ack"}, item : Settled(c), looped : BOOLEAN]

\* The state is a table of both sides.
Shaped ==
  /\ DOMAIN link = Sides /\ DOMAIN wire = Sides /\ DOMAIN sent = Sides /\ DOMAIN owed = Sides
  /\ DOMAIN got = Sides /\ DOMAIN acked = Sides
  /\ DOMAIN reqs = Sides /\ DOMAIN again = Sides /\ DOMAIN flight = Sides
  /\ DOMAIN lastId = Sides /\ DOMAIN paired = Sides /\ DOMAIN mode = Sides
  /\ DOMAIN echoes = Sides /\ DOMAIN chan = Sides /\ DOMAIN queue = Sides
  /\ DOMAIN writer = Sides

\* What each place of a side holds: between the broker and the bridge, in the client,
\* and in the half bridge and its publisher.
NetHolds(c) ==
  /\ wire[c] \in Seq(Received(c)) /\ sent[c] \in Seq(Pubs(c, Nat) \cup Acks(c))
  /\ owed[c] \subseteq From(c) /\ IsFiniteSet(owed[c])
  /\ acked[c] \subseteq Settled(c)
  /\ link[c] # "up" => wire[c] = <<>> /\ sent[c] = <<>>

ClientHolds(c) ==
  /\ reqs[c] \in Seq(Pubs(c, {0}) \cup Acks(c))
  /\ again[c] \in Seq(Pubs(c, Nat)) /\ flight[c] \in Seq(Pubs(c, Nat)) /\ lastId[c] \in Nat

BridgeHolds(c) ==
  /\ mode[c] \in Modes(c) /\ echoes[c] \in Seq(From(Other(c)))
  /\ mode[c].do = "ack" /\ mode[c].looped =>
       echoes[c] # <<>> /\ Head(echoes[c]).msg = mode[c].item.msg
  /\ DOMAIN paired[c] \subseteq 1 .. lastId[c]
  /\ \A id \in DOMAIN paired[c] : paired[c][id] \in From(Other(c))

TaskHolds(c) ==
  /\ chan[c] \in Seq(Onto(c)) /\ writer[c] \in Onto(c) \cup {None}
  /\ queue[c] \in Seq(Pubs(c, {0}) \cup Acks(c))

Holds(c) == NetHolds(c) /\ ClientHolds(c) /\ BridgeHolds(c) /\ TaskHolds(c)

------------------------------------------------------------------------------
(* Packet ids.                                                                 *)

\* The packet id is given to none of the publications to be sent again.
NotAgain(c, id) == \A i \in DOMAIN again[c] : again[c][i].id # id

\* A packet id belongs to one publication, in flight or to be sent again, and none
\* about the health of the bridge is sent again.
IdsUnique(c) ==
  /\ \A i \in DOMAIN flight[c] :
       /\ flight[c][i].id \in 1 .. lastId[c] /\ Qos1(flight[c][i].item)
       /\ NotAgain(c, flight[c][i].id)
       /\ \A j \in DOMAIN flight[c] : flight[c][i].id = flight[c][j].id => i = j
       /\ link[c] = "lost" => ~IsHealth(flight[c][i].item)
  /\ \A i \in DOMAIN again[c] : again[c][i].id # 0 =>
       /\ again[c][i].id \in 1 .. lastId[c]
       /\ Qos1(again[c][i].item) /\ ~IsHealth(again[c][i].item)
       /\ \A j \in DOMAIN again[c] : again[c][i].id = again[c][j].id => i = j

\* What the network holds of the publications in flight.
IdsSent(c) ==
  /\ \A i \in DOMAIN sent[c] : sent[c][i].do = "pub" /\ Qos1(sent[c][i].item) =>
       /\ sent[c][i].id \in 1 .. lastId[c] /\ NotAgain(c, sent[c][i].id)
       /\ \A j \in DOMAIN flight[c] :
            flight[c][j].id = sent[c][i].id => flight[c][j].item = sent[c][i].item
  /\ \A i \in DOMAIN wire[c] : wire[c][i].do = "puback" =>
       /\ wire[c][i].id \in 1 .. lastId[c] /\ NotAgain(c, wire[c][i].id)
       /\ \A j \in DOMAIN flight[c] :
            flight[c][j].id = wire[c][i].id => flight[c][j].item \in got[c]

\* A message published under a packet id is paired with it, unless it is about to.
Known(c, r) ==
  r.id # 0 /\ ~IsHealth(r.item) =>
    \/ r.id \in DOMAIN paired[c] /\ paired[c][r.id] = r.item
    \/ mode[c] = Pairing(r.id)

IdsPaired(c) ==
  /\ \A i \in DOMAIN flight[c] : Known(c, flight[c][i])
  /\ \A i \in DOMAIN again[c] : Known(c, again[c][i])
  /\ \A id \in DOMAIN paired[c] :
       \/ \E i \in DOMAIN flight[c] : flight[c][i].id = id /\ flight[c][i].item = paired[c][id]
       \/ \E i \in DOMAIN again[c] : again[c][i].id = id /\ again[c][i].item = paired[c][id]

------------------------------------------------------------------------------
(* The messages announced to a half bridge are those of its client that have no *)
(* packet id yet, in the order in which the client is going to publish them.    *)

NewAt(q) == {i \in DOMAIN q : q[i].do = "pub" /\ q[i].id = 0}
NewItems(q) == LET s == Selected(q, NewAt(q)) IN [k \in DOMAIN s |-> s[k].item]

Trail(c) == IF writer[c] = None THEN <<>> ELSE <<writer[c]>>
Coming(c) == NewItems(again[c] \o reqs[c]) \o Trail(c)

Aligned(c) ==
  IF mode[c].do = "pair"
  THEN /\ chan[c] # <<>> /\ Tail(chan[c]) = Coming(c)
       /\ mode[c].id # 0 =>
            /\ mode[c].id \notin DOMAIN paired[c]
            /\ \E i \in DOMAIN flight[c] :
                 flight[c][i].id = mode[c].id /\ flight[c][i].item = Head(chan[c])
  ELSE chan[c] = Coming(c)

IdsInv(c) == IdsUnique(c) /\ IdsSent(c) /\ IdsPaired(c) /\ Aligned(c)

IndInv == Shaped /\ \A c \in Sides : Holds(c) /\ IdsInv(c)

------------------------------------------------------------------------------
(* The messages without a packet id, in a queue which grows or shrinks.        *)

\* Two queues of the same new requests have the same new messages.
LEMMA NewItemsOf ==
  ASSUME NEW q, NEW r, Selected(q, NewAt(q)) = Selected(r, NewAt(r))
  PROVE  NewItems(q) = NewItems(r)
  BY DEF NewItems

LEMMA NewItemsSeq ==
  ASSUME NEW S, NEW T, NEW q \in Seq(S), \A i \in NewAt(q) : q[i].item \in T
  PROVE  NewItems(q) \in Seq(T)
<1> DEFINE s == Selected(q, NewAt(q))
           p == Positions(NewAt(q))
<1>1. NewAt(q) \in SUBSET DOMAIN q
  BY DEF NewAt
<1>2. /\ s \in Seq(S) /\ Len(s) = Cardinality(NewAt(q)) /\ DOMAIN s = 1 .. Len(s)
      /\ \A k \in 1 .. Cardinality(NewAt(q)) : p[k] \in NewAt(q) /\ s[k] = q[p[k]]
  BY <1>1, SelectedProperties
<1>3. NewItems(q) = [k \in DOMAIN s |-> s[k].item]
  BY DEF NewItems
<1> HIDE DEF s, p
<1>4. \A k \in 1 .. Len(s) : s[k].item \in T
  BY <1>2
<1>5. NewItems(q) \in [1 .. Len(s) -> T] /\ Len(s) \in Nat
  BY <1>2, <1>3, <1>4
<1> QED
  BY <1>5, SeqDef

LEMMA NewItemsNone ==
  ASSUME NEW S, NEW q \in Seq(S), NewAt(q) = {}
  PROVE  NewItems(q) = <<>>
<1>1. Selected(q, NewAt(q)) = <<>>
  BY SelectedNone
<1>2. NewItems(q) = [k \in DOMAIN <<>> |-> <<>>[k].item]
  BY <1>1 DEF NewItems
<1> QED
  BY <1>2

LEMMA NewItemsOne ==
  ASSUME NEW S, NEW r \in S
  PROVE  NewItems(<<r>>) = IF r.do = "pub" /\ r.id = 0 THEN <<r.item>> ELSE <<>>
<1>1. <<r>> \in Seq(S) /\ DOMAIN <<r>> = {1} /\ <<r>>[1] = r
  OBVIOUS
<1>2. CASE r.do = "pub" /\ r.id = 0
  <2>1. NewAt(<<r>>) = {1}
    BY <1>1, <1>2 DEF NewAt
  <2>2. Selected(<<r>>, NewAt(<<r>>)) = <<r>>
    BY <2>1, SelectedOne
  <2>3. NewItems(<<r>>) = [k \in DOMAIN <<r>> |-> <<r>>[k].item]
    BY <2>2 DEF NewItems
  <2> QED
    BY <1>1, <1>2, <2>3
<1>3. CASE ~(r.do = "pub" /\ r.id = 0)
  <2>1. NewAt(<<r>>) = {}
    BY <1>1, <1>3 DEF NewAt
  <2> QED
    BY <1>1, <1>3, <2>1, NewItemsNone
<1> QED
  BY <1>2, <1>3

LEMMA NewItemsConcat ==
  ASSUME NEW S, NEW q \in Seq(S), NEW r \in Seq(S)
  PROVE  NewItems(q \o r) = NewItems(q) \o NewItems(r)
<1> DEFINE I == NewAt(q)
           J == NewAt(r)
           u == Selected(q, I)
           v == Selected(r, J)
<1>1. /\ Len(q) \in Nat /\ DOMAIN q = 1 .. Len(q) /\ Len(r) \in Nat /\ DOMAIN r = 1 .. Len(r)
      /\ q \o r \in Seq(S) /\ DOMAIN (q \o r) = 1 .. Len(q) + Len(r)
      /\ \A i \in 1 .. Len(q) : (q \o r)[i] = q[i]
      /\ \A i \in 1 .. Len(r) : (q \o r)[Len(q) + i] = r[i]
  OBVIOUS
<1>2. I \in SUBSET DOMAIN q /\ J \in SUBSET DOMAIN r
  BY DEF NewAt
<1> DEFINE P == {x \in S : x.do = "pub" /\ x.id = 0}
<1>3. Holding(q, P) = I /\ Holding(r, P) = J /\ Holding(q \o r, P) = NewAt(q \o r)
  <2>1. \A t \in Seq(S) : \A i \in DOMAIN t : t[i] \in S
    OBVIOUS
  <2>2. \A t \in Seq(S) : Holding(t, P) = NewAt(t)
    BY <2>1 DEF Holding, NewAt
  <2> QED
    BY <1>1, <2>2
<1>4. Selected(q \o r, NewAt(q \o r)) = u \o v
  <2> HIDE DEF P, I, J
  <2>1. Selected(q \o r, Holding(q \o r, P)) = Selected(q, Holding(q, P)) \o Selected(r, Holding(r, P))
    BY SelectedConcat
  <2> QED
    BY <1>3, <2>1
<1>5. /\ u \in Seq(S) /\ v \in Seq(S)
      /\ NewItems(q) = [k \in DOMAIN u |-> u[k].item]
      /\ NewItems(r) = [k \in DOMAIN v |-> v[k].item]
      /\ NewItems(q \o r) = [k \in DOMAIN (u \o v) |-> (u \o v)[k].item]
  BY <1>2, <1>4, SelectedProperties DEF NewItems
<1> HIDE DEF u, v
<1> DEFINE a == NewItems(q)
           b == NewItems(r)
           c == NewItems(q \o r)
<1>6. /\ Len(u) \in Nat /\ DOMAIN u = 1 .. Len(u) /\ Len(v) \in Nat /\ DOMAIN v = 1 .. Len(v)
      /\ DOMAIN (u \o v) = 1 .. Len(u) + Len(v)
      /\ \A i \in 1 .. Len(u) : (u \o v)[i] = u[i]
      /\ \A i \in 1 .. Len(v) : (u \o v)[Len(u) + i] = v[i]
  BY <1>5
<1> DEFINE T == {u[k].item : k \in 1 .. Len(u)} \cup {v[k].item : k \in 1 .. Len(v)}
<1>7. a \in [1 .. Len(u) -> T] /\ b \in [1 .. Len(v) -> T]
  BY <1>5, <1>6
<1>8. /\ DOMAIN a = 1 .. Len(u) /\ DOMAIN b = 1 .. Len(v) /\ DOMAIN c = 1 .. Len(u) + Len(v)
      /\ \A k \in 1 .. Len(u) : a[k] = u[k].item /\ c[k] = u[k].item
      /\ \A k \in 1 .. Len(v) : b[k] = v[k].item /\ c[Len(u) + k] = v[k].item
      /\ c = [k \in 1 .. Len(u) + Len(v) |-> (u \o v)[k].item]
  <2>1. \A k \in 1 .. Len(u) : k \in 1 .. Len(u) + Len(v)
    BY <1>6
  <2>2. \A k \in 1 .. Len(v) : Len(u) + k \in 1 .. Len(u) + Len(v)
    BY <1>6
  <2> QED
    BY <1>5, <1>6, <2>1, <2>2
<1> HIDE DEF a, b, c, T
<1>9. a \in Seq(T) /\ b \in Seq(T) /\ Len(a) = Len(u) /\ Len(b) = Len(v)
  <2>1. \A n \in Nat : \A f \in [1 .. n -> T] : f \in Seq(T)
    BY SeqDef
  <2>2. a \in Seq(T) /\ b \in Seq(T)
    BY <1>6, <1>7, <2>1
  <2>3. Len(a) = Len(u)
    BY <1>6, <1>8, <2>2, LenProperties
  <2>4. Len(b) = Len(v)
    BY <1>6, <1>8, <2>2, LenProperties
  <2> QED
    BY <2>2, <2>3, <2>4
<1>10. ASSUME NEW k \in 1 .. Len(u) + Len(v) PROVE c[k] = (a \o b)[k]
  <2>1. CASE k <= Len(u)
    <3>1. k \in 1 .. Len(u)
      BY <1>6, <2>1
    <3>2. (a \o b)[k] = a[k]
      BY <1>9, <3>1
    <3> QED
      BY <1>8, <3>1, <3>2
  <2>2. CASE ~(k <= Len(u))
    <3>1. k - Len(u) \in 1 .. Len(v) /\ Len(u) + (k - Len(u)) = k
      BY <1>6, <2>2
    <3>2. (a \o b)[k] = b[k - Len(u)]
      BY <1>9, <2>2, <1>6, ConcatProperties
    <3>3. c[Len(u) + (k - Len(u))] = b[k - Len(u)]
      BY <1>8, <3>1
    <3> QED
      BY <3>1, <3>2, <3>3
  <2> QED
    BY <2>1, <2>2
<1>11. c \in Seq(T) /\ a \o b \in Seq(T) /\ Len(c) = Len(u) + Len(v)
       /\ Len(a \o b) = Len(u) + Len(v)
  <2>1. a \o b \in Seq(T) /\ Len(a \o b) = Len(u) + Len(v)
    BY <1>9
  <2>2. \A k \in 1 .. Len(u) + Len(v) : c[k] \in T
    BY <1>6, <1>10, <2>1, ElementOfSeq
  <2>3. c \in [1 .. Len(u) + Len(v) -> T]
    BY <1>8, <2>2
  <2>4. Len(u) + Len(v) \in Nat
    BY <1>6
  <2>5. c \in Seq(T)
    BY <2>3, <2>4, SeqDef
  <2> QED
    BY <1>8, <2>1, <2>4, <2>5
<1>12. c = a \o b
  BY <1>10, <1>11, SeqEqual
<1> QED
  BY <1>12 DEF a, b, c

\* What is dropped of a queue that is sent again has no packet id to come.
LEMMA NewItemsOfPubs ==
  ASSUME NEW S, NEW q \in Seq(S), NEW I, I = {i \in DOMAIN q : q[i].do = "pub"}
  PROVE  NewItems(Selected(q, I)) = NewItems(q)
<1> DEFINE s == Selected(q, I)
           p == Positions(I)
           n == Cardinality(I)
           J == NewAt(s)
           K == NewAt(q)
<1>1. I \in SUBSET DOMAIN q /\ K \in SUBSET I
  BY DEF NewAt
<1>2. /\ s \in Seq(S) /\ n \in Nat /\ DOMAIN s = 1 .. n
      /\ \A k \in 1 .. n : p[k] \in I /\ s[k] = q[p[k]]
  BY <1>1, SelectedProperties
<1>3. J \in SUBSET DOMAIN s /\ s = Selected(q, I)
  BY DEF NewAt
<1> HIDE DEF s, n
<1>4. \A j \in DOMAIN s : p[j] \in K <=> j \in J
  BY <1>1, <1>2 DEF NewAt
<1>5. Selected(s, J) = Selected(q, K)
  <2> HIDE DEF J, K
  <2> QED
    BY <1>1, <1>3, <1>4, SelectedTwice
<1>6. NewItems(s) = NewItems(q)
  BY <1>5, NewItemsOf
<1> QED
  BY <1>6 DEF s

\* The first request of a queue.
LEMMA NewItemsHead ==
  ASSUME NEW S, NEW q \in Seq(S), q # <<>>
  PROVE  NewItems(q) = (IF Head(q).do = "pub" /\ Head(q).id = 0 THEN <<Head(q).item>> ELSE <<>>)
                         \o NewItems(Tail(q))
<1>1. Head(q) \in S /\ Tail(q) \in Seq(S) /\ <<Head(q)>> \in Seq(S) /\ q = <<Head(q)>> \o Tail(q)
  OBVIOUS
<1>2. NewItems(<<Head(q)>> \o Tail(q)) = NewItems(<<Head(q)>>) \o NewItems(Tail(q))
  BY <1>1, NewItemsConcat
<1> QED
  BY <1>1, <1>2, NewItemsOne

\* A request added to a queue.
LEMMA NewItemsAppend ==
  ASSUME NEW S, NEW q \in Seq(S), NEW r \in S
  PROVE  NewItems(Append(q, r)) =
           NewItems(q) \o (IF r.do = "pub" /\ r.id = 0 THEN <<r.item>> ELSE <<>>)
<1>1. <<r>> \in Seq(S) /\ Append(q, r) = q \o <<r>>
  OBVIOUS
<1>2. NewItems(q \o <<r>>) = NewItems(q) \o NewItems(<<r>>)
  BY <1>1, NewItemsConcat
<1> QED
  BY <1>1, <1>2, NewItemsOne

------------------------------------------------------------------------------
(* What a step leaves as it is.                                                *)

LEMMA SidesFacts ==
  \A c \in Sides : Other(c) \in Sides /\ Other(Other(c)) = c /\ Other(c) # c
  BY DEF Sides, Other

\* A broker forgets nothing it has received.
Grows == \A c \in Sides : got[c] \subseteq got'[c]

LEMMA SetsGrow ==
  ASSUME Grows, NEW c \in Sides
  PROVE  From(c) \subseteq From(c)' /\ Onto(c) \subseteq Onto(c)' /\ Settled(c) \subseteq Settled(c)'
<1>1. \A m \in Msgs : Arrived(m) => Arrived(m)'
  BY BridgeAssumption, SidesFacts DEF Grows, Arrived
<1>2. \A d \in Sides : From(d) \subseteq From(d)'
  BY <1>1 DEF From, Insts
<1>3. Onto(c) \subseteq Onto(c)'
  BY <1>2, SidesFacts DEF Onto
<1>4. Settled(c) \subseteq Settled(c)'
  BY <1>2, SidesFacts DEF Settled, Grows
<1> QED
  BY <1>2, <1>3, <1>4

LEMMA QueuesGrow ==
  ASSUME Grows, NEW c \in Sides
  PROVE  /\ \A q \in Seq(Received(c)) : q \in Seq(Received(c)')
         /\ \A q \in Seq(Pubs(c, Nat)) : q \in Seq(Pubs(c, Nat)')
         /\ \A q \in Seq(Pubs(c, Nat) \cup Acks(c)) : q \in Seq(Pubs(c, Nat)' \cup Acks(c)')
         /\ \A q \in Seq(Pubs(c, {0}) \cup Acks(c)) : q \in Seq(Pubs(c, {0})' \cup Acks(c)')
         /\ \A q \in Seq(Onto(c)) : q \in Seq(Onto(c)')
         /\ \A q \in Seq(From(Other(c))) : q \in Seq(From(Other(c))')
         /\ Modes(c) \subseteq Modes(c)'
<1>1. From(c) \subseteq From(c)' /\ Onto(c) \subseteq Onto(c)' /\ Settled(c) \subseteq Settled(c)'
  BY SetsGrow
<1>2. From(Other(c)) \subseteq From(Other(c))'
  BY SetsGrow, SidesFacts
<1>3. Received(c) \subseteq Received(c)'
  BY <1>1 DEF Received
<1>4. Pubs(c, Nat) \subseteq Pubs(c, Nat)' /\ Pubs(c, {0}) \subseteq Pubs(c, {0})'
  BY <1>1 DEF Pubs
<1>5. Acks(c) \subseteq Acks(c)'
  BY <1>1 DEF Acks
<1>6. Modes(c) \subseteq Modes(c)'
  BY <1>1 DEF Modes
<1>7. /\ Pubs(c, Nat) \cup Acks(c) \subseteq Pubs(c, Nat)' \cup Acks(c)'
      /\ Pubs(c, {0}) \cup Acks(c) \subseteq Pubs(c, {0})' \cup Acks(c)'
  BY <1>4, <1>5
<1>8. \A q \in Seq(Received(c)) : q \in Seq(Received(c)')
  BY <1>3, SeqMonotonic
<1>9. \A q \in Seq(Pubs(c, Nat)) : q \in Seq(Pubs(c, Nat)')
  BY <1>4, SeqMonotonic
<1>10. \A q \in Seq(Pubs(c, Nat) \cup Acks(c)) : q \in Seq(Pubs(c, Nat)' \cup Acks(c)')
  <2> DEFINE S == Pubs(c, Nat) \cup Acks(c)
             T == Pubs(c, Nat)' \cup Acks(c)'
  <2>1. S \subseteq T
    BY <1>7
  <2> HIDE DEF S, T
  <2>2. \A q \in Seq(S) : q \in Seq(T)
    BY <2>1, SeqMonotonic
  <2> QED
    BY <2>2 DEF S, T
<1>11. \A q \in Seq(Pubs(c, {0}) \cup Acks(c)) : q \in Seq(Pubs(c, {0})' \cup Acks(c)')
  <2> DEFINE S == Pubs(c, {0}) \cup Acks(c)
             T == Pubs(c, {0})' \cup Acks(c)'
  <2>1. S \subseteq T
    BY <1>7
  <2> HIDE DEF S, T
  <2>2. \A q \in Seq(S) : q \in Seq(T)
    BY <2>1, SeqMonotonic
  <2> QED
    BY <2>2 DEF S, T
<1>12. \A q \in Seq(Onto(c)) : q \in Seq(Onto(c)')
  BY <1>1, SeqMonotonic
<1>13. \A q \in Seq(From(Other(c))) : q \in Seq(From(Other(c))')
  BY <1>2, SeqMonotonic
<1> QED
  BY <1>6, <1>8, <1>9, <1>10, <1>11, <1>12, <1>13

NetStill(c) ==
  /\ wire'[c] = wire[c] /\ sent'[c] = sent[c] /\ owed'[c] = owed[c] /\ acked'[c] = acked[c]
  /\ link'[c] = link[c]
ClientStill(c) ==
  reqs'[c] = reqs[c] /\ again'[c] = again[c] /\ flight'[c] = flight[c] /\ lastId'[c] = lastId[c]
BridgeStill(c) == mode'[c] = mode[c] /\ echoes'[c] = echoes[c] /\ paired'[c] = paired[c]
TaskStill(c) == chan'[c] = chan[c] /\ writer'[c] = writer[c]

LEMMA NetSame ==
  ASSUME Grows, NEW c \in Sides, NetHolds(c), NetStill(c)
  PROVE  NetHolds(c)'
<1>1. wire[c] \in Seq(Received(c)') /\ sent[c] \in Seq(Pubs(c, Nat)' \cup Acks(c)')
  BY QueuesGrow DEF NetHolds
<1>2. owed[c] \subseteq From(c)' /\ acked[c] \subseteq Settled(c)'
  BY SetsGrow DEF NetHolds
<1> QED
  BY <1>1, <1>2 DEF NetHolds, NetStill

LEMMA ClientSame ==
  ASSUME Grows, NEW c \in Sides, ClientHolds(c), ClientStill(c)
  PROVE  ClientHolds(c)'
<1>1. /\ reqs[c] \in Seq(Pubs(c, {0})' \cup Acks(c)')
      /\ again[c] \in Seq(Pubs(c, Nat)') /\ flight[c] \in Seq(Pubs(c, Nat)')
  BY QueuesGrow DEF ClientHolds
<1> QED
  BY <1>1 DEF ClientHolds, ClientStill

LEMMA BridgeSame ==
  ASSUME Grows, NEW c \in Sides, BridgeHolds(c), BridgeStill(c), lastId'[c] = lastId[c]
  PROVE  BridgeHolds(c)'
<1>1. mode[c] \in Modes(c)' /\ echoes[c] \in Seq(From(Other(c))')
  BY QueuesGrow DEF BridgeHolds
<1>2. \A id \in DOMAIN paired[c] : paired[c][id] \in From(Other(c))'
  BY SetsGrow, SidesFacts DEF BridgeHolds
<1> QED
  BY <1>1, <1>2 DEF BridgeHolds, BridgeStill

LEMMA TaskSame ==
  ASSUME Grows, NEW c \in Sides, TaskHolds(c), TaskStill(c), queue'[c] = queue[c]
  PROVE  TaskHolds(c)'
<1>1. chan[c] \in Seq(Onto(c)') /\ queue[c] \in Seq(Pubs(c, {0})' \cup Acks(c)')
  BY QueuesGrow DEF TaskHolds
<1>2. writer[c] \in Onto(c)' \cup {None}
  BY SetsGrow DEF TaskHolds
<1> QED
  BY <1>1, <1>2 DEF TaskHolds, TaskStill

LEMMA UniqueSame ==
  ASSUME NEW c \in Sides, IdsUnique(c), flight'[c] = flight[c], again'[c] = again[c],
         lastId'[c] = lastId[c], link'[c] = "lost" => link[c] = "lost"
  PROVE  IdsUnique(c)'
  BY DEF IdsUnique, NotAgain

LEMMA SentSame ==
  ASSUME Grows, NEW c \in Sides, IdsSent(c), sent'[c] = sent[c], wire'[c] = wire[c], ClientStill(c)
  PROVE  IdsSent(c)'
  BY DEF Grows, IdsSent, NotAgain, ClientStill

LEMMA PairedSame ==
  ASSUME NEW c \in Sides, IdsPaired(c), flight'[c] = flight[c], again'[c] = again[c],
         paired'[c] = paired[c], mode'[c] = mode[c] \/ mode[c].do # "pair"
  PROVE  IdsPaired(c)'
<1>1. \A r : Known(c, r) => Known(c, r)'
  BY DEF Known, Pairing
<1> QED
  BY <1>1 DEF IdsPaired

LEMMA AlignedSame ==
  ASSUME NEW c \in Sides, Aligned(c), ClientStill(c), TaskStill(c), mode'[c] = mode[c],
         paired'[c] = paired[c]
  PROVE  Aligned(c)'
<1>1. Coming(c)' = Coming(c)
  BY DEF Coming, Trail, ClientStill, TaskStill
<1> QED
  BY <1>1 DEF Aligned, ClientStill, TaskStill

\* The side a step is not about.
LEMMA SideStill ==
  ASSUME Grows, NEW c \in Sides, Holds(c), IdsInv(c),
         NetStill(c), ClientStill(c), BridgeStill(c), TaskStill(c), TaskHolds(c)'
  PROVE  Holds(c)' /\ IdsInv(c)'
<1>1. NetHolds(c)' /\ ClientHolds(c)' /\ BridgeHolds(c)'
  BY NetSame, ClientSame, BridgeSame DEF Holds, ClientStill
<1>2. IdsUnique(c)' /\ IdsSent(c)' /\ IdsPaired(c)'
  BY UniqueSame, SentSame, PairedSame DEF IdsInv, NetStill, ClientStill, BridgeStill
<1>3. Aligned(c)'
  BY AlignedSame DEF IdsInv, BridgeStill
<1> QED
  BY <1>1, <1>2, <1>3 DEF Holds, IdsInv

\* A step of the side c, which adds nothing to the queue of the other side.
LEMMA OneSide ==
  ASSUME IndInv, Grows, Shaped', NEW c \in Sides, Holds(c)', IdsInv(c)',
         \A d \in Sides : d # c =>
           NetStill(d) /\ ClientStill(d) /\ BridgeStill(d) /\ TaskStill(d) /\ TaskHolds(d)'
  PROVE  IndInv'
<1> SUFFICES ASSUME NEW d \in Sides, d # c PROVE Holds(d)' /\ IdsInv(d)'
  BY DEF IndInv
<1> QED
  BY SideStill DEF IndInv

------------------------------------------------------------------------------
(* Queues.                                                                     *)

LEMMA TailAt ==
  ASSUME NEW S, NEW q \in Seq(S), q # <<>>
  PROVE  /\ Head(q) \in S /\ Tail(q) \in Seq(S) /\ Len(q) \in Nat /\ Len(q) >= 1 /\ Head(q) = q[1]
         /\ 1 \in DOMAIN q /\ Len(Tail(q)) = Len(q) - 1
         /\ \A i \in DOMAIN Tail(q) : i + 1 \in DOMAIN q /\ i + 1 # 1 /\ Tail(q)[i] = q[i + 1]
  OBVIOUS

LEMMA AppendAt ==
  ASSUME NEW S, NEW q \in Seq(S), NEW x \in S
  PROVE  /\ Append(q, x) \in Seq(S) /\ Len(q) \in Nat
         /\ Len(q) + 1 \in DOMAIN Append(q, x) /\ Append(q, x)[Len(q) + 1] = x
         /\ \A i \in DOMAIN q : i \in DOMAIN Append(q, x) /\ Append(q, x)[i] = q[i]
         /\ \A i \in DOMAIN Append(q, x) : i \in DOMAIN q \/ i = Len(q) + 1
         /\ \A i \in DOMAIN q : i # Len(q) + 1
  OBVIOUS

LEMMA ConcatAt ==
  ASSUME NEW S, NEW q \in Seq(S), NEW r \in Seq(S)
  PROVE  /\ q \o r \in Seq(S) /\ Len(q) \in Nat
         /\ \A i \in DOMAIN q : i \in DOMAIN (q \o r) /\ (q \o r)[i] = q[i]
         /\ \A i \in DOMAIN r : Len(q) + i \in DOMAIN (q \o r) /\ (q \o r)[Len(q) + i] = r[i]
         /\ \A i \in DOMAIN (q \o r) : \/ i \in DOMAIN q
                                       \/ i \notin DOMAIN q /\ i - Len(q) \in DOMAIN r
                                            /\ (q \o r)[i] = r[i - Len(q)]
  OBVIOUS

------------------------------------------------------------------------------
(* The steps.                                                                  *)

LEMMA InvInit == Init => IndInv
<1> SUFFICES ASSUME Init PROVE IndInv
  OBVIOUS
<1>1. Shaped
  BY DEF Init, Shaped
<1> SUFFICES ASSUME NEW c \in Sides PROVE Holds(c) /\ IdsInv(c)
  BY <1>1 DEF IndInv
<1>2. /\ link[c] = "down" /\ wire[c] = <<>> /\ sent[c] = <<>> /\ owed[c] = {} /\ acked[c] = {}
      /\ reqs[c] = <<>> /\ again[c] = <<>> /\ flight[c] = <<>> /\ lastId[c] = 0
      /\ paired[c] = <<>> /\ echoes[c] = <<>> /\ mode[c] = Polling /\ chan[c] = <<>>
      /\ queue[c] = <<>> /\ writer[c] = None
  BY DEF Init
<1>3. NetHolds(c)
  BY <1>2, FS_EmptySet DEF NetHolds
<1>4. ClientHolds(c) /\ TaskHolds(c)
  BY <1>2 DEF ClientHolds, TaskHolds
<1>5. BridgeHolds(c)
  BY <1>2 DEF BridgeHolds, Modes, Polling
<1>6. IdsUnique(c) /\ IdsSent(c) /\ IdsPaired(c)
  BY <1>2 DEF IdsUnique, IdsSent, IdsPaired
<1>7. Aligned(c)
  <2>1. again[c] \o reqs[c] = <<>> /\ NewAt(<<>>) = {} /\ <<>> \in Seq({})
    BY <1>2 DEF NewAt
  <2>2. NewItems(again[c] \o reqs[c]) = <<>>
    BY <2>1, NewItemsNone
  <2>3. Coming(c) = <<>>
    BY <1>2, <2>2 DEF Coming, Trail
  <2> QED
    BY <1>2, <2>3 DEF Aligned, Polling
<1> QED
  BY <1>3, <1>4, <1>5, <1>6, <1>7 DEF Holds, IdsInv

\* What both the source and the target of a message may add to the packets of a side.
LEMMA PublishedThere ==
  ASSUME NEW m \in Msgs
  PROVE  Inst(m, 0) \in From(Origin[m]) /\ Origin[m] \in Sides
  BY BridgeAssumption DEF From, Insts, Inst

\* A step between a broker and the bridge.
LEMMA NetStep ==
  ASSUME IndInv, Grows, Shaped', NEW c \in Sides,
         UNCHANGED clientVars, UNCHANGED halfVars, UNCHANGED taskVars,
         \A d \in Sides : d # c => NetStill(d),
         NetHolds(c)', IdsUnique(c)', IdsSent(c)'
  PROVE  IndInv'
<1>1. \A d \in Sides : ClientStill(d) /\ BridgeStill(d) /\ TaskStill(d) /\ queue'[d] = queue[d]
  BY DEF ClientStill, BridgeStill, TaskStill, clientVars, halfVars, taskVars
<1>2. \A d \in Sides : TaskHolds(d)'
  BY <1>1, TaskSame DEF IndInv, Holds
<1>3. ClientHolds(c)' /\ BridgeHolds(c)'
  BY <1>1, ClientSame, BridgeSame DEF IndInv, Holds, ClientStill
<1>4. IdsPaired(c)' /\ Aligned(c)'
  BY <1>1, PairedSame, AlignedSame DEF IndInv, IdsInv, ClientStill, BridgeStill
<1>5. Holds(c)' /\ IdsInv(c)'
  BY <1>2, <1>3, <1>4 DEF Holds, IdsInv
<1> QED
  BY <1>1, <1>2, <1>5, OneSide

LEMMA SourcePublishesInv ==
  ASSUME IndInv, NEW m \in Msgs, SourcePublishes(m)
  PROVE  IndInv'
<1> DEFINE c == Origin[m]
           x == Inst(m, 0)
<1>1. c \in Sides /\ x \in From(c)
  BY PublishedThere
<1> HIDE DEF c, x
<1>2. /\ wire' = IF link[c] = "up" THEN Push(wire, c, Pub(0, x)) ELSE wire
      /\ owed' = IF Qos1(x) /\ (link[c] = "up" \/ c \in Persistent)
                 THEN [owed EXCEPT ![c] = @ \cup {x}] ELSE owed
      /\ UNCHANGED <<link, sent, got, acked, clientVars, halfVars, taskVars>>
  BY DEF SourcePublishes, c, x
<1>3. /\ got' = got /\ UNCHANGED clientVars /\ UNCHANGED halfVars /\ UNCHANGED taskVars
      /\ link' = link /\ sent' = sent /\ acked' = acked
  BY <1>2
<1>4. Grows
  BY <1>3 DEF Grows
<1>5. Shaped'
  BY <1>2, <1>3 DEF IndInv, Shaped, Push, clientVars, halfVars, taskVars
<1>7. \A d \in Sides : d # c => NetStill(d)
  BY <1>2 DEF NetStill, Push
<1>9. Holds(c) /\ IdsInv(c) /\ DOMAIN wire = Sides /\ DOMAIN owed = Sides
  BY <1>1 DEF IndInv, Shaped
<1>10. Pub(0, x) \in Received(c)
  BY <1>1 DEF Received, Pub
<1>11. /\ wire'[c] = wire[c] \/ (link[c] = "up" /\ wire'[c] = Append(wire[c], Pub(0, x)))
       /\ owed'[c] = owed[c] \/ owed'[c] = owed[c] \cup {x}
  <2>1. wire'[c] = wire[c] \/ (link[c] = "up" /\ wire'[c] = Append(wire[c], Pub(0, x)))
    BY <1>1, <1>2, <1>9 DEF Push
  <2>2. owed' = owed \/ owed' = [owed EXCEPT ![c] = @ \cup {x}]
    BY <1>2
  <2>3. owed'[c] = owed[c] \/ owed'[c] = owed[c] \cup {x}
    BY <1>1, <1>9, <2>2
  <2> QED
    BY <2>1, <2>3
<1>12. Received(c)' = Received(c) /\ From(c)' = From(c) /\ Settled(c)' = Settled(c)
       /\ Pubs(c, Nat)' = Pubs(c, Nat) /\ Acks(c)' = Acks(c)
  BY <1>3 DEF Received, From, Settled, Pubs, Acks, Onto, Arrived
<1>13. NetHolds(c)'
  <2>1. wire'[c] \in Seq(Received(c)')
    BY <1>9, <1>10, <1>11, <1>12 DEF Holds, NetHolds
  <2>2. owed'[c] \subseteq From(c)' /\ IsFiniteSet(owed'[c])
    <3>1. owed[c] \subseteq From(c) /\ IsFiniteSet(owed[c])
      BY <1>9 DEF Holds, NetHolds
    <3>2. IsFiniteSet(owed[c] \cup {x})
      BY <3>1, FS_AddElement
    <3> QED
      BY <1>1, <1>11, <1>12, <3>1, <3>2
  <2> QED
    BY <1>3, <1>9, <1>11, <1>12, <2>1, <2>2 DEF Holds, NetHolds
<1>14. IdsSent(c)'
  <2>1. \A i \in DOMAIN wire'[c] : wire'[c][i].do = "puback" =>
          i \in DOMAIN wire[c] /\ wire'[c][i] = wire[c][i]
    BY <1>9, <1>10, <1>11, AppendAt DEF Holds, NetHolds, Pub
  <2> QED
    BY <1>3, <1>9, <2>1 DEF IdsInv, IdsSent, NotAgain, clientVars
<1>15. IdsUnique(c)'
  BY <1>1, <1>3, <1>9, UniqueSame DEF IdsInv, clientVars
<1> QED
  BY <1>1, <1>3, <1>4, <1>5, <1>7, <1>13, <1>14, <1>15, NetStep

LEMMA DisconnectInv ==
  ASSUME IndInv, ~HealthRepeats, NEW c \in Sides, Disconnect(c)
  PROVE  IndInv'
<1>1. /\ link[c] = "up"
      /\ c = "cloud" \/ \A i \in DOMAIN flight[c] : ~IsHealth(flight[c][i].item)
      /\ link' = [link EXCEPT ![c] = "lost"]
      /\ wire' = [wire EXCEPT ![c] = <<>>] /\ sent' = [sent EXCEPT ![c] = <<>>]
      /\ owed' = IF c \in Persistent THEN owed ELSE [owed EXCEPT ![c] = {}]
      /\ got' = got /\ acked' = acked
      /\ UNCHANGED clientVars /\ UNCHANGED halfVars /\ UNCHANGED taskVars
  BY DEF Disconnect
<1>2. Grows
  BY <1>1 DEF Grows
<1>3. Shaped'
  BY <1>1 DEF IndInv, Shaped, clientVars, halfVars, taskVars
<1>4. \A d \in Sides : d # c => NetStill(d)
  BY <1>1 DEF NetStill
<1>5. Holds(c) /\ IdsInv(c) /\ Shaped
  BY DEF IndInv
<1>6. link'[c] = "lost" /\ wire'[c] = <<>> /\ sent'[c] = <<>> /\ acked'[c] = acked[c]
      /\ (owed'[c] = owed[c] \/ owed'[c] = {})
  BY <1>1, <1>5 DEF Shaped
<1>7. From(c)' = From(c) /\ Settled(c)' = Settled(c)
  BY <1>1 DEF From, Settled, Arrived
<1>8. NetHolds(c)'
  <2>1. owed'[c] \subseteq From(c)' /\ IsFiniteSet(owed'[c]) /\ acked'[c] \subseteq Settled(c)'
    BY <1>5, <1>6, <1>7, FS_EmptySet DEF Holds, NetHolds
  <2>2. wire'[c] \in Seq(Received(c)') /\ sent'[c] \in Seq(Pubs(c, Nat)' \cup Acks(c)')
    BY <1>6
  <2> QED
    BY <1>6, <2>1, <2>2 DEF NetHolds
<1>9. IdsSent(c)'
  BY <1>6 DEF IdsSent
<1>10. \A i \in DOMAIN flight[c] : ~IsHealth(flight[c][i].item)
  <2>1. CASE c = "cloud"
    <3>1. flight[c] \in Seq(Pubs(c, Nat)) /\ Onto(c) \subseteq Insts
      BY <1>5, <2>1 DEF Holds, ClientHolds, Onto, From
    <3>2. \A i \in DOMAIN flight[c] : flight[c][i] \in Pubs(c, Nat)
      BY <3>1
    <3>3. \A i \in DOMAIN flight[c] : flight[c][i].item \in Insts
      BY <3>1, <3>2 DEF Pubs
    <3> QED
      BY <3>3, BridgeAssumption DEF Insts, IsHealth
  <2> QED
    BY <1>1, <2>1
<1>11. IdsUnique(c)'
  BY <1>1, <1>5, <1>10 DEF IdsInv, IdsUnique, NotAgain, clientVars
<1> QED
  BY <1>1, <1>2, <1>3, <1>4, <1>8, <1>9, <1>11, NetStep

\* What comes back of a message which a broker has received.
LEMMA EchoSent ==
  ASSUME NEW c \in Sides, NEW x \in Onto(c), ~IsHealth(x), Grows, x \in got'[c]
  PROVE  Inst(x.msg, x.hops + 1) \in From(c)'
<1>1. x \in From(Other(c)) /\ x.msg \in Msgs /\ x.hops \in Nat
  <2>1. x \in From(Other(c)) \/ x \in Healths
    BY DEF Onto
  <2>2. x \notin Healths
    BY DEF Healths, IsHealth
  <2> QED
    BY <2>1, <2>2 DEF From, Insts
<1>2. Arrived(x.msg)'
  <2>1. CASE x.hops = 0
    <3>1. Origin[x.msg] = Other(c) /\ x = Inst(x.msg, 0)
      <4>1. x \in Insts /\ Origin[x.msg] = Other(c)
        BY <1>1, <2>1 DEF From
      <4> QED
        BY <2>1, <4>1 DEF Insts, Inst
    <3> QED
      BY <3>1, SidesFacts DEF Arrived
  <2>2. CASE x.hops # 0
    <3>1. Arrived(x.msg) /\ Other(Origin[x.msg]) \in Sides
      BY <1>1, <2>2, SidesFacts, BridgeAssumption DEF From
    <3> QED
      BY <3>1 DEF Arrived, Grows
  <2> QED
    BY <2>1, <2>2
<1>3. x.hops + 1 \in Nat /\ x.hops + 1 # 0
  BY <1>1
<1> QED
  BY <1>1, <1>2, <1>3 DEF From, Insts, Inst

LEMMA BrokerReceivesInv ==
  ASSUME IndInv, NEW c \in Sides, BrokerReceives(c)
  PROVE  IndInv'
<1> DEFINE p == Head(sent[c])
           x == p.item
           puback == IF Qos1(x) THEN <<PubAck(p.id)>> ELSE <<>>
           echo == Inst(x.msg, x.hops + 1)
           Published ==
             /\ p.do = "pub"
             /\ got' = [got EXCEPT ![c] = @ \cup {x}]
             /\ \/ /\ ~IsHealth(x)
                   /\ \/ wire' = [wire EXCEPT ![c] = @ \o (puback \o <<Pub(0, echo)>>)]
                      \/ wire' = [wire EXCEPT ![c] = @ \o (<<Pub(0, echo)>> \o puback)]
                   /\ owed' = owed \/ owed' = [owed EXCEPT ![c] = @ \cup {echo}]
                \/ wire' = [wire EXCEPT ![c] = @ \o puback] /\ owed' = owed
             /\ acked' = acked
           Acknowledged ==
             /\ p.do = "ack"
             /\ owed' = [owed EXCEPT ![c] = @ \ {x}]
             /\ acked' = [acked EXCEPT ![c] = @ \cup {x}]
             /\ wire' = wire /\ got' = got
<1>1. /\ sent[c] # <<>> /\ sent' = [sent EXCEPT ![c] = Tail(@)] /\ link' = link
      /\ UNCHANGED clientVars /\ UNCHANGED halfVars /\ UNCHANGED taskVars
  BY DEF BrokerReceives, Pop
<1>2. Published \/ Acknowledged
  <2>1. ASSUME p.do = "pub", got' = [got EXCEPT ![c] = @ \cup {x}], UNCHANGED acked,
               IF ~IsHealth(x) /\ x.msg \in Bidirectional
               THEN /\ \E s \in {puback \o <<Pub(0, echo)>>, <<Pub(0, echo)>> \o puback} :
                         wire' = [wire EXCEPT ![c] = @ \o s]
                    /\ owed' = IF Qos1(x) THEN [owed EXCEPT ![c] = @ \cup {echo}] ELSE owed
               ELSE wire' = [wire EXCEPT ![c] = @ \o puback] /\ UNCHANGED owed
        PROVE  Published
    BY <2>1
  <2> QED
    BY <2>1 DEF BrokerReceives
<1>3. Holds(c) /\ IdsInv(c) /\ Shaped
  BY DEF IndInv
<1>4. /\ sent[c] \in Seq(Pubs(c, Nat) \cup Acks(c)) /\ wire[c] \in Seq(Received(c))
      /\ owed[c] \subseteq From(c) /\ IsFiniteSet(owed[c]) /\ acked[c] \subseteq Settled(c)
      /\ link[c] = "up"
  BY <1>1, <1>3 DEF Holds, NetHolds
<1>5. p \in Pubs(c, Nat) \cup Acks(c) /\ p = sent[c][1] /\ 1 \in DOMAIN sent[c]
  BY <1>1, <1>4
<1>6. Shaped'
  BY <1>1, <1>2, <1>3 DEF Shaped, clientVars, halfVars, taskVars
<1>7. Grows
  BY <1>2, <1>3 DEF Grows, Shaped
<1>8. ASSUME NEW d \in Sides, d # c PROVE NetStill(d)
  <2>1. sent'[d] = sent[d] /\ link'[d] = link[d]
    BY <1>1, <1>8
  <2>2. acked'[d] = acked[d] /\ owed'[d] = owed[d]
    BY <1>2, <1>3, <1>8 DEF Shaped
  <2>3. wire'[d] = wire[d]
    <3> HIDE DEF puback, echo, x, p
    <3>1. \/ wire' = wire \/ wire' = [wire EXCEPT ![c] = @ \o puback]
          \/ wire' = [wire EXCEPT ![c] = @ \o (puback \o <<Pub(0, echo)>>)]
          \/ wire' = [wire EXCEPT ![c] = @ \o (<<Pub(0, echo)>> \o puback)]
      BY <1>2
    <3> QED
      BY <1>3, <1>8, <3>1 DEF Shaped
  <2> QED
    BY <2>1, <2>2, <2>3 DEF NetStill
<1>9. /\ sent'[c] = Tail(sent[c]) /\ link'[c] = "up"
      /\ Tail(sent[c]) \in Seq(Pubs(c, Nat) \cup Acks(c))
      /\ \A i \in DOMAIN Tail(sent[c]) : i + 1 \in DOMAIN sent[c] /\ Tail(sent[c])[i] = sent[c][i + 1]
  BY <1>1, <1>3, <1>4 DEF Shaped
<1>10. sent'[c] \in Seq(Pubs(c, Nat)' \cup Acks(c)')
  BY <1>7, <1>9, QueuesGrow
<1>11. IdsUnique(c)'
  BY <1>1, <1>3, UniqueSame DEF IdsInv, clientVars
<1>12. \A i \in DOMAIN sent'[c] : sent'[c][i].do = "pub" /\ Qos1(sent'[c][i].item) =>
         /\ sent'[c][i].id \in 1 .. lastId[c] /\ NotAgain(c, sent'[c][i].id)
         /\ \A j \in DOMAIN flight[c] :
              flight[c][j].id = sent'[c][i].id => flight[c][j].item = sent'[c][i].item
  BY <1>3, <1>9 DEF IdsInv, IdsSent
<1>13. wire[c] \in Seq(Received(c)')
  BY <1>4, <1>7, QueuesGrow
<1>14. \A i \in DOMAIN wire[c] : wire[c][i].do = "puback" =>
         /\ wire[c][i].id \in 1 .. lastId[c] /\ NotAgain(c, wire[c][i].id)
         /\ \A j \in DOMAIN flight[c] : flight[c][j].id = wire[c][i].id => flight[c][j].item \in got'[c]
  BY <1>3, <1>7 DEF IdsInv, IdsSent, Grows
<1>15. ASSUME NetHolds(c)',
              \A i \in DOMAIN wire'[c] : wire'[c][i].do = "puback" =>
                /\ wire'[c][i].id \in 1 .. lastId[c] /\ NotAgain(c, wire'[c][i].id)
                /\ \A j \in DOMAIN flight[c] :
                     flight[c][j].id = wire'[c][i].id => flight[c][j].item \in got'[c]
       PROVE  IndInv'
  <2>1. IdsSent(c)'
    BY <1>1, <1>12, <1>15 DEF IdsSent, NotAgain, clientVars
  <2> QED
    BY <1>1, <1>6, <1>7, <1>8, <1>11, <1>15, <2>1, NetStep
<1>16. CASE Acknowledged
  <2>1. x \in Settled(c)
    BY <1>5, <1>16 DEF Acks, Pubs
  <2>2. /\ owed'[c] = owed[c] \ {x} /\ acked'[c] = acked[c] \cup {x} /\ wire'[c] = wire[c]
        /\ got' = got
    BY <1>3, <1>16 DEF Shaped
  <2>3. IsFiniteSet(owed[c] \ {x})
    BY <1>4, FS_RemoveElement
  <2>4. From(c) \subseteq From(c)' /\ Settled(c) \subseteq Settled(c)'
    BY <1>7, SetsGrow
  <2>5. NetHolds(c)'
    BY <1>4, <1>9, <1>10, <1>13, <2>1, <2>2, <2>3, <2>4 DEF NetHolds
  <2> QED
    BY <1>14, <1>15, <2>2, <2>5
<1>17. CASE Published
  <2>1. x \in Onto(c) /\ p.id \in Nat
    BY <1>5, <1>17 DEF Acks, Pubs
  <2>2. got'[c] = got[c] \cup {x} /\ acked'[c] = acked[c]
    BY <1>3, <1>17 DEF Shaped
  <2>3. ~IsHealth(x) => echo \in From(c)'
    BY <1>7, <2>1, <2>2, EchoSent
  <2>4. \/ owed'[c] = owed[c]
        \/ owed'[c] = owed[c] \cup {echo} /\ echo \in From(c)'
    BY <1>3, <1>17, <2>3 DEF Shaped
  <2>5. owed'[c] \subseteq From(c)' /\ IsFiniteSet(owed'[c]) /\ acked'[c] \subseteq Settled(c)'
    <3>1. From(c) \subseteq From(c)' /\ Settled(c) \subseteq Settled(c)'
      BY <1>7, SetsGrow
    <3>2. IsFiniteSet(owed[c] \cup {echo})
      BY <1>4, FS_AddElement
    <3> QED
      BY <1>4, <2>2, <2>4, <3>1, <3>2
  <2> DEFINE Added(s) ==
               /\ wire'[c] = wire[c] \o s /\ s \in Seq(Received(c)')
               /\ \A i \in DOMAIN s : s[i].do = "puback" => s[i].id = p.id /\ Qos1(x)
  <2>6. \E s : Added(s)
    <3>1. /\ puback \in Seq(Received(c)')
          /\ \A i \in DOMAIN puback : puback[i].do = "puback" => puback[i].id = p.id /\ Qos1(x)
      <4>1. CASE Qos1(x)
        <5>1. PubAck(p.id) \in Received(c)' /\ PubAck(p.id).id = p.id
          BY <2>1 DEF Received, PubAck
        <5> QED
          BY <4>1, <5>1
      <4>2. CASE ~Qos1(x)
        BY <4>2
      <4> QED
        BY <4>1, <4>2
    <3> HIDE DEF puback, echo, x, p
    <3>2. CASE wire' = [wire EXCEPT ![c] = @ \o puback]
      <4>1. wire'[c] = wire[c] \o puback
        BY <1>3, <3>2 DEF Shaped
      <4> QED
        BY <3>1, <4>1
    <3>3. ASSUME echo \in From(c)'
          PROVE  /\ <<Pub(0, echo)>> \in Seq(Received(c)')
                 /\ \A i \in DOMAIN <<Pub(0, echo)>> : <<Pub(0, echo)>>[i].do # "puback"
      <4>1. Pub(0, echo) \in Received(c)' /\ Pub(0, echo).do = "pub"
        BY <3>3 DEF Received, Pub
      <4> QED
        BY <4>1
    <3>4. CASE echo \in From(c)' /\ wire' = [wire EXCEPT ![c] = @ \o (puback \o <<Pub(0, echo)>>)]
      <4> DEFINE e == <<Pub(0, echo)>>
                 s == puback \o e
      <4>1. e \in Seq(Received(c)') /\ \A i \in DOMAIN e : e[i].do # "puback"
        BY <3>3, <3>4
      <4>2. wire'[c] = wire[c] \o s
        BY <1>3, <3>4 DEF Shaped
      <4> HIDE DEF e
      <4>3. s \in Seq(Received(c)')
        BY <3>1, <4>1
      <4>4. \A i \in DOMAIN s : s[i].do = "puback" => s[i].id = p.id /\ Qos1(x)
        BY <3>1, <4>1, ConcatAt
      <4> QED
        BY <4>2, <4>3, <4>4
    <3>5. CASE echo \in From(c)' /\ wire' = [wire EXCEPT ![c] = @ \o (<<Pub(0, echo)>> \o puback)]
      <4> DEFINE e == <<Pub(0, echo)>>
                 s == e \o puback
      <4>1. e \in Seq(Received(c)') /\ \A i \in DOMAIN e : e[i].do # "puback"
        BY <3>3, <3>5
      <4>2. wire'[c] = wire[c] \o s
        BY <1>3, <3>5 DEF Shaped
      <4> HIDE DEF e
      <4>3. s \in Seq(Received(c)')
        BY <3>1, <4>1
      <4>4. \A i \in DOMAIN s : s[i].do = "puback" => s[i].id = p.id /\ Qos1(x)
        BY <3>1, <4>1, ConcatAt
      <4> QED
        BY <4>2, <4>3, <4>4
    <3> QED
      BY <1>17, <2>3, <3>2, <3>4, <3>5 DEF x, p, puback, echo
  <2>7. PICK s : Added(s)
    BY <2>6
  <2>8. wire'[c] \in Seq(Received(c)')
    BY <1>13, <2>7
  <2>9. NetHolds(c)'
    BY <1>9, <1>10, <2>5, <2>8 DEF NetHolds
  <2>10. Qos1(x) =>
           /\ p.id \in 1 .. lastId[c] /\ NotAgain(c, p.id)
           /\ \A j \in DOMAIN flight[c] : flight[c][j].id = p.id => flight[c][j].item \in got'[c]
    <3>1. IdsSent(c) /\ 1 \in DOMAIN sent[c] /\ sent[c][1] = p
      BY <1>3, <1>5 DEF IdsInv
    <3> HIDE DEF p
    <3>2. Qos1(p.item) =>
            /\ p.id \in 1 .. lastId[c] /\ NotAgain(c, p.id)
            /\ \A j \in DOMAIN flight[c] : flight[c][j].id = p.id => flight[c][j].item = p.item
      BY <1>17, <3>1 DEF IdsSent
    <3> QED
      BY <2>2, <3>2
  <2> HIDE DEF x, p
  <2>11. \A i \in DOMAIN wire'[c] : \/ i \in DOMAIN wire[c] /\ wire'[c][i] = wire[c][i]
                                    \/ wire'[c][i].do = "puback" => wire'[c][i].id = p.id /\ Qos1(x)
    BY <1>13, <2>7, ConcatAt
  <2> QED
    BY <1>14, <1>15, <2>9, <2>10, <2>11
<1> QED
  BY <1>2, <1>16, <1>17

------------------------------------------------------------------------------
(* The publisher task.                                                         *)

\* Without a publication received by a broker, nothing changes place.
LEMMA SetsSame ==
  ASSUME got' = got, NEW c \in Sides
  PROVE  /\ Grows /\ From(c)' = From(c) /\ Onto(c)' = Onto(c) /\ Settled(c)' = Settled(c)
         /\ Received(c)' = Received(c) /\ Acks(c)' = Acks(c) /\ Modes(c)' = Modes(c)
         /\ Pubs(c, Nat)' = Pubs(c, Nat) /\ Pubs(c, {0})' = Pubs(c, {0})
         /\ From(Other(c))' = From(Other(c))
<1>1. \A d : From(d)' = From(d)
  BY DEF From, Arrived
<1>2. Onto(c)' = Onto(c) /\ Settled(c)' = Settled(c) /\ From(Other(c))' = From(Other(c))
  BY <1>1 DEF Onto, Settled
<1> QED
  BY <1>1, <1>2 DEF Grows, Received, Acks, Modes, Pubs

\* The requests of a client, in the order in which they are to be sent.
LEMMA AllRequests ==
  ASSUME NEW c \in Sides, ClientHolds(c)
  PROVE  /\ again[c] \in Seq(Pubs(c, Nat) \cup Acks(c)) /\ reqs[c] \in Seq(Pubs(c, Nat) \cup Acks(c))
         /\ again[c] \o reqs[c] \in Seq(Pubs(c, Nat) \cup Acks(c))
<1> DEFINE S == Pubs(c, Nat) \cup Acks(c)
<1>1. Pubs(c, Nat) \subseteq S /\ Pubs(c, {0}) \cup Acks(c) \subseteq S
  BY DEF Pubs
<1>2. again[c] \in Seq(Pubs(c, Nat)) /\ reqs[c] \in Seq(Pubs(c, {0}) \cup Acks(c))
  BY DEF ClientHolds
<1> DEFINE T == Pubs(c, {0}) \cup Acks(c)
<1> HIDE DEF S, T
<1>3. again[c] \in Seq(S)
  BY <1>1, <1>2, SeqMonotonic
<1>4. T \subseteq S /\ reqs[c] \in Seq(T)
  BY <1>1, <1>2 DEF T
<1>5. reqs[c] \in Seq(S)
  BY <1>4, SeqMonotonic
<1>6. again[c] \o reqs[c] \in Seq(S)
  BY <1>3, <1>5
<1> QED
  BY <1>3, <1>5, <1>6 DEF S

LEMMA NewOfRequests ==
  ASSUME NEW c \in Sides, NEW q \in Seq(Pubs(c, Nat) \cup Acks(c))
  PROVE  NewItems(q) \in Seq(Onto(c))
<1> DEFINE S == Pubs(c, Nat) \cup Acks(c)
<1>1. \A r \in S : r.do = "pub" => r.item \in Onto(c)
  BY DEF Pubs, Acks
<1>2. q \in Seq(S)
  OBVIOUS
<1> HIDE DEF S
<1>3. \A i \in DOMAIN q : q[i] \in S
  BY <1>2
<1>4. \A i \in NewAt(q) : q[i].item \in Onto(c)
  BY <1>1, <1>3 DEF NewAt
<1> QED
  BY <1>2, <1>4, NewItemsSeq

LEMMA NewSeq ==
  ASSUME NEW c \in Sides, ClientHolds(c)
  PROVE  NewItems(again[c] \o reqs[c]) \in Seq(Onto(c))
  BY AllRequests, NewOfRequests

\* A request queued in the client.
LEMMA RequestAdded ==
  ASSUME NEW c \in Sides, ClientHolds(c), NEW r \in Pubs(c, {0}) \cup Acks(c)
  PROVE  NewItems(again[c] \o Append(reqs[c], r)) =
           NewItems(again[c] \o reqs[c]) \o (IF r.do = "pub" THEN <<r.item>> ELSE <<>>)
<1> DEFINE S == Pubs(c, Nat) \cup Acks(c)
<1>1. r \in S /\ (r.do = "pub" => r.id = 0)
  BY DEF Pubs, Acks
<1>2. again[c] \in Seq(S) /\ reqs[c] \in Seq(S) /\ again[c] \o reqs[c] \in Seq(S)
  BY AllRequests
<1> HIDE DEF S
<1> DEFINE q == again[c] \o reqs[c]
<1>3. again[c] \o Append(reqs[c], r) = Append(q, r)
  <2>1. \A a, b \in Seq(S) : a \o Append(b, r) = Append(a \o b, r)
    BY <1>1, AppendProperties, ConcatProperties, SeqEqual
  <2> QED
    BY <1>2, <2>1
<1>4. q \in Seq(S)
  BY <1>2
<1> HIDE DEF q
<1>5. NewItems(Append(q, r)) =
        NewItems(q) \o (IF r.do = "pub" /\ r.id = 0 THEN <<r.item>> ELSE <<>>)
  BY <1>1, <1>4, NewItemsAppend
<1> QED
  BY <1>1, <1>3, <1>5 DEF q

\* None is no message.
LEMMA NoneIsNone ==
  ASSUME NEW c \in Sides
  PROVE  None \notin Onto(c)
  BY BridgeAssumption DEF Onto, From, Insts, Healths

\* A step of the publisher task: requests, announcements and messages to publish.
LEMMA TaskStep ==
  ASSUME IndInv, Shaped', NEW c \in Sides, UNCHANGED netVars, UNCHANGED halfVars,
         UNCHANGED <<again, flight, lastId>>, Aligned(c)', ClientHolds(c)', TaskHolds(c)',
         \A d \in Sides : d # c =>
           reqs'[d] = reqs[d] /\ chan'[d] = chan[d] /\ queue'[d] = queue[d] /\ writer'[d] = writer[d]
  PROVE  IndInv'
<1>1. /\ got' = got /\ Grows /\ again' = again /\ flight' = flight /\ lastId' = lastId
      /\ \A d \in Sides : NetStill(d) /\ BridgeStill(d)
  BY DEF netVars, halfVars, NetStill, BridgeStill, Grows
<1>2. NetHolds(c)' /\ BridgeHolds(c)'
  BY <1>1, NetSame, BridgeSame DEF IndInv, Holds
<1>3. IdsUnique(c)' /\ IdsPaired(c)'
  BY <1>1, UniqueSame, PairedSame DEF IndInv, IdsInv, NetStill, BridgeStill
<1>4. IdsSent(c)'
  BY <1>1 DEF IndInv, IdsInv, IdsSent, NotAgain, NetStill
<1>5. Holds(c)' /\ IdsInv(c)'
  BY <1>2, <1>3, <1>4 DEF Holds, IdsInv
<1>6. ASSUME NEW d \in Sides, d # c
      PROVE  ClientStill(d) /\ TaskStill(d) /\ TaskHolds(d)'
  <2>1. ClientStill(d) /\ TaskStill(d) /\ queue'[d] = queue[d]
    BY <1>1, <1>6 DEF ClientStill, TaskStill
  <2> QED
    BY <1>1, <2>1, TaskSame DEF IndInv, Holds
<1> QED
  BY <1>1, <1>5, <1>6, OneSide

LEMMA PublisherInv ==
  ASSUME IndInv, NEW c \in Sides, Publisher(c)
  PROVE  IndInv'
<1> DEFINE q == Head(queue[c])
           n == NewItems(again[c] \o reqs[c])
<1>1. /\ queue[c] # <<>> /\ writer[c] = None /\ queue' = [queue EXCEPT ![c] = Tail(@)]
      /\ \/ /\ q.do = "pub" /\ chan' = [chan EXCEPT ![c] = Append(@, q.item)]
            /\ writer' = [writer EXCEPT ![c] = q.item] /\ reqs' = reqs
         \/ /\ q.do = "ack" /\ reqs' = [reqs EXCEPT ![c] = Append(@, q)]
            /\ chan' = chan /\ writer' = writer
  BY DEF Publisher, Pop, Push, Announced
<1>2. /\ UNCHANGED netVars /\ UNCHANGED halfVars /\ UNCHANGED <<again, flight, lastId>>
      /\ got' = got /\ again' = again /\ flight' = flight /\ mode' = mode /\ paired' = paired
      /\ lastId' = lastId
  BY DEF Publisher, netVars, halfVars
<1>3. Holds(c) /\ Aligned(c) /\ Shaped
  BY DEF IndInv, IdsInv
<1>4. Shaped'
  BY <1>1, <1>2, <1>3 DEF Shaped, netVars, halfVars
<1>5. \A d \in Sides : d # c =>
        reqs'[d] = reqs[d] /\ chan'[d] = chan[d] /\ queue'[d] = queue[d] /\ writer'[d] = writer[d]
  <2> HIDE DEF q
  <2> QED
    BY <1>1, <1>3 DEF Shaped
<1>6. /\ q \in Pubs(c, {0}) \cup Acks(c) /\ Tail(queue[c]) \in Seq(Pubs(c, {0}) \cup Acks(c))
      /\ queue'[c] = Tail(queue[c])
      /\ chan[c] \in Seq(Onto(c)) /\ reqs[c] \in Seq(Pubs(c, {0}) \cup Acks(c))
      /\ again[c] \in Seq(Pubs(c, Nat)) /\ flight[c] \in Seq(Pubs(c, Nat)) /\ lastId[c] \in Nat
  BY <1>1, <1>3 DEF Holds, TaskHolds, ClientHolds, Shaped
<1>7. /\ Onto(c)' = Onto(c) /\ Acks(c)' = Acks(c) /\ Pubs(c, Nat)' = Pubs(c, Nat)
      /\ Pubs(c, {0})' = Pubs(c, {0})
  BY <1>2, SetsSame
<1>8. n \in Seq(Onto(c)) /\ Coming(c) = n
  <2>1. n \in Seq(Onto(c))
    BY <1>3, NewSeq DEF Holds
  <2> HIDE DEF n
  <2>2. n \o <<>> = n
    BY <2>1
  <2> QED
    BY <1>1, <2>1, <2>2 DEF Coming, Trail, n
<1>9. CASE /\ q.do = "pub" /\ chan' = [chan EXCEPT ![c] = Append(@, q.item)]
           /\ writer' = [writer EXCEPT ![c] = q.item] /\ reqs' = reqs
  <2>1. q.item \in Onto(c) /\ q.item # None
    BY <1>6, <1>9, NoneIsNone DEF Pubs, Acks
  <2> HIDE DEF q
  <2>2. chan'[c] = Append(chan[c], q.item) /\ writer'[c] = q.item /\ reqs'[c] = reqs[c]
    BY <1>3, <1>9 DEF Shaped
  <2>3. TaskHolds(c)' /\ ClientHolds(c)'
    BY <1>2, <1>6, <1>7, <2>1, <2>2 DEF TaskHolds, ClientHolds
  <2>4. Coming(c)' = n \o <<q.item>>
    BY <1>2, <2>1, <2>2 DEF Coming, Trail
  <2> HIDE DEF n
  <2>5. Append(n, q.item) = n \o <<q.item>>
    BY <1>8, <2>1
  <2>6. chan[c] # <<>> => /\ Append(chan[c], q.item) # <<>>
                          /\ Head(Append(chan[c], q.item)) = Head(chan[c])
                          /\ Tail(Append(chan[c], q.item)) = Append(Tail(chan[c]), q.item)
    <3> DEFINE s == chan[c]
               x == q.item
    <3>1. s \in Seq(Onto(c)) /\ x \in Onto(c)
      BY <1>6, <2>1
    <3> HIDE DEF s, x
    <3>2. s # <<>> => Append(s, x) # <<>> /\ Head(Append(s, x)) = Head(s)
                      /\ Tail(Append(s, x)) = Append(Tail(s), x)
      BY <3>1, HeadTailAppend, AppendProperties
    <3> QED
      BY <3>2 DEF s, x
  <2>7. Aligned(c)'
    BY <1>2, <1>3, <1>8, <2>2, <2>4, <2>5, <2>6 DEF Aligned
  <2> QED
    BY <1>2, <1>4, <1>5, <2>3, <2>7, TaskStep
<1>10. CASE /\ q.do = "ack" /\ reqs' = [reqs EXCEPT ![c] = Append(@, q)]
            /\ chan' = chan /\ writer' = writer
  <2> HIDE DEF q
  <2>1. reqs'[c] = Append(reqs[c], q)
    BY <1>3, <1>10 DEF Shaped
  <2>2. TaskHolds(c)' /\ ClientHolds(c)'
    BY <1>2, <1>3, <1>6, <1>7, <1>10, <2>1 DEF Holds, TaskHolds, ClientHolds
  <2>3. NewItems(again[c] \o Append(reqs[c], q)) = n \o <<>>
    BY <1>3, <1>6, <1>10, RequestAdded DEF Holds
  <2>4. Coming(c)' = n
    <3>1. Trail(c)' = <<>>
      BY <1>1, <1>10 DEF Trail
    <3>2. Coming(c)' = (n \o <<>>) \o <<>>
      BY <1>2, <2>1, <2>3, <3>1 DEF Coming
    <3> HIDE DEF n
    <3> QED
      BY <1>8, <3>2
  <2>5. Aligned(c)'
    BY <1>2, <1>3, <1>8, <1>10, <2>4 DEF Aligned
  <2> QED
    BY <1>2, <1>4, <1>5, <2>2, <2>5, TaskStep
<1> QED
  BY <1>1, <1>9, <1>10

LEMMA PublisherPublishesInv ==
  ASSUME IndInv, NEW c \in Sides, PublisherPublishes(c)
  PROVE  IndInv'
<1> DEFINE r == Pub(0, writer[c])
           n == NewItems(again[c] \o reqs[c])
<1>1. /\ writer[c] # None /\ reqs' = [reqs EXCEPT ![c] = Append(@, r)]
      /\ writer' = [writer EXCEPT ![c] = None] /\ chan' = chan /\ queue' = queue
  BY DEF PublisherPublishes, Push
<1>2. /\ UNCHANGED netVars /\ UNCHANGED halfVars /\ UNCHANGED <<again, flight, lastId>>
      /\ got' = got /\ again' = again /\ flight' = flight /\ mode' = mode /\ paired' = paired
      /\ lastId' = lastId
  BY DEF PublisherPublishes, netVars, halfVars
<1>3. Holds(c) /\ Aligned(c) /\ Shaped
  BY DEF IndInv, IdsInv
<1>4. Shaped'
  BY <1>1, <1>2, <1>3 DEF Shaped, netVars, halfVars
<1>5. \A d \in Sides : d # c =>
        reqs'[d] = reqs[d] /\ chan'[d] = chan[d] /\ queue'[d] = queue[d] /\ writer'[d] = writer[d]
  BY <1>1
<1>6. /\ writer[c] \in Onto(c) /\ r \in Pubs(c, {0}) /\ r.do = "pub" /\ r.item = writer[c]
      /\ reqs[c] \in Seq(Pubs(c, {0}) \cup Acks(c))
  <2>1. writer[c] \in Onto(c)
    BY <1>1, <1>3 DEF Holds, TaskHolds
  <2> QED
    BY <1>3, <2>1 DEF Holds, ClientHolds, Pubs, Pub
<1> HIDE DEF r
<1>7. /\ Onto(c)' = Onto(c) /\ Acks(c)' = Acks(c) /\ Pubs(c, Nat)' = Pubs(c, Nat)
      /\ Pubs(c, {0})' = Pubs(c, {0})
  BY <1>2, SetsSame
<1>8. n \in Seq(Onto(c))
  BY <1>3, NewSeq DEF Holds
<1>9. reqs'[c] = Append(reqs[c], r) /\ writer'[c] = None
  BY <1>1, <1>3 DEF Shaped
<1>10. TaskHolds(c)' /\ ClientHolds(c)'
  BY <1>1, <1>2, <1>3, <1>6, <1>7, <1>9 DEF Holds, TaskHolds, ClientHolds
<1>11. NewItems(again[c] \o Append(reqs[c], r)) = n \o <<writer[c]>>
  BY <1>3, <1>6, RequestAdded DEF Holds
<1>12. Coming(c) = n \o <<writer[c]>> /\ Coming(c)' = (n \o <<writer[c]>>) \o <<>>
  BY <1>1, <1>2, <1>9, <1>11 DEF Coming, Trail
<1> HIDE DEF n
<1>13. Coming(c)' = Coming(c)
  BY <1>6, <1>8, <1>12
<1>14. Aligned(c)'
  BY <1>1, <1>2, <1>3, <1>13 DEF Aligned
<1> QED
  BY <1>2, <1>4, <1>5, <1>10, <1>14, TaskStep

------------------------------------------------------------------------------
(* The half bridge.                                                            *)

\* What is published on a side and is not about the health of the bridge.
LEMMA FromTheOther ==
  ASSUME NEW c \in Sides, NEW x \in Onto(c), ~IsHealth(x)
  PROVE  x \in From(Other(c))
  BY DEF Onto, Healths, IsHealth

LEMMA TakePairingInv ==
  ASSUME IndInv, NEW c \in Sides, TakePairing(c)
  PROVE  IndInv'
<1> DEFINE x == Head(chan[c])
           id == mode[c].id
<1>1. /\ mode[c].do = "pair" /\ chan[c] # <<>> /\ chan' = [chan EXCEPT ![c] = Tail(@)]
      /\ mode' = [mode EXCEPT ![c] = Polling]
      /\ IF IsHealth(x) THEN paired' = paired /\ echoes' = echoes
         ELSE /\ echoes' = echoes \/ echoes' = [echoes EXCEPT ![c] = Append(@, x)]
              /\ paired' = IF id = 0 THEN paired
                           ELSE [paired EXCEPT ![c] =
                                   [i \in DOMAIN @ \cup {id} |-> IF i = id THEN x ELSE @[i]]]
  BY DEF TakePairing, Pop, Push, ForwardOnTopic
<1>2. /\ UNCHANGED netVars /\ UNCHANGED clientVars /\ queue' = queue /\ writer' = writer
      /\ got' = got /\ again' = again /\ flight' = flight /\ reqs' = reqs /\ lastId' = lastId
  BY DEF TakePairing, netVars, clientVars
<1>3. Holds(c) /\ IdsUnique(c) /\ IdsSent(c) /\ IdsPaired(c) /\ Aligned(c) /\ Shaped
  BY DEF IndInv, IdsInv
<1>4. /\ chan[c] \in Seq(Onto(c)) /\ x \in Onto(c) /\ Tail(chan[c]) \in Seq(Onto(c))
      /\ mode[c] = Pairing(id) /\ id \in Nat /\ echoes[c] \in Seq(From(Other(c)))
      /\ lastId[c] \in Nat
  <2>1. chan[c] \in Seq(Onto(c)) /\ mode[c] \in Modes(c) /\ echoes[c] \in Seq(From(Other(c)))
        /\ lastId[c] \in Nat
    BY <1>3 DEF Holds, TaskHolds, BridgeHolds, ClientHolds
  <2>2. mode[c] \in [do : {"pair"}, id : Nat]
    BY <1>1, <2>1 DEF Modes, Polling
  <2> QED
    BY <1>1, <2>1, <2>2 DEF Pairing
<1>5. /\ Tail(chan[c]) = Coming(c)
      /\ id # 0 => /\ id \notin DOMAIN paired[c]
                   /\ \E i \in DOMAIN flight[c] : flight[c][i].id = id /\ flight[c][i].item = x
  BY <1>1, <1>3 DEF Aligned
<1> HIDE DEF x, id
<1>6. /\ chan'[c] = Tail(chan[c]) /\ mode'[c] = Polling
      /\ echoes'[c] = echoes[c] \/ (~IsHealth(x) /\ echoes'[c] = Append(echoes[c], x))
  BY <1>1, <1>3 DEF Shaped
<1>7. \/ paired'[c] = paired[c] /\ (id = 0 \/ IsHealth(x))
      \/ /\ id # 0 /\ ~IsHealth(x)
         /\ paired'[c] = [i \in DOMAIN paired[c] \cup {id} |-> IF i = id THEN x ELSE paired[c][i]]
  <2>1. CASE paired' = paired /\ (id = 0 \/ IsHealth(x))
    BY <2>1
  <2>2. CASE /\ id # 0 /\ ~IsHealth(x)
             /\ paired' = [paired EXCEPT ![c] =
                             [i \in DOMAIN @ \cup {id} |-> IF i = id THEN x ELSE @[i]]]
    BY <1>3, <2>2 DEF Shaped
  <2> QED
    BY <1>1, <2>1, <2>2
<1>8. Shaped'
  <2>1. DOMAIN paired' = Sides /\ DOMAIN echoes' = Sides
    <3>1. DOMAIN paired' = DOMAIN paired
      BY <1>1
    <3>2. DOMAIN echoes' = DOMAIN echoes
      BY <1>1
    <3> QED
      BY <1>3, <3>1, <3>2 DEF Shaped
  <2> QED
    BY <1>1, <1>2, <1>3, <2>1 DEF Shaped, netVars, clientVars
<1>9. Grows
  BY <1>2, SetsSame
<1>10. ASSUME NEW d \in Sides, d # c
       PROVE  NetStill(d) /\ ClientStill(d) /\ BridgeStill(d) /\ TaskStill(d) /\ TaskHolds(d)'
  <2>1. NetStill(d) /\ ClientStill(d)
    BY <1>2 DEF NetStill, ClientStill, netVars
  <2>2. paired'[d] = paired[d]
    <3>1. \/ paired' = paired
          \/ paired' = [paired EXCEPT ![c] =
                          [i \in DOMAIN @ \cup {id} |-> IF i = id THEN x ELSE @[i]]]
      BY <1>1
    <3> QED
      BY <1>3, <1>10, <3>1 DEF Shaped
  <2>3. echoes'[d] = echoes[d] /\ mode'[d] = mode[d] /\ chan'[d] = chan[d]
    BY <1>1, <1>3, <1>10 DEF Shaped
  <2>4. BridgeStill(d) /\ TaskStill(d) /\ queue'[d] = queue[d]
    BY <1>2, <2>2, <2>3 DEF BridgeStill, TaskStill
  <2> QED
    BY <1>9, <2>1, <2>4, TaskSame DEF IndInv, Holds
<1>11. NetHolds(c)' /\ ClientHolds(c)'
  <2>1. NetStill(c) /\ ClientStill(c)
    BY <1>2 DEF NetStill, ClientStill, netVars
  <2> QED
    BY <1>3, <1>9, <2>1, NetSame, ClientSame DEF Holds
<1>12. Onto(c)' = Onto(c) /\ From(Other(c))' = From(Other(c)) /\ Acks(c)' = Acks(c)
       /\ Pubs(c, {0})' = Pubs(c, {0})
  BY <1>2, SetsSame
<1>13. TaskHolds(c)'
  BY <1>2, <1>3, <1>4, <1>6, <1>12 DEF Holds, TaskHolds
<1>14. BridgeHolds(c)'
  <2>1. ~IsHealth(x) => x \in From(Other(c))
    BY <1>4, FromTheOther
  <2>2. echoes'[c] \in Seq(From(Other(c)))
    <3>1. CASE ~IsHealth(x) /\ echoes'[c] = Append(echoes[c], x)
      BY <1>4, <2>1, <3>1, AppendProperties
    <3> QED
      BY <1>4, <1>6, <3>1
  <2>3. id # 0 => id \in 1 .. lastId[c]
    BY <1>3, <1>5 DEF IdsUnique
  <2>4. DOMAIN paired'[c] \subseteq 1 .. lastId[c]
        /\ \A i \in DOMAIN paired'[c] : paired'[c][i] \in From(Other(c))
    BY <1>3, <1>7, <2>1, <2>3 DEF Holds, BridgeHolds
  <2>5. Polling \in Modes(c)' /\ Polling.do # "ack"
    BY DEF Modes, Polling
  <2> QED
    BY <1>2, <1>6, <1>12, <2>2, <2>4, <2>5 DEF BridgeHolds
<1>15. IdsUnique(c)' /\ IdsSent(c)'
  BY <1>2, <1>3, <1>9, UniqueSame, SentSame DEF netVars, ClientStill
<1>16. \A i \in DOMAIN paired[c] : i \in DOMAIN paired'[c] /\ paired'[c][i] = paired[c][i]
  BY <1>5, <1>7
<1>17. id # 0 /\ ~IsHealth(x) => id \in DOMAIN paired'[c] /\ paired'[c][id] = x
  BY <1>7
<1>18. IdsPaired(c)'
  <2>1. ASSUME NEW r, Known(c, r), r.id = id /\ id # 0 => r.item = x PROVE Known(c, r)'
    <3>1. mode[c] = Pairing(r.id) => r.id = id
      BY <1>4 DEF Pairing
    <3> QED
      BY <1>16, <1>17, <2>1, <3>1 DEF Known
  <2>2. \A i \in DOMAIN flight[c] : \A r : r = flight[c][i] => Known(c, r)'
    <3>1. \A i \in DOMAIN flight[c] : flight[c][i].id = id /\ id # 0 => flight[c][i].item = x
      BY <1>3, <1>5 DEF IdsUnique
    <3>2. \A i \in DOMAIN flight[c] : Known(c, flight[c][i])
      BY <1>3 DEF IdsPaired
    <3> QED
      BY <2>1, <3>1, <3>2
  <2>3. \A i \in DOMAIN again[c] : \A r : r = again[c][i] => Known(c, r)'
    <3>1. \A i \in DOMAIN again[c] : ~(again[c][i].id = id /\ id # 0)
      BY <1>3, <1>5 DEF IdsUnique, NotAgain
    <3>2. \A i \in DOMAIN again[c] : Known(c, again[c][i])
      BY <1>3 DEF IdsPaired
    <3> QED
      BY <2>1, <3>1, <3>2
  <2>4. ASSUME NEW i \in DOMAIN paired'[c]
        PROVE  \/ \E j \in DOMAIN flight[c] : flight[c][j].id = i /\ flight[c][j].item = paired'[c][i]
               \/ \E j \in DOMAIN again[c] : again[c][j].id = i /\ again[c][j].item = paired'[c][i]
    <3>1. i \in DOMAIN paired[c] \/ (i = id /\ id # 0 /\ paired'[c][i] = x)
      BY <1>7
    <3> QED
      BY <1>3, <1>5, <1>16, <3>1 DEF IdsPaired
  <2> QED
    BY <1>2, <2>2, <2>3, <2>4 DEF IdsPaired
<1>19. Aligned(c)'
  <2>1. Coming(c)' = Coming(c) /\ Polling.do # "pair"
    BY <1>2 DEF Coming, Trail, Polling
  <2> QED
    BY <1>5, <1>6, <2>1 DEF Aligned
<1>20. Holds(c)' /\ IdsInv(c)'
  BY <1>11, <1>13, <1>14, <1>15, <1>18, <1>19 DEF Holds, IdsInv
<1> QED
  BY <1>8, <1>9, <1>10, <1>20, OneSide

LEMMA AckReceivedInv ==
  ASSUME IndInv, NEW c \in Sides, AckReceived(c)
  PROVE  IndInv'
<1> DEFINE x == mode[c].item
           r == Ack(x)
<1>1. /\ mode[c].do = "ack" /\ mode' = [mode EXCEPT ![c] = Polling]
      /\ reqs' = reqs \/ reqs' = [reqs EXCEPT ![c] = Append(@, r)]
      /\ echoes' = IF mode[c].looped THEN [echoes EXCEPT ![c] = Tail(@)] ELSE echoes
  BY DEF AckReceived, Push, Pop
<1>2. /\ UNCHANGED netVars /\ UNCHANGED taskVars /\ got' = got /\ again' = again
      /\ flight' = flight /\ lastId' = lastId /\ paired' = paired
  BY DEF AckReceived, netVars
<1>3. Holds(c) /\ IdsUnique(c) /\ IdsSent(c) /\ IdsPaired(c) /\ Aligned(c) /\ Shaped
  BY DEF IndInv, IdsInv
<1>4. Shaped'
  BY <1>1, <1>2, <1>3 DEF Shaped, netVars, taskVars
<1>5. Grows
  BY <1>2, SetsSame
<1>6. ASSUME NEW d \in Sides, d # c
      PROVE  NetStill(d) /\ ClientStill(d) /\ BridgeStill(d) /\ TaskStill(d)
  <2> HIDE DEF r
  <2>1. reqs'[d] = reqs[d] /\ mode'[d] = mode[d] /\ echoes'[d] = echoes[d]
    BY <1>1, <1>3, <1>6 DEF Shaped
  <2> QED
    BY <1>2, <2>1 DEF NetStill, ClientStill, BridgeStill, TaskStill, netVars, taskVars
<1>7. \A d \in Sides : TaskHolds(d)'
  BY <1>2, <1>5, TaskSame DEF IndInv, Holds, TaskStill, taskVars
<1>8. NetHolds(c)'
  BY <1>2, <1>3, <1>5, NetSame DEF Holds, NetStill, netVars
<1>9. /\ mode[c] \in [do : {"ack"}, item : Settled(c), looped : BOOLEAN]
      /\ echoes[c] \in Seq(From(Other(c))) /\ (mode[c].looped => echoes[c] # <<>>)
      /\ reqs[c] \in Seq(Pubs(c, {0}) \cup Acks(c))
  <2>1. mode[c] \in Modes(c) /\ echoes[c] \in Seq(From(Other(c)))
        /\ (mode[c].looped => echoes[c] # <<>>)
    BY <1>1, <1>3 DEF Holds, BridgeHolds
  <2> QED
    BY <1>1, <1>3, <2>1 DEF Modes, Polling, Holds, ClientHolds
<1>10. r \in Acks(c) /\ r.do = "ack"
  BY <1>9 DEF Ack, Acks
<1> HIDE DEF r
<1>11. /\ reqs'[c] = reqs[c] \/ reqs'[c] = Append(reqs[c], r)
       /\ mode'[c] = Polling
       /\ echoes'[c] = IF mode[c].looped THEN Tail(echoes[c]) ELSE echoes[c]
  BY <1>1, <1>3 DEF Shaped
<1>12. /\ Onto(c)' = Onto(c) /\ From(Other(c))' = From(Other(c)) /\ Acks(c)' = Acks(c)
       /\ Pubs(c, {0})' = Pubs(c, {0}) /\ Pubs(c, Nat)' = Pubs(c, Nat)
  BY <1>2, SetsSame
<1>13. ClientHolds(c)'
  <2>1. reqs'[c] \in Seq(Pubs(c, {0}) \cup Acks(c))
    <3>1. CASE reqs'[c] = Append(reqs[c], r)
      BY <1>9, <1>10, <3>1, AppendProperties
    <3> QED
      BY <1>9, <1>11, <3>1
  <2> QED
    BY <1>2, <1>3, <1>12, <2>1 DEF Holds, ClientHolds
<1>14. BridgeHolds(c)'
  <2>1. echoes'[c] \in Seq(From(Other(c)))
    BY <1>9, <1>11
  <2>2. Polling \in Modes(c)' /\ Polling.do # "ack"
    BY DEF Modes, Polling
  <2> QED
    BY <1>2, <1>3, <1>11, <1>12, <2>1, <2>2 DEF Holds, BridgeHolds
<1>15. IdsUnique(c)' /\ IdsPaired(c)'
  BY <1>1, <1>2, <1>3, UniqueSame, PairedSame DEF netVars
<1>16. IdsSent(c)'
  BY <1>2, <1>3 DEF IdsSent, NotAgain, netVars
<1>17. Aligned(c)'
  <2>1. ClientHolds(c) /\ NewItems(again[c] \o reqs[c]) \in Seq(Onto(c))
    BY <1>3, NewSeq DEF Holds
  <2>2. NewItems(again[c] \o Append(reqs[c], r)) = NewItems(again[c] \o reqs[c]) \o <<>>
    BY <1>10, <2>1, RequestAdded
  <2>3. NewItems(again[c] \o Append(reqs[c], r)) = NewItems(again[c] \o reqs[c])
    BY <2>1, <2>2
  <2>4. NewItems(again[c] \o reqs[c])' = NewItems(again[c] \o reqs[c])
    BY <1>2, <1>11, <2>3
  <2>5. Coming(c)' = Coming(c) /\ Polling.do # "pair"
    BY <1>2, <2>4 DEF Coming, Trail, Polling, taskVars
  <2> QED
    BY <1>1, <1>2, <1>3, <1>11, <2>5 DEF Aligned, taskVars
<1>18. Holds(c)' /\ IdsInv(c)'
  BY <1>7, <1>8, <1>13, <1>14, <1>15, <1>16, <1>17 DEF Holds, IdsInv
<1> QED
  BY <1>4, <1>5, <1>6, <1>7, <1>18, OneSide

\* The half bridge stops expecting a message to come back, but not while it is
\* acknowledging it.
LEMMA CleanOldMessagesInv ==
  ASSUME IndInv, NEW c \in Sides, CleanOldMessages(c)
  PROVE  IndInv'
<1>1. /\ echoes[c] # <<>> /\ ~(mode[c].do = "ack" /\ mode[c].item.msg = Head(echoes[c]).msg)
      /\ echoes' = [echoes EXCEPT ![c] = Tail(@)]
  BY DEF CleanOldMessages, OnItsWay, Pop
<1>2. /\ UNCHANGED netVars /\ UNCHANGED clientVars /\ UNCHANGED taskVars /\ got' = got
      /\ paired' = paired /\ mode' = mode
  BY DEF CleanOldMessages, netVars
<1>3. Holds(c) /\ IdsUnique(c) /\ IdsSent(c) /\ IdsPaired(c) /\ Aligned(c) /\ Shaped
  BY DEF IndInv, IdsInv
<1>4. Shaped'
  BY <1>1, <1>2, <1>3 DEF Shaped, netVars, taskVars, clientVars
<1>5. Grows
  BY <1>2, SetsSame
<1>6. \A d \in Sides : NetStill(d) /\ ClientStill(d) /\ TaskStill(d) /\ queue'[d] = queue[d]
                       /\ mode'[d] = mode[d] /\ paired'[d] = paired[d] /\ lastId'[d] = lastId[d]
                       /\ flight'[d] = flight[d] /\ again'[d] = again[d] /\ link'[d] = link[d]
                       /\ sent'[d] = sent[d] /\ wire'[d] = wire[d]
  BY <1>2 DEF NetStill, ClientStill, TaskStill, netVars, taskVars, clientVars
<1>7. \A d \in Sides : d # c => BridgeStill(d)
  BY <1>1, <1>3, <1>6 DEF Shaped, BridgeStill
<1>8. \A d \in Sides : TaskHolds(d)'
  BY <1>5, <1>6, TaskSame DEF IndInv, Holds
<1>9. NetHolds(c)' /\ ClientHolds(c)'
  BY <1>3, <1>5, <1>6, NetSame, ClientSame DEF Holds
<1>10. BridgeHolds(c)'
  <2>1. echoes'[c] \in Seq(From(Other(c))) /\ ~(mode[c].do = "ack" /\ mode[c].looped)
    BY <1>1, <1>3 DEF Holds, BridgeHolds, Shaped
  <2>2. From(Other(c))' = From(Other(c)) /\ Modes(c)' = Modes(c)
    BY <1>2, SetsSame
  <2> QED
    BY <1>3, <1>6, <2>1, <2>2 DEF Holds, BridgeHolds
<1>11. IdsUnique(c)' /\ IdsPaired(c)' /\ IdsSent(c)' /\ Aligned(c)'
  BY <1>3, <1>5, <1>6, UniqueSame, PairedSame, SentSame, AlignedSame
<1>12. Holds(c)' /\ IdsInv(c)'
  BY <1>8, <1>9, <1>10, <1>11 DEF Holds, IdsInv
<1> QED
  BY <1>4, <1>5, <1>6, <1>7, <1>8, <1>12, OneSide

\* What comes back on the side where it was published has reached the other side.
LEMMA LoopedIsSettled ==
  ASSUME NEW c \in Sides, BridgeHolds(c), NEW x \in From(c), Looped(c, x) \/ x.msg \notin Forwarded
  PROVE  x \in Settled(c)
<1> SUFFICES ASSUME x.hops = 0, x.msg \in Forwarded PROVE x \in got[Other(c)]
  BY DEF Settled
<1> DEFINE y == Head(echoes[c])
<1>1. y \in From(Other(c)) /\ y.msg = x.msg
  BY DEF Looped, BridgeHolds
<1>2. x \in Insts /\ Origin[x.msg] = c
  BY DEF From
<1> HIDE DEF y
<1>3. Arrived(x.msg)
  <2>1. y.hops # 0
    BY <1>1, <1>2, SidesFacts DEF From
  <2> QED
    BY <1>1, <2>1 DEF From
<1>4. x = Inst(x.msg, 0)
  BY <1>2 DEF Insts, Inst
<1> QED
  BY <1>2, <1>3, <1>4 DEF Arrived

\* A packet of a broker is polled.
LEMMA Polled ==
  ASSUME NEW c \in Sides, NetHolds(c), got' = got, link[c] = "up", wire[c] # <<>>,
         wire'[c] = Tail(wire[c]), sent'[c] = sent[c], owed'[c] = owed[c], acked'[c] = acked[c],
         link'[c] = link[c]
  PROVE  /\ NetHolds(c)' /\ Head(wire[c]) \in Received(c)
         /\ 1 \in DOMAIN wire[c] /\ Head(wire[c]) = wire[c][1]
         /\ \A i \in DOMAIN wire'[c] : i + 1 \in DOMAIN wire[c] /\ wire'[c][i] = wire[c][i + 1]
<1>1. wire[c] \in Seq(Received(c))
  BY DEF NetHolds
<1>2. /\ wire'[c] \in Seq(Received(c)) /\ Head(wire[c]) \in Received(c)
      /\ 1 \in DOMAIN wire[c] /\ Head(wire[c]) = wire[c][1]
      /\ \A i \in DOMAIN wire'[c] : i + 1 \in DOMAIN wire[c] /\ wire'[c][i] = wire[c][i + 1]
  BY <1>1, TailAt
<1>3. /\ Received(c)' = Received(c) /\ Pubs(c, Nat)' = Pubs(c, Nat) /\ Acks(c)' = Acks(c)
      /\ From(c)' = From(c) /\ Settled(c)' = Settled(c)
  BY SetsSame
<1>4. NetHolds(c)'
  BY <1>2, <1>3 DEF NetHolds
<1> QED
  BY <1>2, <1>4

LEMMA PollPublishInv ==
  ASSUME IndInv, NEW c \in Sides, PollPublish(c)
  PROVE  IndInv'
<1> DEFINE x == Head(wire[c]).item
           Kept == /\ Looped(c, x) \/ x.msg \notin Forwarded
                   /\ mode' = [mode EXCEPT ![c] = Acking(x, Looped(c, x))] /\ queue' = queue
           Passed == queue' = [queue EXCEPT ![Other(c)] = Append(@, Pub(0, x))] /\ mode' = mode
<1>1. /\ link[c] = "up" /\ mode[c] = Polling /\ wire[c] # <<>> /\ Head(wire[c]).do = "pub"
      /\ wire' = [wire EXCEPT ![c] = Tail(@)] /\ (Kept \/ Passed)
  BY DEF PollPublish, Push, Pop
<1>2. /\ link' = link /\ sent' = sent /\ owed' = owed /\ got' = got /\ acked' = acked
      /\ UNCHANGED clientVars /\ paired' = paired /\ echoes' = echoes /\ chan' = chan
      /\ writer' = writer /\ again' = again /\ flight' = flight /\ lastId' = lastId /\ reqs' = reqs
  BY DEF PollPublish, clientVars
<1>3. Holds(c) /\ IdsUnique(c) /\ IdsSent(c) /\ IdsPaired(c) /\ Aligned(c) /\ Shaped
  BY DEF IndInv, IdsInv
<1>4. Shaped'
  BY <1>1, <1>2, <1>3 DEF Shaped
<1>5. Grows
  BY <1>2, SetsSame
<1>6. wire'[c] = Tail(wire[c])
  BY <1>1, <1>3 DEF Shaped
<1>7. /\ NetHolds(c)' /\ Head(wire[c]) \in Received(c)
      /\ \A i \in DOMAIN wire'[c] : i + 1 \in DOMAIN wire[c] /\ wire'[c][i] = wire[c][i + 1]
  BY <1>1, <1>2, <1>3, <1>6, Polled DEF Holds
<1>8. x \in From(c)
  BY <1>1, <1>7 DEF Received
<1> HIDE DEF x
<1>9. \A d \in Sides : ClientStill(d) /\ TaskStill(d)
  BY <1>2 DEF ClientStill, TaskStill
<1>10. ASSUME NEW d \in Sides, d # c PROVE NetStill(d) /\ BridgeStill(d)
  BY <1>1, <1>2, <1>3, <1>10 DEF NetStill, BridgeStill, Shaped
<1>11. ASSUME NEW d \in Sides PROVE TaskHolds(d)'
  <2>1. TaskHolds(d)
    BY DEF IndInv, Holds
  <2>2. CASE queue'[d] = queue[d]
    BY <1>5, <1>9, <2>1, <2>2, TaskSame
  <2>3. CASE d = Other(c) /\ Passed
    <3>1. queue'[d] = Append(queue[d], Pub(0, x))
      BY <1>3, <2>3, SidesFacts DEF Shaped
    <3>2. x \in Onto(d)
      BY <1>8, <2>3, SidesFacts DEF Onto
    <3>3. Pub(0, x) \in Pubs(d, {0}) \cup Acks(d)
      BY <3>2 DEF Pub, Pubs
    <3>4. queue'[d] \in Seq(Pubs(d, {0}) \cup Acks(d))
      BY <2>1, <3>1, <3>3, AppendProperties DEF TaskHolds
    <3>5. Onto(d)' = Onto(d) /\ Acks(d)' = Acks(d) /\ Pubs(d, {0})' = Pubs(d, {0})
      BY <1>2, SetsSame
    <3> QED
      BY <1>2, <2>1, <3>4, <3>5 DEF TaskHolds
  <2> QED
    BY <1>1, <1>3, <2>2, <2>3 DEF Shaped
<1>12. ClientHolds(c)'
  BY <1>3, <1>5, <1>9, ClientSame DEF Holds
<1>13. BridgeHolds(c)'
  <2>1. CASE Passed
    BY <1>2, <1>3, <1>5, <2>1, BridgeSame DEF Holds, BridgeStill
  <2>2. CASE Kept
    <3>1. x \in Settled(c)
      BY <1>3, <1>8, <2>2, LoopedIsSettled DEF Holds
    <3>2. mode'[c] = Acking(x, Looped(c, x)) /\ Looped(c, x) \in BOOLEAN
      BY <1>3, <2>2 DEF Shaped, Looped
    <3>3. /\ mode'[c] \in Modes(c) /\ mode'[c].item = x
          /\ mode'[c].looped => echoes[c] # <<>> /\ Head(echoes[c]).msg = x.msg
      <4>1. mode'[c] = [do |-> "ack", item |-> x, looped |-> Looped(c, x)]
        BY <3>2 DEF Acking
      <4>2. mode'[c] \in Modes(c) /\ mode'[c].item = x /\ mode'[c].looped = Looped(c, x)
        BY <3>1, <3>2, <4>1 DEF Modes
      <4> QED
        BY <4>2 DEF Looped
    <3>4. From(Other(c))' = From(Other(c)) /\ Modes(c)' = Modes(c)
      BY <1>2, SetsSame
    <3> QED
      BY <1>2, <1>3, <3>3, <3>4 DEF Holds, BridgeHolds
  <2> QED
    BY <1>1, <2>1, <2>2
<1>14. IdsUnique(c)' /\ IdsPaired(c)'
  <2>1. mode[c].do # "pair"
    BY <1>1 DEF Polling
  <2> QED
    BY <1>2, <1>3, <2>1, UniqueSame, PairedSame
<1>15. IdsSent(c)'
  BY <1>2, <1>3, <1>7 DEF IdsSent, NotAgain
<1>16. Aligned(c)'
  <2>1. mode[c].do # "pair" /\ mode'[c].do # "pair"
    BY <1>1, <1>3 DEF Shaped, Acking, Polling
  <2>2. Coming(c)' = Coming(c)
    BY <1>2 DEF Coming, Trail
  <2> QED
    BY <1>2, <1>3, <2>1, <2>2 DEF Aligned
<1>17. Holds(c)' /\ IdsInv(c)'
  BY <1>7, <1>11, <1>12, <1>13, <1>14, <1>15, <1>16 DEF Holds, IdsInv
<1> QED
  BY <1>4, <1>5, <1>9, <1>10, <1>11, <1>17, OneSide

\* A selection of a queue keeps elements of it, each one once.
LEMMA SelectedAt ==
  ASSUME NEW S, NEW q \in Seq(S), NEW I \in SUBSET DOMAIN q, NEW s, s = Selected(q, I)
  PROVE  /\ s \in Seq(S)
         /\ \A k \in DOMAIN s : Positions(I)[k] \in I /\ s[k] = q[Positions(I)[k]]
         /\ \A k, l \in DOMAIN s : Positions(I)[k] = Positions(I)[l] => k = l
         /\ \A i \in I : \E k \in DOMAIN s : s[k] = q[i]
<1> DEFINE n == Cardinality(I)
<1>a. /\ Selected(q, I) \in Seq(S) /\ n \in Nat /\ DOMAIN Selected(q, I) = 1 .. n
      /\ \A k \in 1 .. n : Positions(I)[k] \in I /\ Selected(q, I)[k] = q[Positions(I)[k]]
      /\ \A k, l \in 1 .. n : k < l => Positions(I)[k] < Positions(I)[l]
      /\ \A i \in I : \E k \in 1 .. n : Positions(I)[k] = i
  BY SelectedProperties
<1>1. /\ s \in Seq(S) /\ n \in Nat /\ DOMAIN s = 1 .. n
      /\ \A k \in 1 .. n : Positions(I)[k] \in I /\ s[k] = q[Positions(I)[k]]
      /\ \A k, l \in 1 .. n : k < l => Positions(I)[k] < Positions(I)[l]
      /\ \A i \in I : \E k \in 1 .. n : Positions(I)[k] = i
  BY <1>a, Zenon
<1> HIDE DEF n
<1>2. DOMAIN q \subseteq Nat
  OBVIOUS
<1>3. ASSUME NEW k \in DOMAIN s, NEW l \in DOMAIN s, Positions(I)[k] = Positions(I)[l]
      PROVE  k = l
  <2>1. k \in Int /\ l \in Int /\ Positions(I)[k] \in Nat
    BY <1>1, <1>2
  <2>2. ~(k < l) /\ ~(l < k)
    BY <1>1, <1>3, <2>1
  <2> QED
    BY <2>1, <2>2
<1>4. ASSUME NEW i \in I
      PROVE  \E k \in DOMAIN s : s[k] = q[i]
  <2>1. PICK k \in 1 .. n : Positions(I)[k] = i
    BY <1>1
  <2>2. k \in DOMAIN s /\ s[k] = q[i]
    BY <1>1, <2>1
  <2> QED
    BY <2>2
<1>5. \A k \in DOMAIN s : Positions(I)[k] \in I /\ s[k] = q[Positions(I)[k]]
  BY <1>1
<1>6. \A k, l \in DOMAIN s : Positions(I)[k] = Positions(I)[l] => k = l
  BY <1>3, Zenon
<1>7. \A i \in I : \E k \in DOMAIN s : s[k] = q[i]
  BY <1>4, Zenon
<1> QED
  BY <1>1, <1>5, <1>6, <1>7, Zenon

LEMMA PollAckInv ==
  ASSUME IndInv, NEW c \in Sides, PollAck(c)
  PROVE  IndInv'
<1> DEFINE id == Head(wire[c]).id
           I == {i \in DOMAIN flight[c] : flight[c][i].id # id}
           Found == /\ id \in DOMAIN paired[c]
                    /\ queue' = [queue EXCEPT ![Other(c)] = Append(@, Ack(paired[c][id]))]
                    /\ paired' = [paired EXCEPT ![c] = Restrict(@, DOMAIN @ \ {id})]
           Unknown == id \notin DOMAIN paired[c] /\ queue' = queue /\ paired' = paired
<1>1. /\ link[c] = "up" /\ mode[c] = Polling /\ wire[c] # <<>> /\ Head(wire[c]).do = "puback"
      /\ wire' = [wire EXCEPT ![c] = Tail(@)] /\ (Found \/ Unknown)
      /\ flight' = [flight EXCEPT ![c] = Selected(@, {i \in DOMAIN @ : @[i].id # id})]
  BY DEF PollAck, Push, Pop, Unpaired
<1>2. /\ link' = link /\ sent' = sent /\ owed' = owed /\ got' = got /\ acked' = acked
      /\ reqs' = reqs /\ again' = again /\ lastId' = lastId /\ mode' = mode /\ echoes' = echoes
      /\ chan' = chan /\ writer' = writer
  BY DEF PollAck
<1>3. Holds(c) /\ IdsUnique(c) /\ IdsSent(c) /\ IdsPaired(c) /\ Aligned(c) /\ Shaped
  BY DEF IndInv, IdsInv
<1>4. Shaped'
  BY <1>1, <1>2, <1>3 DEF Shaped
<1>5. Grows
  BY <1>2, SetsSame
<1>6. wire'[c] = Tail(wire[c]) /\ flight'[c] = Selected(flight[c], I)
  BY <1>1, <1>3 DEF Shaped
<1>7. /\ NetHolds(c)' /\ Head(wire[c]) \in Received(c)
      /\ 1 \in DOMAIN wire[c] /\ Head(wire[c]) = wire[c][1]
      /\ \A i \in DOMAIN wire'[c] : i + 1 \in DOMAIN wire[c] /\ wire'[c][i] = wire[c][i + 1]
  BY <1>1, <1>2, <1>3, <1>6, Polled DEF Holds
<1>8. /\ NotAgain(c, id)
      /\ \A j \in DOMAIN flight[c] : flight[c][j].id = id => flight[c][j].item \in got[c]
  BY <1>1, <1>3, <1>7 DEF IdsSent
<1>9. /\ I \in SUBSET DOMAIN flight[c] /\ flight[c] \in Seq(Pubs(c, Nat))
      /\ \A i \in I : flight[c][i].id # id
      /\ \A i \in DOMAIN flight[c] : flight[c][i].id # id => i \in I
  BY <1>3 DEF Holds, ClientHolds
<1>10. /\ DOMAIN paired'[c] = DOMAIN paired[c] \ {id}
       /\ \A i \in DOMAIN paired[c] : i # id => paired'[c][i] = paired[c][i]
  <2> HIDE DEF id, I
  <2>1. CASE Found
    <3>1. paired'[c] = Restrict(paired[c], DOMAIN paired[c] \ {id})
      BY <1>3, <2>1 DEF Shaped
    <3> QED
      BY <3>1 DEF Restrict
  <2> QED
    BY <1>1, <2>1
<1> HIDE DEF id, I
<1>11. /\ flight'[c] \in Seq(Pubs(c, Nat))
       /\ \A k \in DOMAIN flight'[c] : Positions(I)[k] \in I /\ flight'[c][k] = flight[c][Positions(I)[k]]
       /\ \A k, l \in DOMAIN flight'[c] : Positions(I)[k] = Positions(I)[l] => k = l
       /\ \A i \in I : \E k \in DOMAIN flight'[c] : flight'[c][k] = flight[c][i]
  BY <1>6, <1>9, SelectedAt
<1>12. ASSUME NEW k \in DOMAIN flight'[c]
       PROVE  \E i \in DOMAIN flight[c] : flight'[c][k] = flight[c][i] /\ flight[c][i].id # id
  BY <1>9, <1>11
<1>13. ASSUME NEW d \in Sides, d # c
       PROVE  NetStill(d) /\ ClientStill(d) /\ BridgeStill(d)
  <2>1. wire'[d] = wire[d] /\ flight'[d] = flight[d]
    BY <1>1, <1>3, <1>13 DEF Shaped
  <2>2. paired'[d] = paired[d]
    BY <1>1, <1>3, <1>13 DEF Shaped
  <2> QED
    BY <1>2, <2>1, <2>2 DEF NetStill, ClientStill, BridgeStill
<1>14. \A d \in Sides : TaskStill(d)
  BY <1>2 DEF TaskStill
<1>15. id \in DOMAIN paired[c] => paired[c][id] \in Settled(Other(c))
  <2> SUFFICES ASSUME id \in DOMAIN paired[c] PROVE paired[c][id] \in Settled(Other(c))
    OBVIOUS
  <2>1. paired[c][id] \in From(Other(c))
    BY <1>3 DEF Holds, BridgeHolds
  <2>2. paired[c][id] \in got[c]
    BY <1>3, <1>8 DEF IdsPaired, NotAgain
  <2> QED
    BY <2>1, <2>2, SidesFacts DEF Settled
<1>16. ASSUME NEW d \in Sides PROVE TaskHolds(d)'
  <2>1. TaskHolds(d)
    BY DEF IndInv, Holds
  <2>2. CASE queue'[d] = queue[d]
    BY <1>5, <1>14, <2>1, <2>2, TaskSame
  <2>3. CASE d = Other(c) /\ Found
    <3> DEFINE r == Ack(paired[c][id])
    <3>1. r \in Pubs(d, {0}) \cup Acks(d)
      BY <1>15, <2>3 DEF Ack, Acks
    <3>2. queue'[d] = Append(queue[d], r)
      BY <1>3, <2>3, SidesFacts DEF Shaped
    <3> HIDE DEF r
    <3>3. queue'[d] \in Seq(Pubs(d, {0}) \cup Acks(d))
      BY <2>1, <3>1, <3>2, AppendProperties DEF TaskHolds
    <3>4. Onto(d)' = Onto(d) /\ Acks(d)' = Acks(d) /\ Pubs(d, {0})' = Pubs(d, {0})
      BY <1>2, SetsSame
    <3> QED
      BY <1>2, <2>1, <3>3, <3>4 DEF TaskHolds
  <2> QED
    BY <1>1, <1>3, <2>2, <2>3 DEF Shaped
<1>17. ClientHolds(c)'
  <2>1. Pubs(c, Nat)' = Pubs(c, Nat) /\ Pubs(c, {0})' = Pubs(c, {0}) /\ Acks(c)' = Acks(c)
    BY <1>2, SetsSame
  <2> QED
    BY <1>2, <1>3, <1>11, <2>1 DEF Holds, ClientHolds
<1>18. BridgeHolds(c)'
  <2>1. Modes(c)' = Modes(c) /\ From(Other(c))' = From(Other(c))
    BY <1>2, SetsSame
  <2> QED
    BY <1>2, <1>3, <1>10, <2>1 DEF Holds, BridgeHolds
<1>19. IdsUnique(c)'
  <2>1. ASSUME NEW k \in DOMAIN flight'[c]
        PROVE  /\ flight'[c][k].id \in 1 .. lastId[c] /\ Qos1(flight'[c][k].item)
               /\ NotAgain(c, flight'[c][k].id)
               /\ \A l \in DOMAIN flight'[c] : flight'[c][k].id = flight'[c][l].id => k = l
               /\ link[c] = "lost" => ~IsHealth(flight'[c][k].item)
    <3>1. PICK i \in DOMAIN flight[c] : i = Positions(I)[k] /\ flight'[c][k] = flight[c][i]
      BY <1>9, <1>11
    <3>2. ASSUME NEW l \in DOMAIN flight'[c], flight'[c][k].id = flight'[c][l].id PROVE k = l
      <4>1. PICK j \in DOMAIN flight[c] : j = Positions(I)[l] /\ flight'[c][l] = flight[c][j]
        BY <1>9, <1>11
      <4>2. i = j
        BY <1>3, <3>1, <3>2, <4>1 DEF IdsUnique
      <4> QED
        BY <1>11, <3>1, <4>1, <4>2
    <3> QED
      BY <1>3, <3>1, <3>2 DEF IdsUnique
  <2> QED
    BY <1>2, <1>3, <2>1 DEF IdsUnique, NotAgain
<1>20. IdsSent(c)'
  <2>1. \A i \in DOMAIN sent[c] : sent[c][i].do = "pub" /\ Qos1(sent[c][i].item) =>
          /\ sent[c][i].id \in 1 .. lastId[c] /\ NotAgain(c, sent[c][i].id)
          /\ \A j \in DOMAIN flight'[c] :
               flight'[c][j].id = sent[c][i].id => flight'[c][j].item = sent[c][i].item
    BY <1>3, <1>12 DEF IdsSent
  <2>2. \A i \in DOMAIN wire'[c] : wire'[c][i].do = "puback" =>
          /\ wire'[c][i].id \in 1 .. lastId[c] /\ NotAgain(c, wire'[c][i].id)
          /\ \A j \in DOMAIN flight'[c] :
               flight'[c][j].id = wire'[c][i].id => flight'[c][j].item \in got[c]
    BY <1>3, <1>7, <1>12 DEF IdsSent
  <2> QED
    BY <1>2, <2>1, <2>2 DEF IdsSent, NotAgain
<1>21. IdsPaired(c)'
  <2>1. ASSUME NEW r, Known(c, r), r.id # id PROVE Known(c, r)'
    BY <1>2, <1>10, <2>1 DEF Known
  <2>2. \A k \in DOMAIN flight'[c] : \A r : r = flight'[c][k] => Known(c, r)'
    BY <1>3, <1>12, <2>1 DEF IdsPaired
  <2>3. \A k \in DOMAIN again[c] : \A r : r = again[c][k] => Known(c, r)'
    BY <1>3, <1>8, <2>1 DEF IdsPaired, NotAgain
  <2>4. ASSUME NEW n \in DOMAIN paired'[c]
        PROVE  \/ \E i \in DOMAIN flight'[c] :
                    flight'[c][i].id = n /\ flight'[c][i].item = paired'[c][n]
               \/ \E i \in DOMAIN again[c] : again[c][i].id = n /\ again[c][i].item = paired'[c][n]
    <3>1. n \in DOMAIN paired[c] /\ n # id /\ paired'[c][n] = paired[c][n]
      BY <1>10
    <3>2. CASE \E i \in DOMAIN flight[c] :
                 flight[c][i].id = n /\ flight[c][i].item = paired[c][n]
      <4>1. PICK i \in DOMAIN flight[c] : flight[c][i].id = n /\ flight[c][i].item = paired[c][n]
        BY <3>2
      <4>2. i \in I
        <5>1. flight[c][i].id # id
          BY <3>1, <4>1
        <5> QED
          BY <1>9, <5>1
      <4>3. \E k \in DOMAIN flight'[c] : flight'[c][k] = flight[c][i]
        BY <1>11, <4>2, Zenon
      <4> QED
        BY <3>1, <4>1, <4>3
    <3> QED
      BY <1>3, <3>1, <3>2 DEF IdsPaired
  <2> QED
    BY <1>2, <2>2, <2>3, <2>4 DEF IdsPaired
<1>22. Aligned(c)'
  <2>1. Coming(c)' = Coming(c) /\ mode[c].do # "pair"
    BY <1>1, <1>2 DEF Coming, Trail, Polling
  <2> QED
    BY <1>2, <1>3, <2>1 DEF Aligned
<1>23. Holds(c)' /\ IdsInv(c)'
  BY <1>7, <1>16, <1>17, <1>18, <1>19, <1>20, <1>21, <1>22 DEF Holds, IdsInv
<1> QED
  BY <1>4, <1>5, <1>13, <1>14, <1>16, <1>23, OneSide

------------------------------------------------------------------------------
(* The client.                                                                 *)

\* The request the client is to send next, and what is left of its queues.
Request(c) == IF again[c] # <<>> THEN Head(again[c]) ELSE Head(reqs[c])

LEMMA NextRequest ==
  ASSUME NEW c \in Sides, ClientHolds(c), again[c] # <<>> \/ reqs[c] # <<>>,
         IF again[c] # <<>> THEN again'[c] = Tail(again[c]) /\ reqs'[c] = reqs[c]
                            ELSE reqs'[c] = Tail(reqs[c]) /\ again'[c] = again[c]
  PROVE  /\ Request(c) \in Pubs(c, Nat) \cup Acks(c)
         /\ again'[c] \in Seq(Pubs(c, Nat)) /\ reqs'[c] \in Seq(Pubs(c, {0}) \cup Acks(c))
         /\ NewItems(again[c] \o reqs[c]) =
              (IF Request(c).do = "pub" /\ Request(c).id = 0 THEN <<Request(c).item>> ELSE <<>>)
                \o NewItems(again'[c] \o reqs'[c])
         /\ NewItems(again'[c] \o reqs'[c]) \in Seq(Onto(c))
         /\ Request(c).do = "pub" /\ Request(c).id # 0 =>
              again[c] # <<>> /\ 1 \in DOMAIN again[c] /\ Request(c) = again[c][1]
<1> DEFINE S == Pubs(c, Nat) \cup Acks(c)
           T == Pubs(c, {0}) \cup Acks(c)
           r == Request(c)
           a == again[c]
           b == reqs[c]
<1>1. /\ a \in Seq(Pubs(c, Nat)) /\ b \in Seq(T) /\ a \in Seq(S) /\ b \in Seq(S) /\ a \o b \in Seq(S)
  BY AllRequests DEF ClientHolds
<1>2. T \subseteq S /\ Pubs(c, Nat) \subseteq S /\ \A x \in T : x.do = "pub" => x.id = 0
  BY DEF Pubs, Acks
<1>3. again'[c] \in Seq(Pubs(c, Nat)) /\ reqs'[c] \in Seq(T)
  <2>1. \/ a # <<>> /\ again'[c] = Tail(a) /\ reqs'[c] = b
        \/ b # <<>> /\ again'[c] = a /\ reqs'[c] = Tail(b)
    OBVIOUS
  <2> HIDE DEF T, a, b
  <2> QED
    BY <1>1, <2>1, TailAt
<1>a. NewItems(again'[c] \o reqs'[c]) \in Seq(Onto(c))
  <2> DEFINE u == again'[c]
             v == reqs'[c]
  <2>1. u \in Seq(Pubs(c, Nat)) /\ v \in Seq(T)
    BY <1>3
  <2> HIDE DEF u, v, S, T
  <2>2. u \in Seq(S) /\ v \in Seq(S)
    BY <1>2, <2>1, SeqMonotonic
  <2>3. u \o v \in Seq(S)
    BY <2>2
  <2> QED
    BY <2>3, NewOfRequests DEF S, u, v
<1>4. CASE a # <<>>
  <2>1. r = Head(a) /\ again'[c] = Tail(a) /\ reqs'[c] = b
    BY <1>4 DEF Request
  <2> HIDE DEF S, T, a, b, r
  <2>2. /\ r \in Pubs(c, Nat) /\ 1 \in DOMAIN a /\ r = a[1] /\ Tail(a) \in Seq(S)
        /\ NewItems(a) = (IF r.do = "pub" /\ r.id = 0 THEN <<r.item>> ELSE <<>>) \o NewItems(Tail(a))
    BY <1>1, <1>4, <2>1, NewItemsHead, TailAt
  <2>3. a \o b \in Seq(S) /\ a \o b # <<>> /\ Head(a \o b) = Head(a) /\ Tail(a \o b) = Tail(a) \o b
    <3>1. /\ a \o b \in Seq(S) /\ Tail(a) \o b \in Seq(S) /\ Len(a) >= 1 /\ Len(a) \in Nat
          /\ Len(b) \in Nat /\ Len(a \o b) = Len(a) + Len(b)
          /\ Len(Tail(a) \o b) = Len(a) - 1 + Len(b)
      BY <1>1, <1>4
    <3>2. a \o b # <<>> /\ Head(a \o b) = Head(a)
      BY <1>1, <1>4, <3>1
    <3>3. Tail(a \o b) \in Seq(S) /\ Len(Tail(a \o b)) = Len(Tail(a) \o b)
      BY <3>1, <3>2
    <3>4. \A i \in 1 .. Len(Tail(a \o b)) : Tail(a \o b)[i] = (Tail(a) \o b)[i]
      BY <1>1, <1>4, <3>1, <3>2
    <3>5. Tail(a \o b) = Tail(a) \o b
      BY <3>1, <3>3, <3>4, SeqEqual
    <3> QED
      BY <3>1, <3>2, <3>5
  <2> DEFINE q == a \o b
  <2> HIDE DEF q
  <2>4. q \in Seq(S) /\ q # <<>> /\ Head(q) = r /\ Tail(q) = Tail(a) \o b
    BY <2>1, <2>3 DEF q
  <2>5. NewItems(q) = (IF r.do = "pub" /\ r.id = 0 THEN <<r.item>> ELSE <<>>) \o NewItems(Tail(q))
    BY <2>4, NewItemsHead
  <2>6. NewItems(a \o b) =
          (IF r.do = "pub" /\ r.id = 0 THEN <<r.item>> ELSE <<>>) \o NewItems(again'[c] \o reqs'[c])
    BY <2>1, <2>4, <2>5 DEF q
  <2> QED
    BY <1>2, <1>3, <1>a, <1>4, <2>2, <2>6 DEF S, T, a, b, r
<1>5. CASE a = <<>>
  <2>1. r = Head(b) /\ again'[c] = <<>> /\ reqs'[c] = Tail(b) /\ b # <<>>
    BY <1>5 DEF Request
  <2> HIDE DEF S, T, a, b, r
  <2>2. /\ r \in T /\ Tail(b) \in Seq(S)
        /\ NewItems(b) = (IF r.do = "pub" /\ r.id = 0 THEN <<r.item>> ELSE <<>>) \o NewItems(Tail(b))
    BY <1>1, <1>5, <2>1, NewItemsHead, TailAt
  <2>3. a \o b = b /\ again'[c] \o reqs'[c] = Tail(b)
    BY <1>1, <1>5, <2>1, <2>2
  <2>4. NewItems(a \o b) =
          (IF r.do = "pub" /\ r.id = 0 THEN <<r.item>> ELSE <<>>) \o NewItems(again'[c] \o reqs'[c])
    BY <2>2, <2>3
  <2> QED
    BY <1>2, <1>3, <1>a, <2>2, <2>4 DEF S, T, a, b, r
<1> QED
  BY <1>4, <1>5

\* The publications to be sent again are still there, but for the one being sent.
LEMMA AgainLeft ==
  ASSUME NEW c \in Sides, ClientHolds(c), 
         again'[c] = again[c] \/ (again[c] # <<>> /\ again'[c] = Tail(again[c]))
  PROVE  /\ \E s \in Nat : \A i \in DOMAIN again'[c] :
                i + s \in DOMAIN again[c] /\ again'[c][i] = again[c][i + s]
                /\ (again'[c] # again[c] => i + s # 1) /\ i \in Nat
         /\ \A j \in DOMAIN again[c] :
              \/ \E i \in DOMAIN again'[c] : again'[c][i] = again[c][j]
              \/ again'[c] # again[c] /\ again[c] # <<>> /\ again[c][j] = Head(again[c])
<1> DEFINE a == again[c]
<1>1. a \in Seq(Pubs(c, Nat))
  BY DEF ClientHolds
<1>2. CASE again'[c] = a
  <2>1. \A i \in DOMAIN a : i + 0 = i /\ i \in Nat
    BY <1>1
  <2>2. \A i \in DOMAIN again'[c] :
          i + 0 \in DOMAIN a /\ again'[c][i] = a[i + 0]
            /\ (again'[c] # a => i + 0 # 1) /\ i \in Nat
    BY <1>2, <2>1
  <2> QED
    BY <1>2, <2>2
<1>3. CASE a # <<>> /\ again'[c] = Tail(a)
  <2> HIDE DEF a
  <2>1. \A i \in DOMAIN again'[c] :
          i + 1 \in DOMAIN a /\ again'[c][i] = a[i + 1] /\ i + 1 # 1 /\ i \in Nat
    BY <1>1, <1>3
  <2>2. \A j \in DOMAIN a : j # 1 => j - 1 \in DOMAIN again'[c] /\ again'[c][j - 1] = a[j]
    BY <1>1, <1>3
  <2>3. a[1] = Head(a) /\ again'[c] # a
    <3>1. Len(a) \in Nat /\ Len(Tail(a)) = Len(a) - 1
      BY <1>1, <1>3
    <3>2. Len(Tail(a)) # Len(a)
      BY <3>1
    <3> QED
      BY <1>1, <1>3, <3>2, TailAt
  <2> QED
    BY <1>3, <2>1, <2>2, <2>3 DEF a
<1> QED
  BY <1>2, <1>3

LEMMA SendRequestInv ==
  ASSUME IndInv, NEW c \in Sides, SendRequest(c)
  PROVE  IndInv'
<1> DEFINE r == Request(c)
           new == r.id = 0 /\ Qos1(r.item)
           id == IF new THEN lastId[c] + 1 ELSE r.id
           p == Pub(id, r.item)
           AckSent == /\ r.do = "ack" /\ sent' = [sent EXCEPT ![c] = Append(@, r)]
                      /\ flight' = flight /\ lastId' = lastId /\ mode' = mode
           PubSent == /\ r.do = "pub" /\ sent' = [sent EXCEPT ![c] = Append(@, p)]
                      /\ lastId' = IF new THEN [lastId EXCEPT ![c] = id] ELSE lastId
                      /\ flight' = IF Qos1(r.item) THEN [flight EXCEPT ![c] = Append(@, p)]
                                                   ELSE flight
                      /\ mode' = IF id \in DOMAIN paired[c] THEN mode
                                 ELSE [mode EXCEPT ![c] = Pairing(id)]
<1>1. /\ link[c] = "up" /\ mode[c] = Polling /\ (again[c] # <<>> \/ reqs[c] # <<>>)
      /\ IF again[c] # <<>> THEN again' = [again EXCEPT ![c] = Tail(@)] /\ reqs' = reqs
                            ELSE reqs' = [reqs EXCEPT ![c] = Tail(@)] /\ again' = again
      /\ (AckSent \/ PubSent)
  BY DEF SendRequest, Push, Pop, OnOutgoing, Request
<1>2. /\ link' = link /\ wire' = wire /\ owed' = owed /\ got' = got /\ acked' = acked
      /\ paired' = paired /\ echoes' = echoes /\ chan' = chan /\ queue' = queue /\ writer' = writer
  BY DEF SendRequest, taskVars
<1>3. Holds(c) /\ IdsUnique(c) /\ IdsSent(c) /\ IdsPaired(c) /\ Aligned(c) /\ Shaped
  BY DEF IndInv, IdsInv
<1>4. /\ DOMAIN again' = Sides /\ DOMAIN reqs' = Sides
      /\ IF again[c] # <<>> THEN again'[c] = Tail(again[c]) /\ reqs'[c] = reqs[c]
                            ELSE reqs'[c] = Tail(reqs[c]) /\ again'[c] = again[c]
      /\ \A d \in Sides : d # c => again'[d] = again[d] /\ reqs'[d] = reqs[d]
  BY <1>1, <1>3 DEF Shaped
<1> HIDE DEF r
<1>5. Shaped'
  <2> HIDE DEF new, id, p
  <2>1. DOMAIN sent' = Sides /\ DOMAIN flight' = Sides /\ DOMAIN lastId' = Sides /\ DOMAIN mode' = Sides
    BY <1>1, <1>3 DEF Shaped
  <2> QED
    BY <1>2, <1>3, <1>4, <2>1 DEF Shaped
<1>6. Grows
  BY <1>2, SetsSame
<1>7. ASSUME NEW d \in Sides, d # c
      PROVE  NetStill(d) /\ ClientStill(d) /\ BridgeStill(d)
  <2> HIDE DEF new, id, p
  <2>1. sent'[d] = sent[d] /\ flight'[d] = flight[d]
    BY <1>1, <1>3, <1>7 DEF Shaped
  <2>2. lastId'[d] = lastId[d] /\ mode'[d] = mode[d]
    BY <1>1, <1>3, <1>7 DEF Shaped
  <2> QED
    BY <1>2, <1>4, <1>7, <2>1, <2>2 DEF NetStill, ClientStill, BridgeStill
<1>8. \A d \in Sides : TaskStill(d) /\ TaskHolds(d)'
  <2>1. \A d \in Sides : TaskStill(d) /\ queue'[d] = queue[d]
    BY <1>2 DEF TaskStill
  <2> QED
    BY <1>6, <2>1, TaskSame DEF IndInv, Holds
<1>9. /\ r \in Pubs(c, Nat) \cup Acks(c)
      /\ again'[c] \in Seq(Pubs(c, Nat)) /\ reqs'[c] \in Seq(Pubs(c, {0}) \cup Acks(c))
      /\ NewItems(again[c] \o reqs[c]) =
           (IF r.do = "pub" /\ r.id = 0 THEN <<r.item>> ELSE <<>>) \o NewItems(again'[c] \o reqs'[c])
      /\ NewItems(again'[c] \o reqs'[c]) \in Seq(Onto(c))
      /\ r.do = "pub" /\ r.id # 0 => again[c] # <<>> /\ 1 \in DOMAIN again[c] /\ r = again[c][1]
  BY <1>1, <1>3, <1>4, NextRequest DEF Holds, r
<1>10. PICK s \in Nat : \A i \in DOMAIN again'[c] :
          i + s \in DOMAIN again[c] /\ again'[c][i] = again[c][i + s]
            /\ (again'[c] # again[c] => i + s # 1) /\ i \in Nat
  BY <1>3, <1>4, AgainLeft DEF Holds
<1>11. \A j \in DOMAIN again[c] :
         (\E i \in DOMAIN again'[c] : again'[c][i] = again[c][j]) \/ again[c][j] = r
  <2>1. again'[c] # again[c] => again[c] # <<>>
    BY <1>4
  <2>2. again[c] # <<>> => r = Head(again[c])
    BY DEF r, Request
  <2> QED
    BY <1>3, <1>4, <2>1, <2>2, AgainLeft DEF Holds
<1>12. ASSUME NEW n, NotAgain(c, n) PROVE \A i \in DOMAIN again'[c] : again'[c][i].id # n
  BY <1>10, <1>12 DEF NotAgain
<1>13. ASSUME NEW i \in DOMAIN again'[c], again'[c][i].id # 0
       PROVE  /\ again'[c][i].id \in 1 .. lastId[c]
              /\ Qos1(again'[c][i].item) /\ ~IsHealth(again'[c][i].item)
              /\ \A j \in DOMAIN again'[c] : again'[c][i].id = again'[c][j].id => i = j
  <2>1. PICK k \in DOMAIN again[c] : k = i + s /\ again'[c][i] = again[c][k] /\ i \in Nat
    BY <1>10
  <2>2. ASSUME NEW j \in DOMAIN again'[c], again'[c][i].id = again'[c][j].id PROVE i = j
    <3>1. PICK l \in DOMAIN again[c] : l = j + s /\ again'[c][j] = again[c][l] /\ j \in Nat
      BY <1>10
    <3>2. k = l
      BY <1>3, <1>13, <2>1, <2>2, <3>1 DEF IdsUnique
    <3> QED
      BY <2>1, <3>1, <3>2
  <2> QED
    BY <1>3, <1>13, <2>1, <2>2 DEF IdsUnique
<1>14. /\ \A i \in DOMAIN flight[c] : flight[c][i].id # 0 /\ ~IsHealth(flight[c][i].item) =>
            flight[c][i].id \in DOMAIN paired[c] /\ paired[c][flight[c][i].id] = flight[c][i].item
       /\ \A i \in DOMAIN again[c] : again[c][i].id # 0 /\ ~IsHealth(again[c][i].item) =>
            again[c][i].id \in DOMAIN paired[c] /\ paired[c][again[c][i].id] = again[c][i].item
  <2>1. \A n : mode[c] # Pairing(n)
    BY <1>1 DEF Polling, Pairing
  <2> QED
    BY <1>3, <2>1 DEF IdsPaired, Known
<1>15. ASSUME NEW z \in Pubs(c, Nat) \cup Acks(c), sent'[c] = Append(sent[c], z) PROVE NetHolds(c)'
  <2>1. /\ Pubs(c, Nat)' = Pubs(c, Nat) /\ Acks(c)' = Acks(c) /\ Received(c)' = Received(c)
        /\ From(c)' = From(c) /\ Settled(c)' = Settled(c)
    BY <1>2, SetsSame
  <2>2. sent'[c] \in Seq(Pubs(c, Nat) \cup Acks(c))
    BY <1>3, <1>15, AppendProperties DEF Holds, NetHolds
  <2> QED
    BY <1>1, <1>2, <1>3, <2>1, <2>2 DEF Holds, NetHolds
<1>16. ASSUME flight'[c] \in Seq(Pubs(c, Nat)), lastId'[c] \in Nat PROVE ClientHolds(c)'
  <2>1. Pubs(c, Nat)' = Pubs(c, Nat) /\ Acks(c)' = Acks(c) /\ Pubs(c, {0})' = Pubs(c, {0})
    BY <1>2, SetsSame
  <2> QED
    BY <1>9, <1>16, <2>1 DEF ClientHolds
<1>17. /\ flight[c] \in Seq(Pubs(c, Nat)) /\ lastId[c] \in Nat /\ sent[c] \in Seq(Pubs(c, Nat) \cup Acks(c))
       /\ DOMAIN paired[c] \subseteq 1 .. lastId[c] /\ again[c] \in Seq(Pubs(c, Nat))
  BY <1>3 DEF Holds, ClientHolds, NetHolds, BridgeHolds
<1>18. Trail(c) \in Seq(Onto(c)) /\ Trail(c)' = Trail(c)
  <2>1. writer[c] \in Onto(c) \cup {None}
    BY <1>3 DEF Holds, TaskHolds
  <2> QED
    BY <1>2, <2>1 DEF Trail
<1>19. /\ mode[c].do # "pair" /\ mode[c].do # "ack"
       /\ chan[c] = NewItems(again[c] \o reqs[c]) \o Trail(c)
       /\ Coming(c)' = NewItems(again'[c] \o reqs'[c]) \o Trail(c)
  BY <1>1, <1>3, <1>18 DEF Polling, Aligned, Coming
<1>20. ~(r.do = "pub" /\ r.id = 0) => chan[c] = Coming(c)'
  <2> DEFINE n == NewItems(again'[c] \o reqs'[c])
  <2>1. n \in Seq(Onto(c))
    BY <1>9
  <2>2. ~(r.do = "pub" /\ r.id = 0) => NewItems(again[c] \o reqs[c]) = <<>> \o n
    BY <1>9
  <2> HIDE DEF n
  <2>3. <<>> \o n = n
    BY <2>1
  <2> QED
    BY <1>19, <2>2, <2>3 DEF n
<1>21. r.do = "pub" /\ r.id = 0 =>
         chan[c] # <<>> /\ Head(chan[c]) = r.item /\ Tail(chan[c]) = Coming(c)'
  <2> SUFFICES ASSUME r.do = "pub", r.id = 0
               PROVE  chan[c] # <<>> /\ Head(chan[c]) = r.item /\ Tail(chan[c]) = Coming(c)'
    OBVIOUS
  <2> DEFINE n == NewItems(again'[c] \o reqs'[c])
             t == Trail(c)
             x == r.item
  <2>1. n \in Seq(Onto(c)) /\ t \in Seq(Onto(c)) /\ x \in Onto(c)
    BY <1>9, <1>18 DEF Pubs, Acks
  <2>2. NewItems(again[c] \o reqs[c]) = <<x>> \o n
    BY <1>9
  <2>3. chan[c] = (<<x>> \o n) \o t /\ Coming(c)' = n \o t
    BY <1>19, <2>2
  <2> HIDE DEF n, t, x
  <2>4. (<<x>> \o n) \o t = <<x>> \o (n \o t)
    BY <2>1, ConcatAssociative
  <2> DEFINE u == n \o t
  <2>5. u \in Seq(Onto(c))
    BY <2>1
  <2> HIDE DEF u
  <2>6. <<x>> \o u # <<>> /\ Head(<<x>> \o u) = x /\ Tail(<<x>> \o u) = u
    BY <2>1, <2>5
  <2>7. chan[c] # <<>> /\ Head(chan[c]) = x /\ Tail(chan[c]) = n \o t
    BY <2>3, <2>4, <2>6 DEF u
  <2> QED
    BY <2>3, <2>7 DEF x
<1>22. CASE AckSent
  <2>1. sent'[c] = Append(sent[c], r)
    BY <1>3, <1>22 DEF Shaped
  <2>2. NetHolds(c)' /\ ClientHolds(c)'
    BY <1>9, <1>15, <1>16, <1>17, <1>22, <2>1
  <2>3. BridgeHolds(c)'
    BY <1>2, <1>3, <1>6, <1>22, BridgeSame DEF Holds, BridgeStill
  <2>4. IdsUnique(c)'
    BY <1>2, <1>3, <1>12, <1>13, <1>22 DEF IdsUnique, NotAgain
  <2>5. IdsSent(c)'
    <3>1. \A i \in DOMAIN sent'[c] : sent'[c][i].do = "pub" =>
            i \in DOMAIN sent[c] /\ sent'[c][i] = sent[c][i]
      BY <1>9, <1>17, <1>22, <2>1, AppendAt
    <3>2. \A i \in DOMAIN sent'[c] : sent'[c][i].do = "pub" /\ Qos1(sent'[c][i].item) =>
            /\ sent'[c][i].id \in 1 .. lastId[c]
            /\ \A j \in DOMAIN again'[c] : again'[c][j].id # sent'[c][i].id
            /\ \A j \in DOMAIN flight[c] :
                 flight[c][j].id = sent'[c][i].id => flight[c][j].item = sent'[c][i].item
      BY <1>3, <1>12, <3>1 DEF IdsSent
    <3>3. \A i \in DOMAIN wire[c] : wire[c][i].do = "puback" =>
            /\ wire[c][i].id \in 1 .. lastId[c]
            /\ \A j \in DOMAIN again'[c] : again'[c][j].id # wire[c][i].id
            /\ \A j \in DOMAIN flight[c] :
                 flight[c][j].id = wire[c][i].id => flight[c][j].item \in got[c]
      BY <1>3, <1>12 DEF IdsSent
    <3> QED
      BY <1>2, <1>22, <3>2, <3>3 DEF IdsSent, NotAgain
  <2>6. IdsPaired(c)'
    <3>1. \A j \in DOMAIN again[c] : \E i \in DOMAIN again'[c] : again'[c][i] = again[c][j]
      <4>1. \A j \in DOMAIN again[c] : again[c][j] \in Pubs(c, Nat)
        BY <1>17
      <4>2. \A j \in DOMAIN again[c] : again[c][j] # r
        BY <1>22, <4>1 DEF Pubs
      <4> QED
        BY <1>11, <4>2
    <3>2. \A q : Known(c, q) => Known(c, q)'
      BY <1>2, <1>22 DEF Known
    <3>3. \A i \in DOMAIN again'[c] : \E j \in DOMAIN again[c] : again'[c][i] = again[c][j]
      BY <1>10
    <3>4. \A i \in DOMAIN again'[c] : \A q : q = again'[c][i] => Known(c, q)'
      BY <1>3, <3>2, <3>3 DEF IdsPaired
    <3>5. \A i \in DOMAIN flight[c] : \A q : q = flight[c][i] => Known(c, q)'
      BY <1>3, <3>2 DEF IdsPaired
    <3>6. ASSUME NEW n \in DOMAIN paired[c]
          PROVE  \/ \E i \in DOMAIN flight[c] : flight[c][i].id = n /\ flight[c][i].item = paired[c][n]
                 \/ \E i \in DOMAIN again'[c] : again'[c][i].id = n /\ again'[c][i].item = paired[c][n]
      <4>1. CASE \E j \in DOMAIN again[c] : again[c][j].id = n /\ again[c][j].item = paired[c][n]
        <5>1. PICK j \in DOMAIN again[c] : again[c][j].id = n /\ again[c][j].item = paired[c][n]
          BY <4>1
        <5>2. \E i \in DOMAIN again'[c] : again'[c][i] = again[c][j]
          BY <3>1
        <5> QED
          BY <5>1, <5>2
      <4> QED
        BY <1>3, <4>1 DEF IdsPaired
    <3> QED
      BY <1>2, <1>22, <3>4, <3>5, <3>6 DEF IdsPaired
  <2>7. Aligned(c)'
    BY <1>2, <1>19, <1>20, <1>22 DEF Aligned
  <2>8. Holds(c)' /\ IdsInv(c)'
    BY <1>8, <2>2, <2>3, <2>4, <2>5, <2>6, <2>7 DEF Holds, IdsInv
  <2> QED
    BY <1>5, <1>6, <1>7, <1>8, <2>8, OneSide
<1>23. CASE PubSent
  <2>1. /\ r \in Pubs(c, Nat) /\ r.id \in Nat /\ r.item \in Onto(c) /\ r.do = "pub"
    BY <1>9, <1>23 DEF Pubs, Acks
  <2>2. r.id # 0 => /\ id = r.id /\ Qos1(r.item) /\ ~IsHealth(r.item) /\ id \in 1 .. lastId[c]
                    /\ id \in DOMAIN paired[c] /\ paired[c][id] = r.item
                    /\ 1 \in DOMAIN again[c] /\ again[c][1] = r /\ again'[c] # again[c]
    <3> SUFFICES ASSUME r.id # 0
                 PROVE  /\ Qos1(r.item) /\ ~IsHealth(r.item) /\ r.id \in 1 .. lastId[c]
                        /\ r.id \in DOMAIN paired[c] /\ paired[c][r.id] = r.item
                        /\ 1 \in DOMAIN again[c] /\ again[c][1] = r /\ again'[c] # again[c]
      OBVIOUS
    <3>1. again[c] # <<>> /\ 1 \in DOMAIN again[c] /\ again[c][1] = r
      BY <1>9, <2>1
    <3>2. Qos1(r.item) /\ ~IsHealth(r.item) /\ r.id \in 1 .. lastId[c]
      BY <1>3, <3>1 DEF IdsUnique
    <3>3. r.id \in DOMAIN paired[c] /\ paired[c][r.id] = r.item
      BY <1>14, <3>1, <3>2
    <3>4. again'[c] # again[c]
      <4>1. again'[c] = Tail(again[c]) /\ Len(again[c]) \in Nat /\ Len(Tail(again[c])) = Len(again[c]) - 1
        BY <1>4, <1>17, <3>1
      <4>2. Len(again'[c]) # Len(again[c])
        BY <4>1
      <4> QED
        BY <4>2
    <3> QED
      BY <3>1, <3>2, <3>3, <3>4
  <2>3. r.id = 0 => /\ id \notin DOMAIN paired[c]
                    /\ Qos1(r.item) => id = lastId[c] + 1
                    /\ ~Qos1(r.item) => id = 0
    BY <1>17
  <2>4. /\ id \in Nat /\ lastId[c] \in Nat
        /\ lastId'[c] = IF r.id = 0 /\ Qos1(r.item) THEN id ELSE lastId[c]
        /\ lastId'[c] \in Nat /\ lastId[c] <= lastId'[c]
        /\ Qos1(r.item) => id \in 1 .. lastId'[c]
    <3>1. id \in Nat
      BY <1>17, <2>1
    <3>2. lastId'[c] = IF new THEN id ELSE lastId[c]
      BY <1>3, <1>23 DEF Shaped
    <3> QED
      BY <1>17, <2>2, <2>3, <3>1, <3>2
  <2>5. /\ p \in Pubs(c, Nat) /\ p.id = id /\ p.item = r.item /\ p.do = "pub"
    BY <2>1, <2>4 DEF Pub, Pubs
  <2>6. /\ sent'[c] = Append(sent[c], p)
        /\ flight'[c] = IF Qos1(r.item) THEN Append(flight[c], p) ELSE flight[c]
        /\ r.id = 0 => mode'[c] = Pairing(id)
        /\ r.id # 0 => mode'[c] = mode[c]
    <3>1. id \in DOMAIN paired[c] <=> r.id # 0
      BY <2>2, <2>3
    <3> HIDE DEF p, id, new
    <3> QED
      BY <1>3, <1>23, <3>1 DEF Shaped
  <2> HIDE DEF id, p, new
  <2>7. Qos1(r.item) =>
          /\ \A i \in DOMAIN again'[c] : again'[c][i].id # id
          /\ \A i \in DOMAIN flight[c] : flight[c][i].id # id
          /\ \A i \in DOMAIN sent[c] : sent[c][i].do = "pub" /\ Qos1(sent[c][i].item) => sent[c][i].id # id
          /\ \A i \in DOMAIN wire[c] : wire[c][i].do = "puback" => wire[c][i].id # id
    <3>1. CASE r.id = 0 /\ Qos1(r.item)
      <4>1. id = lastId[c] + 1 /\ id # 0 /\ id \notin 1 .. lastId[c]
        BY <2>3, <2>4, <3>1
      <4>2. \A i \in DOMAIN again'[c] : again'[c][i].id # id
        BY <1>13, <4>1
      <4> QED
        BY <1>3, <4>1, <4>2 DEF IdsUnique, IdsSent
    <3>2. CASE r.id # 0
      <4>1. 1 \in DOMAIN again[c] /\ again[c][1].id = id /\ id # 0 /\ again'[c] # again[c]
        BY <2>2, <3>2
      <4>2. \A n : NotAgain(c, n) => n # id
        BY <4>1 DEF NotAgain
      <4>3. ASSUME NEW i \in DOMAIN again'[c] PROVE again'[c][i].id # id
        <5>1. PICK k \in DOMAIN again[c] : k # 1 /\ again'[c][i] = again[c][k]
          BY <1>10, <4>1
        <5> QED
          BY <1>3, <4>1, <5>1 DEF IdsUnique
      <4> QED
        BY <1>3, <4>2, <4>3 DEF IdsUnique, IdsSent
    <3> QED
      BY <3>1, <3>2
  <2>8. NetHolds(c)'
    BY <1>15, <2>5, <2>6
  <2>9. ClientHolds(c)'
    <3>1. flight'[c] \in Seq(Pubs(c, Nat))
      BY <1>17, <2>5, <2>6, AppendProperties
    <3> QED
      BY <1>16, <2>4, <3>1
  <2>10. BridgeHolds(c)'
    <3>1. From(Other(c))' = From(Other(c)) /\ Modes(c)' = Modes(c)
      BY <1>2, SetsSame
    <3>2. mode'[c] \in Modes(c) /\ mode'[c].do # "ack"
      BY <1>3, <1>19, <2>4, <2>6 DEF Pairing, Modes, Holds, BridgeHolds
    <3>3. DOMAIN paired[c] \subseteq 1 .. lastId'[c]
      BY <1>17, <2>4
    <3> QED
      BY <1>2, <1>3, <3>1, <3>2, <3>3 DEF Holds, BridgeHolds
  <2>11. \A i \in DOMAIN flight'[c] :
           \/ i \in DOMAIN flight[c] /\ flight'[c][i] = flight[c][i]
           \/ i = Len(flight[c]) + 1 /\ flight'[c][i] = p /\ Qos1(r.item)
    <3>1. CASE Qos1(r.item)
      BY <1>17, <2>5, <2>6, <3>1, AppendAt
    <3> QED
      BY <2>6, <3>1
  <2>12. /\ \A i \in DOMAIN flight[c] : i \in DOMAIN flight'[c] /\ flight'[c][i] = flight[c][i]
         /\ Qos1(r.item) => \E i \in DOMAIN flight'[c] : flight'[c][i] = p
    <3>1. CASE Qos1(r.item)
      BY <1>17, <2>5, <2>6, <3>1, AppendAt
    <3> QED
      BY <2>6, <3>1
  <2>13. 1 .. lastId[c] \subseteq 1 .. lastId'[c]
    BY <2>4
  <2>14. IdsUnique(c)'
    <3>1. ASSUME NEW i \in DOMAIN flight'[c]
          PROVE  /\ flight'[c][i].id \in 1 .. lastId'[c] /\ Qos1(flight'[c][i].item)
                 /\ \A k \in DOMAIN again'[c] : again'[c][k].id # flight'[c][i].id
                 /\ \A j \in DOMAIN flight'[c] : flight'[c][i].id = flight'[c][j].id => i = j
      <4>1. CASE i \in DOMAIN flight[c] /\ flight'[c][i] = flight[c][i]
        <5>1. /\ flight[c][i].id \in 1 .. lastId[c] /\ Qos1(flight[c][i].item)
              /\ NotAgain(c, flight[c][i].id)
              /\ \A j \in DOMAIN flight[c] : flight[c][i].id = flight[c][j].id => i = j
          BY <1>3, <4>1 DEF IdsUnique
        <5>2. \A k \in DOMAIN again'[c] : again'[c][k].id # flight[c][i].id
          BY <1>12, <5>1
        <5>3. \A j \in DOMAIN flight'[c] : flight[c][i].id = flight'[c][j].id => i = j
          BY <2>5, <2>7, <2>11, <4>1, <5>1
        <5> QED
          BY <2>13, <4>1, <5>1, <5>2, <5>3
      <4>2. CASE i = Len(flight[c]) + 1 /\ flight'[c][i] = p /\ Qos1(r.item)
        <5>1. \A j \in DOMAIN flight'[c] : id = flight'[c][j].id => i = j
          BY <2>7, <2>11, <4>2
        <5> QED
          BY <2>4, <2>5, <2>7, <4>2, <5>1
      <4> QED
        BY <2>11, <4>1, <4>2
    <3>2. \A i \in DOMAIN again'[c] : again'[c][i].id # 0 =>
            /\ again'[c][i].id \in 1 .. lastId'[c]
            /\ Qos1(again'[c][i].item) /\ ~IsHealth(again'[c][i].item)
            /\ \A j \in DOMAIN again'[c] : again'[c][i].id = again'[c][j].id => i = j
      BY <1>13, <2>13
    <3>3. link'[c] # "lost"
      BY <1>1, <1>2
    <3> QED
      BY <3>1, <3>2, <3>3 DEF IdsUnique, NotAgain
  <2>15. IdsSent(c)'
    <3>1. \A i \in DOMAIN sent'[c] :
            (i \in DOMAIN sent[c] /\ sent'[c][i] = sent[c][i]) \/ sent'[c][i] = p
      BY <1>17, <2>5, <2>6, AppendAt
    <3>2. ASSUME NEW i \in DOMAIN sent'[c], sent'[c][i].do = "pub", Qos1(sent'[c][i].item)
          PROVE  /\ sent'[c][i].id \in 1 .. lastId'[c]
                 /\ \A j \in DOMAIN again'[c] : again'[c][j].id # sent'[c][i].id
                 /\ \A j \in DOMAIN flight'[c] :
                      flight'[c][j].id = sent'[c][i].id => flight'[c][j].item = sent'[c][i].item
      <4>1. CASE i \in DOMAIN sent[c] /\ sent'[c][i] = sent[c][i]
        <5>1. /\ sent[c][i].id \in 1 .. lastId[c] /\ NotAgain(c, sent[c][i].id)
              /\ \A j \in DOMAIN flight[c] :
                   flight[c][j].id = sent[c][i].id => flight[c][j].item = sent[c][i].item
          BY <1>3, <3>2, <4>1 DEF IdsSent
        <5>2. \A j \in DOMAIN again'[c] : again'[c][j].id # sent[c][i].id
          BY <1>12, <5>1
        <5>3. Qos1(r.item) => sent[c][i].id # id
          BY <2>7, <3>2, <4>1
        <5>4. \A j \in DOMAIN flight'[c] :
                flight'[c][j].id = sent[c][i].id => flight'[c][j].item = sent[c][i].item
          BY <2>5, <2>11, <5>1, <5>3
        <5> QED
          BY <2>13, <4>1, <5>1, <5>2, <5>4
      <4>2. CASE sent'[c][i] = p
        <5>1. Qos1(r.item)
          BY <2>5, <3>2, <4>2
        <5>2. \A j \in DOMAIN flight'[c] : flight'[c][j].id = id => flight'[c][j].item = r.item
          BY <2>5, <2>7, <2>11, <5>1
        <5> QED
          BY <2>4, <2>5, <2>7, <4>2, <5>1, <5>2
      <4> QED
        BY <3>1, <4>1, <4>2
    <3>3. ASSUME NEW i \in DOMAIN wire[c], wire[c][i].do = "puback"
          PROVE  /\ wire[c][i].id \in 1 .. lastId'[c]
                 /\ \A j \in DOMAIN again'[c] : again'[c][j].id # wire[c][i].id
                 /\ \A j \in DOMAIN flight'[c] :
                      flight'[c][j].id = wire[c][i].id => flight'[c][j].item \in got[c]
      <4>1. /\ wire[c][i].id \in 1 .. lastId[c] /\ NotAgain(c, wire[c][i].id)
            /\ \A j \in DOMAIN flight[c] : flight[c][j].id = wire[c][i].id => flight[c][j].item \in got[c]
        BY <1>3, <3>3 DEF IdsSent
      <4>2. \A j \in DOMAIN again'[c] : again'[c][j].id # wire[c][i].id
        BY <1>12, <4>1
      <4>3. Qos1(r.item) => wire[c][i].id # id
        BY <2>7, <3>3
      <4> QED
        BY <2>5, <2>11, <2>13, <4>1, <4>2, <4>3
    <3> QED
      BY <1>2, <3>2, <3>3 DEF IdsSent, NotAgain
  <2>16. IdsPaired(c)'
    <3>1. ASSUME NEW q, q.id # 0 /\ ~IsHealth(q.item) =>
                          q.id \in DOMAIN paired[c] /\ paired[c][q.id] = q.item
          PROVE  Known(c, q)'
      BY <1>2, <3>1 DEF Known
    <3>2. \A q : q = p => Known(c, q)'
      <4>1. CASE r.id = 0
        BY <2>5, <2>6, <4>1 DEF Known
      <4>2. CASE r.id # 0
        BY <2>2, <2>5, <3>1, <4>2
      <4> QED
        BY <4>1, <4>2
    <3>3. \A i \in DOMAIN flight'[c] : \A q : q = flight'[c][i] => Known(c, q)'
      BY <1>14, <2>11, <3>1, <3>2
    <3>4. \A i \in DOMAIN again'[c] : \A q : q = again'[c][i] => Known(c, q)'
      <4>1. \A i \in DOMAIN again'[c] : \E j \in DOMAIN again[c] : again'[c][i] = again[c][j]
        BY <1>10
      <4> QED
        BY <1>14, <3>1, <4>1
    <3>5. ASSUME NEW n \in DOMAIN paired[c]
          PROVE  \/ \E i \in DOMAIN flight'[c] : flight'[c][i].id = n /\ flight'[c][i].item = paired[c][n]
                 \/ \E i \in DOMAIN again'[c] : again'[c][i].id = n /\ again'[c][i].item = paired[c][n]
      <4>1. CASE \E i \in DOMAIN flight[c] : flight[c][i].id = n /\ flight[c][i].item = paired[c][n]
        BY <2>12, <4>1
      <4>2. CASE \E j \in DOMAIN again[c] : again[c][j].id = n /\ again[c][j].item = paired[c][n]
        <5>1. PICK j \in DOMAIN again[c] : again[c][j].id = n /\ again[c][j].item = paired[c][n]
          BY <4>2
        <5>2. CASE again[c][j] = r
          <6>1. r.id = n /\ n # 0 /\ r.item = paired[c][n]
            BY <1>17, <5>1, <5>2
          <6>2. Qos1(r.item) /\ p.id = n /\ p.item = paired[c][n]
            BY <2>2, <2>5, <6>1
          <6> QED
            BY <2>12, <6>2
        <5> QED
          BY <1>11, <5>1, <5>2
      <4> QED
        BY <1>3, <4>1, <4>2 DEF IdsPaired
    <3> QED
      BY <1>2, <3>3, <3>4, <3>5 DEF IdsPaired
  <2>17. Aligned(c)'
    <3>1. CASE r.id # 0
      BY <1>2, <1>19, <1>20, <2>6, <3>1 DEF Aligned
    <3>2. CASE r.id = 0
      <4>1. mode'[c].do = "pair" /\ mode'[c].id = id
        BY <2>6, <3>2 DEF Pairing
      <4>2. chan'[c] # <<>> /\ Head(chan'[c]) = r.item /\ Tail(chan'[c]) = Coming(c)'
        BY <1>2, <1>21, <2>1, <3>2
      <4>3. id # 0 => /\ id \notin DOMAIN paired'[c]
                      /\ \E i \in DOMAIN flight'[c] : flight'[c][i].id = id /\ flight'[c][i].item = r.item
        BY <1>2, <2>3, <2>5, <2>12, <3>2
      <4> QED
        BY <4>1, <4>2, <4>3 DEF Aligned
    <3> QED
      BY <3>1, <3>2
  <2>18. Holds(c)' /\ IdsInv(c)'
    BY <1>8, <2>8, <2>9, <2>10, <2>14, <2>15, <2>16, <2>17 DEF Holds, IdsInv
  <2> QED
    BY <1>5, <1>6, <1>7, <1>8, <2>18, OneSide
<1> QED
  BY <1>1, <1>22, <1>23

\* A change of the status of a side, which may queue a message for the local broker.
LEMMA HealthQueued ==
  ASSUME IndInv, NEW c \in Sides, NEW s, UpdateHealth(c, s), got' = got, chan' = chan,
         writer' = writer
  PROVE  DOMAIN queue' = Sides /\ \A d \in Sides : TaskStill(d) /\ TaskHolds(d)'
<1> DEFINE all == OverallStatus([status EXCEPT ![c] = s])
           p == Pub(0, Health(all))
<1>1. queue' = queue \/ queue' = [queue EXCEPT !["local"] = Append(@, p)]
  BY DEF UpdateHealth, Push
<1>2. p \in Pubs("local", {0}) \cup Acks("local") /\ "local" \in Sides
  <2>1. all \in {"up", "down", None}
    BY DEF OverallStatus
  <2> HIDE DEF all
  <2>2. Health(all) \in Onto("local")
    BY <2>1 DEF Health, Onto, Healths
  <2> QED
    BY <2>2 DEF Pub, Pubs, Sides
<1> HIDE DEF p
<1>3. Shaped
  BY DEF IndInv
<1>4. \A d \in Sides : TaskStill(d)
  BY DEF TaskStill
<1>5. ASSUME NEW d \in Sides PROVE TaskHolds(d)'
  <2>1. TaskHolds(d) /\ Grows
    BY SetsSame DEF IndInv, Holds
  <2>2. CASE queue'[d] = queue[d]
    BY <1>4, <2>1, <2>2, TaskSame
  <2>3. CASE d = "local" /\ queue' = [queue EXCEPT !["local"] = Append(@, p)]
    <3>1. queue'[d] = Append(queue[d], p)
      BY <1>2, <1>3, <2>3 DEF Shaped
    <3>2. queue'[d] \in Seq(Pubs(d, {0}) \cup Acks(d))
      BY <1>2, <2>1, <2>3, <3>1, AppendProperties DEF TaskHolds
    <3>3. Onto(d)' = Onto(d) /\ Acks(d)' = Acks(d) /\ Pubs(d, {0})' = Pubs(d, {0})
      BY SetsSame
    <3> QED
      BY <2>1, <3>2, <3>3 DEF TaskHolds
  <2> QED
    BY <1>1, <1>3, <2>2, <2>3 DEF Shaped
<1>6. DOMAIN queue' = Sides
  BY <1>1, <1>3 DEF Shaped
<1> QED
  BY <1>4, <1>5, <1>6

LEMMA ConnectFailsInv ==
  ASSUME IndInv, NEW c \in Sides, ConnectFails(c)
  PROVE  IndInv'
<1>1. /\ UpdateHealth(c, "down") /\ got' = got /\ chan' = chan /\ writer' = writer
      /\ UNCHANGED netVars /\ UNCHANGED clientVars /\ UNCHANGED halfVars
  BY DEF ConnectFails, netVars
<1>2. DOMAIN queue' = Sides /\ \A d \in Sides : TaskStill(d) /\ TaskHolds(d)'
  BY <1>1, HealthQueued
<1>3. \A d \in Sides : NetStill(d) /\ ClientStill(d) /\ BridgeStill(d)
  BY <1>1 DEF NetStill, ClientStill, BridgeStill, netVars, clientVars, halfVars
<1>4. Shaped' /\ Grows
  BY <1>1, <1>2, SetsSame DEF IndInv, Shaped, netVars, clientVars, halfVars
<1>5. Holds(c)' /\ IdsInv(c)'
  BY <1>2, <1>3, <1>4, SideStill DEF IndInv
<1> QED
  BY <1>2, <1>3, <1>4, <1>5, OneSide

\* The packets a broker sends again, in some order.
LEMMA SentAgain ==
  ASSUME NEW c \in Sides, NetHolds(c)
  PROVE  SetToSeq({Pub(0, x) : x \in owed[c]}) \in Seq([do : {"pub"}, id : {0}, item : From(c)])
<1> DEFINE S == {Pub(0, x) : x \in owed[c]}
           R == [do : {"pub"}, id : {0}, item : From(c)]
<1>1. IsFiniteSet(S)
  <2>1. IsFiniteSet(owed[c])
    BY DEF NetHolds
  <2> DEFINE f == [x \in owed[c] |-> Pub(0, x)]
  <2>2. f \in [owed[c] -> S] /\ \A t \in S : \E x \in owed[c] : f[x] = t
    OBVIOUS
  <2>3. f \in Surjection(owed[c], S)
    BY <2>2, Fun_IsSurj
  <2> HIDE DEF f, S
  <2> QED
    BY <2>1, <2>3, FS_Surjection
<1>2. S \subseteq R
  BY DEF Pub, NetHolds
<1> HIDE DEF S, R
<1>3. Cardinality(S) \in Nat /\ ExistsBijection(1 .. Cardinality(S), S)
  BY <1>1, FS_CardinalityType
<1>4. \E f \in [1 .. Cardinality(S) -> S] : IsInjective(f)
  BY <1>3, Fun_IsInj DEF ExistsBijection, Bijection, Injection, IsInjective
<1>5. SetToSeq(S) \in [1 .. Cardinality(S) -> S]
  BY <1>4 DEF SetToSeq
<1>6. SetToSeq(S) \in Seq(S)
  BY <1>3, <1>5, SeqDef
<1>7. SetToSeq(S) \in Seq(R)
  BY <1>2, <1>6, SeqMonotonic
<1> QED
  BY <1>7 DEF S, R

LEMMA ConnectInv ==
  ASSUME IndInv, NEW c \in Sides, Connect(c)
  PROVE  IndInv'
<1> DEFINE w == SetToSeq({Pub(0, x) : x \in owed[c]})
<1>1. /\ link[c] = "down" /\ link' = [link EXCEPT ![c] = "up"] /\ wire' = [wire EXCEPT ![c] = w]
      /\ UpdateHealth(c, "up") /\ chan' = chan /\ writer' = writer
      /\ sent' = sent /\ owed' = owed /\ got' = got /\ acked' = acked
      /\ UNCHANGED clientVars /\ UNCHANGED halfVars
  BY DEF Connect
<1>2. DOMAIN queue' = Sides /\ \A d \in Sides : TaskStill(d) /\ TaskHolds(d)'
  BY <1>1, HealthQueued
<1>3. Holds(c) /\ IdsInv(c) /\ Shaped
  BY DEF IndInv
<1>4. w \in Seq([do : {"pub"}, id : {0}, item : From(c)])
  BY <1>3, SentAgain DEF Holds
<1> HIDE DEF w
<1>5. Shaped' /\ Grows
  <2>1. DOMAIN link' = Sides /\ DOMAIN wire' = Sides
    BY <1>1, <1>3 DEF Shaped
  <2> QED
    BY <1>1, <1>2, <1>3, <2>1, SetsSame DEF Shaped, clientVars, halfVars
<1>6. \A d \in Sides : ClientStill(d) /\ BridgeStill(d)
  BY <1>1 DEF ClientStill, BridgeStill, clientVars, halfVars
<1>7. \A d \in Sides : d # c => NetStill(d)
  BY <1>1, <1>3 DEF NetStill, Shaped
<1>8. wire'[c] = w /\ link'[c] = "up" /\ sent'[c] = <<>> /\ owed'[c] = owed[c] /\ acked'[c] = acked[c]
  BY <1>1, <1>3 DEF Shaped, Holds, NetHolds
<1>9. w \in Seq(Received(c)) /\ \A i \in DOMAIN w : w[i].do # "puback"
  <2> DEFINE R == [do : {"pub"}, id : {0}, item : From(c)]
  <2>1. w \in Seq(R) /\ R \subseteq Received(c) /\ \A p \in R : p.do # "puback"
    BY <1>4 DEF Received
  <2> HIDE DEF R
  <2>2. \A i \in DOMAIN w : w[i] \in R
    BY <2>1
  <2>3. w \in Seq(Received(c))
    BY <2>1, SeqMonotonic
  <2> QED
    BY <2>1, <2>2, <2>3
<1>10. NetHolds(c)'
  <2>1. Received(c)' = Received(c) /\ From(c)' = From(c) /\ Settled(c)' = Settled(c)
    BY <1>1, SetsSame
  <2>2. sent'[c] \in Seq(Pubs(c, Nat)' \cup Acks(c)')
    BY <1>8
  <2> QED
    BY <1>3, <1>8, <1>9, <2>1, <2>2 DEF Holds, NetHolds
<1>11. ClientHolds(c)' /\ BridgeHolds(c)'
  BY <1>3, <1>5, <1>6, ClientSame, BridgeSame DEF Holds, ClientStill
<1>12. IdsUnique(c)' /\ IdsPaired(c)'
  BY <1>3, <1>6, <1>8, UniqueSame, PairedSame DEF IdsInv, ClientStill, BridgeStill
<1>13. IdsSent(c)'
  BY <1>8, <1>9 DEF IdsSent
<1>14. Aligned(c)'
  BY <1>2, <1>3, <1>6, AlignedSame DEF IdsInv, BridgeStill
<1>15. Holds(c)' /\ IdsInv(c)'
  BY <1>2, <1>10, <1>11, <1>12, <1>13, <1>14 DEF Holds, IdsInv
<1> QED
  BY <1>2, <1>5, <1>6, <1>7, <1>15, OneSide

\* The publications a client keeps when its connection is lost, in order: those in
\* flight, those it was sending again and those queued.
Kept(c, all) ==
  /\ all \in Seq(Pubs(c, Nat) \cup Acks(c))
  /\ \A i \in DOMAIN all : all[i].do = "pub" /\ all[i].id # 0 =>
       /\ all[i].id \in 1 .. lastId[c] /\ Qos1(all[i].item) /\ ~IsHealth(all[i].item)
       /\ \/ \E k \in DOMAIN flight[c] : all[i] = flight[c][k]
          \/ \E k \in DOMAIN again[c] : all[i] = again[c][k]
       /\ \A j \in DOMAIN all : all[j].do = "pub" /\ all[i].id = all[j].id => i = j
  /\ \A k \in DOMAIN flight[c] : \E i \in DOMAIN all : all[i] = flight[c][k] /\ all[i].do = "pub"
  /\ \A k \in DOMAIN again[c] : \E i \in DOMAIN all : all[i] = again[c][k] /\ all[i].do = "pub"
  /\ NewItems(all) = NewItems(again[c] \o reqs[c])

LEMMA KeptUnique ==
  ASSUME NEW c \in Sides, ClientHolds(c), IdsUnique(c), link[c] = "lost",
         NEW all, all = flight[c] \o again[c] \o reqs[c]
  PROVE  Kept(c, all)
<1> DEFINE S == Pubs(c, Nat) \cup Acks(c)
           f == flight[c]
           a == again[c]
           b == reqs[c]
           m == f \o a
<1>1. a \in Seq(S) /\ b \in Seq(S) /\ f \in Seq(S) /\ f \in Seq(Pubs(c, Nat)) /\ a \in Seq(Pubs(c, Nat))
      /\ b \in Seq(Pubs(c, {0}) \cup Acks(c))
  <2>1. Pubs(c, Nat) \subseteq S /\ f \in Seq(Pubs(c, Nat))
    BY DEF ClientHolds
  <2> HIDE DEF S, f
  <2>2. f \in Seq(S)
    BY <2>1, SeqMonotonic
  <2> QED
    BY <2>1, <2>2, AllRequests DEF S, ClientHolds
<1>2. /\ \A k \in DOMAIN f : f[k].do = "pub" /\ f[k].id # 0
      /\ \A k \in DOMAIN a : a[k].do = "pub"
      /\ \A k \in DOMAIN b : b[k].do = "pub" => b[k].id = 0
  <2>1. /\ \A k \in DOMAIN f : f[k] \in Pubs(c, Nat)
        /\ \A k \in DOMAIN a : a[k] \in Pubs(c, Nat)
        /\ \A k \in DOMAIN b : b[k] \in Pubs(c, {0}) \cup Acks(c)
    BY <1>1
  <2>2. \A k \in DOMAIN f : f[k].id # 0
    BY DEF IdsUnique, ClientHolds
  <2> QED
    BY <2>1, <2>2 DEF Pubs, Acks
<1>3. /\ \A i, j \in DOMAIN f : f[i].id = f[j].id => i = j
      /\ \A i \in DOMAIN f : \A j \in DOMAIN a : f[i].id # a[j].id
      /\ \A i, j \in DOMAIN a : a[i].id # 0 /\ a[i].id = a[j].id => i = j
      /\ \A i \in DOMAIN f : f[i].id \in 1 .. lastId[c] /\ Qos1(f[i].item) /\ ~IsHealth(f[i].item)
      /\ \A i \in DOMAIN a : a[i].id # 0 =>
           a[i].id \in 1 .. lastId[c] /\ Qos1(a[i].item) /\ ~IsHealth(a[i].item)
  BY DEF IdsUnique, NotAgain
<1>4. all = m \o b
  OBVIOUS
<1> HIDE DEF S, f, a, b, m
<1>5. /\ m \in Seq(S) /\ Len(f) \in Nat
      /\ \A i \in DOMAIN f : i \in DOMAIN m /\ m[i] = f[i]
      /\ \A i \in DOMAIN a : Len(f) + i \in DOMAIN m /\ m[Len(f) + i] = a[i]
      /\ \A i \in DOMAIN m : \/ i \in DOMAIN f
                             \/ i \notin DOMAIN f /\ i - Len(f) \in DOMAIN a /\ m[i] = a[i - Len(f)]
  BY <1>1, ConcatAt DEF m
<1>6. /\ all \in Seq(S) /\ Len(m) \in Nat
      /\ \A i \in DOMAIN m : i \in DOMAIN all /\ all[i] = m[i]
      /\ \A i \in DOMAIN all : \/ i \in DOMAIN m
                               \/ i \notin DOMAIN m /\ i - Len(m) \in DOMAIN b /\ all[i] = b[i - Len(m)]
  BY <1>1, <1>4, <1>5, ConcatAt
<1>7. ASSUME NEW i \in DOMAIN all, all[i].do = "pub", all[i].id # 0
      PROVE  i \in DOMAIN m /\ all[i] = m[i] /\ i \in Nat
  <2>1. i \in DOMAIN m /\ all[i] = m[i]
    BY <1>2, <1>6, <1>7
  <2>2. i \in Nat
    BY <1>6
  <2> QED
    BY <2>1, <2>2
<1>8. ASSUME NEW i \in DOMAIN m, NEW j \in DOMAIN m, i \in Nat, j \in Nat,
             m[i].id # 0, m[i].id = m[j].id
      PROVE  i = j
  <2>1. CASE i \in DOMAIN f /\ j \in DOMAIN f
    BY <1>3, <1>5, <1>8, <2>1
  <2>2. CASE i \in DOMAIN f /\ j \notin DOMAIN f
    <3>1. PICK l \in DOMAIN a : m[j] = a[l]
      BY <1>5, <2>2
    <3> QED
      BY <1>3, <1>5, <1>8, <2>2, <3>1
  <2>3. CASE i \notin DOMAIN f /\ j \in DOMAIN f
    <3>1. PICK l \in DOMAIN a : m[i] = a[l]
      BY <1>5, <2>3
    <3>2. m[j] = f[j]
      BY <1>5, <2>3
    <3>3. f[j].id = a[l].id
      BY <1>8, <3>1, <3>2
    <3> QED
      BY <1>3, <2>3, <3>3
  <2>4. CASE i \notin DOMAIN f /\ j \notin DOMAIN f
    <3>1. PICK k \in DOMAIN a : k = i - Len(f) /\ m[i] = a[k]
      BY <1>5, <2>4
    <3>2. PICK l \in DOMAIN a : l = j - Len(f) /\ m[j] = a[l]
      BY <1>5, <2>4
    <3>3. k = l
      BY <1>3, <1>8, <3>1, <3>2
    <3> QED
      BY <1>5, <1>8, <3>1, <3>2, <3>3
  <2> QED
    BY <2>1, <2>2, <2>3, <2>4
<1>9. ASSUME NEW i \in DOMAIN all, all[i].do = "pub", all[i].id # 0
      PROVE  /\ all[i].id \in 1 .. lastId[c] /\ Qos1(all[i].item) /\ ~IsHealth(all[i].item)
             /\ \/ \E k \in DOMAIN f : all[i] = f[k]
                \/ \E k \in DOMAIN a : all[i] = a[k]
             /\ \A j \in DOMAIN all : all[j].do = "pub" /\ all[i].id = all[j].id => i = j
  <2>1. i \in DOMAIN m /\ all[i] = m[i] /\ i \in Nat
    BY <1>7, <1>9
  <2>2. ASSUME NEW j \in DOMAIN all, all[j].do = "pub", all[i].id = all[j].id PROVE i = j
    <3>1. j \in DOMAIN m /\ all[j] = m[j] /\ j \in Nat
      BY <1>7, <1>9, <2>2
    <3> QED
      BY <1>8, <1>9, <2>1, <2>2, <3>1
  <2>3. (\E k \in DOMAIN f : all[i] = f[k]) \/ (\E k \in DOMAIN a : all[i] = a[k])
    BY <1>5, <2>1
  <2>4. all[i].id \in 1 .. lastId[c] /\ Qos1(all[i].item) /\ ~IsHealth(all[i].item)
    BY <1>3, <1>9, <2>3
  <2> QED
    BY <2>2, <2>3, <2>4
<1>10. ASSUME NEW k \in DOMAIN f PROVE \E i \in DOMAIN all : all[i] = f[k] /\ all[i].do = "pub"
  <2>1. k \in DOMAIN m /\ m[k] = f[k]
    BY <1>5
  <2>2. k \in DOMAIN all /\ all[k] = f[k] /\ f[k].do = "pub"
    BY <1>2, <1>6, <2>1
  <2> QED
    BY <2>2
<1>11. ASSUME NEW k \in DOMAIN a PROVE \E i \in DOMAIN all : all[i] = a[k] /\ all[i].do = "pub"
  <2>1. PICK i \in DOMAIN m : m[i] = a[k]
    BY <1>5
  <2>2. i \in DOMAIN all /\ all[i] = a[k] /\ a[k].do = "pub"
    BY <1>2, <1>6, <2>1
  <2> QED
    BY <2>2
<1>12. NewItems(all) = NewItems(a \o b)
  <2>1. all = f \o (a \o b)
    BY <1>1, <1>4, ConcatAssociative DEF m
  <2>2. a \o b \in Seq(S)
    BY <1>1
  <2> DEFINE n == a \o b
  <2>3. n \in Seq(S)
    BY <2>2
  <2> HIDE DEF n
  <2>4. NewItems(f \o n) = NewItems(f) \o NewItems(n)
    BY <1>1, <2>3, NewItemsConcat
  <2>5. NewAt(f) = {}
    BY <1>2 DEF NewAt
  <2>6. NewItems(f) = <<>>
    BY <1>1, <2>5, NewItemsNone
  <2>7. NewItems(n) \in Seq(Onto(c))
    BY <2>3, NewOfRequests DEF S
  <2>8. <<>> \o NewItems(n) = NewItems(n)
    BY <2>7
  <2> QED
    BY <2>1, <2>4, <2>6, <2>8 DEF n
<1> QED
  BY <1>6, <1>9, <1>10, <1>11, <1>12 DEF Kept, S, f, a, b

LEMMA PollFailsInv ==
  ASSUME IndInv, NEW c \in Sides, PollFails(c)
  PROVE  IndInv'
<1> DEFINE all == flight[c] \o again[c] \o reqs[c]
           I == {i \in DOMAIN all : all[i].do = "pub"}
<1>1. /\ link[c] = "lost" /\ mode[c] = Polling /\ link' = [link EXCEPT ![c] = "down"]
      /\ again' = [again EXCEPT ![c] = Selected(all, I)]
      /\ flight' = [flight EXCEPT ![c] = <<>>] /\ reqs' = [reqs EXCEPT ![c] = <<>>]
      /\ UpdateHealth(c, "down") /\ chan' = chan /\ writer' = writer
      /\ wire' = wire /\ sent' = sent /\ owed' = owed /\ got' = got /\ acked' = acked
      /\ lastId' = lastId /\ paired' = paired /\ mode' = mode /\ echoes' = echoes
  BY DEF PollFails, halfVars
<1>2. DOMAIN queue' = Sides /\ \A d \in Sides : TaskStill(d) /\ TaskHolds(d)'
  BY <1>1, HealthQueued
<1>3. Holds(c) /\ IdsUnique(c) /\ IdsSent(c) /\ IdsPaired(c) /\ Aligned(c) /\ Shaped
  BY DEF IndInv, IdsInv
<1>4. all = flight[c] \o again[c] \o reqs[c] /\ I = {i \in DOMAIN all : all[i].do = "pub"}
  OBVIOUS
<1> HIDE DEF all, I
<1>5. Kept(c, all)
  <2>1. ClientHolds(c) /\ IdsUnique(c) /\ link[c] = "lost" /\ all = flight[c] \o again[c] \o reqs[c]
    BY <1>1, <1>3, <1>4 DEF Holds
  <2> QED
    BY <2>1, KeptUnique, Zenon
<1>6. Shaped' /\ Grows
  <2>1. DOMAIN link' = Sides /\ DOMAIN again' = Sides /\ DOMAIN flight' = Sides /\ DOMAIN reqs' = Sides
    BY <1>1, <1>3 DEF Shaped
  <2> QED
    BY <1>1, <1>2, <1>3, <2>1, SetsSame DEF Shaped
<1>7. ASSUME NEW d \in Sides, d # c PROVE NetStill(d) /\ ClientStill(d) /\ BridgeStill(d)
  <2>1. link'[d] = link[d] /\ again'[d] = again[d] /\ flight'[d] = flight[d] /\ reqs'[d] = reqs[d]
    BY <1>1, <1>3, <1>7 DEF Shaped
  <2> QED
    BY <1>1, <2>1 DEF NetStill, ClientStill, BridgeStill
<1>8. /\ link'[c] = "down" /\ again'[c] = Selected(all, I) /\ flight'[c] = <<>> /\ reqs'[c] = <<>>
      /\ wire'[c] = <<>> /\ sent'[c] = <<>>
  BY <1>1, <1>3 DEF Shaped, Holds, NetHolds
<1>9. I \in SUBSET DOMAIN all
  BY <1>4
<1>10. /\ again'[c] \in Seq(Pubs(c, Nat) \cup Acks(c))
       /\ \A k \in DOMAIN again'[c] : Positions(I)[k] \in I /\ again'[c][k] = all[Positions(I)[k]]
       /\ \A k, l \in DOMAIN again'[c] : Positions(I)[k] = Positions(I)[l] => k = l
       /\ \A i \in I : \E k \in DOMAIN again'[c] : again'[c][k] = all[i]
  BY <1>5, <1>8, <1>9, SelectedAt DEF Kept
<1>11. ASSUME NEW k \in DOMAIN again'[c]
       PROVE  \E i \in DOMAIN all : i = Positions(I)[k] /\ again'[c][k] = all[i] /\ all[i].do = "pub"
  <2>1. Positions(I)[k] \in I /\ again'[c][k] = all[Positions(I)[k]]
    BY <1>10
  <2> QED
    BY <1>4, <2>1
<1>12. again'[c] \in Seq(Pubs(c, Nat))
  <2>1. \A k \in DOMAIN again'[c] : again'[c][k] \in Pubs(c, Nat) \cup Acks(c)
    BY <1>10
  <2>2. \A r \in Pubs(c, Nat) \cup Acks(c) : r.do = "pub" => r \in Pubs(c, Nat)
    BY DEF Acks
  <2>3. \A k \in DOMAIN again'[c] : again'[c][k] \in Pubs(c, Nat)
    BY <1>11, <2>1, <2>2
  <2> DEFINE s == again'[c]
             n == Len(s)
  <2>4. n \in Nat /\ s \in [1 .. n -> Pubs(c, Nat)]
    <3>1. n \in Nat /\ DOMAIN s = 1 .. n /\ s \in [1 .. n -> Pubs(c, Nat) \cup Acks(c)]
      BY <1>10, LenProperties
    <3> HIDE DEF s, n
    <3> QED
      BY <2>3, <3>1 DEF s
  <2> HIDE DEF s, n
  <2>5. s \in Seq(Pubs(c, Nat))
    BY <2>4, SeqDef
  <2> QED
    BY <2>5 DEF s
<1>13. NetHolds(c)'
  <2>1. From(c)' = From(c) /\ Settled(c)' = Settled(c)
    BY <1>1, SetsSame
  <2>2. wire'[c] \in Seq(Received(c)') /\ sent'[c] \in Seq(Pubs(c, Nat)' \cup Acks(c)')
    BY <1>8
  <2> QED
    BY <1>1, <1>3, <1>8, <2>1, <2>2 DEF Holds, NetHolds
<1>14. ClientHolds(c)'
  <2>1. Pubs(c, Nat)' = Pubs(c, Nat)
    BY <1>1, SetsSame
  <2>2. reqs'[c] \in Seq(Pubs(c, {0})' \cup Acks(c)') /\ flight'[c] \in Seq(Pubs(c, Nat)')
    BY <1>8
  <2> QED
    BY <1>1, <1>3, <1>12, <2>1, <2>2 DEF Holds, ClientHolds
<1>15. BridgeHolds(c)'
  BY <1>1, <1>3, <1>6, BridgeSame DEF Holds, BridgeStill
<1>16. IdsUnique(c)'
  <2>1. ASSUME NEW k \in DOMAIN again'[c], again'[c][k].id # 0
        PROVE  /\ again'[c][k].id \in 1 .. lastId[c]
               /\ Qos1(again'[c][k].item) /\ ~IsHealth(again'[c][k].item)
               /\ \A l \in DOMAIN again'[c] : again'[c][k].id = again'[c][l].id => k = l
    <3>1. PICK i \in DOMAIN all : i = Positions(I)[k] /\ again'[c][k] = all[i] /\ all[i].do = "pub"
      BY <1>11
    <3>2. ASSUME NEW l \in DOMAIN again'[c], again'[c][k].id = again'[c][l].id PROVE k = l
      <4>1. PICK j \in DOMAIN all : j = Positions(I)[l] /\ again'[c][l] = all[j] /\ all[j].do = "pub"
        BY <1>11
      <4>2. i = j
        BY <1>5, <2>1, <3>1, <3>2, <4>1 DEF Kept
      <4> QED
        BY <1>10, <3>1, <4>1, <4>2
    <3> QED
      BY <1>5, <2>1, <3>1, <3>2 DEF Kept
  <2> QED
    BY <1>1, <1>8, <2>1 DEF IdsUnique
<1>17. IdsSent(c)'
  BY <1>8 DEF IdsSent
<1>18. IdsPaired(c)'
  <2>1. \A q : Known(c, q) => Known(c, q)'
    BY <1>1 DEF Known
  <2>2. ASSUME NEW k \in DOMAIN again'[c] PROVE \A q : q = again'[c][k] => Known(c, q)'
    <3>1. PICK i \in DOMAIN all : again'[c][k] = all[i] /\ all[i].do = "pub"
      BY <1>11
    <3>2. CASE all[i].id = 0
      BY <3>1, <3>2 DEF Known
    <3>3. CASE all[i].id # 0
      <4>1. \/ \E j \in DOMAIN flight[c] : all[i] = flight[c][j]
            \/ \E j \in DOMAIN again[c] : all[i] = again[c][j]
        BY <1>5, <3>1, <3>3 DEF Kept
      <4>2. Known(c, all[i])
        BY <1>3, <4>1 DEF IdsPaired
      <4> QED
        BY <2>1, <3>1, <4>2
    <3> QED
      BY <3>2, <3>3
  <2>3. ASSUME NEW n \in DOMAIN paired[c]
        PROVE  \E k \in DOMAIN again'[c] : again'[c][k].id = n /\ again'[c][k].item = paired[c][n]
    <3>1. PICK i \in DOMAIN all : all[i].id = n /\ all[i].item = paired[c][n] /\ all[i].do = "pub"
      <4>1. CASE \E j \in DOMAIN flight[c] : flight[c][j].id = n /\ flight[c][j].item = paired[c][n]
        BY <1>5, <4>1 DEF Kept
      <4>2. CASE \E j \in DOMAIN again[c] : again[c][j].id = n /\ again[c][j].item = paired[c][n]
        BY <1>5, <4>2 DEF Kept
      <4> QED
        BY <1>3, <4>1, <4>2 DEF IdsPaired
    <3>2. i \in I
      BY <1>4, <3>1
    <3>3. \E k \in DOMAIN again'[c] : again'[c][k] = all[i]
      BY <1>10, <3>2
    <3> QED
      BY <3>1, <3>3
  <2> QED
    BY <1>1, <1>8, <2>2, <2>3 DEF IdsPaired
<1>19. Aligned(c)'
  <2>1. NewItems(Selected(all, I)) = NewItems(all)
    <3>1. all \in Seq(Pubs(c, Nat) \cup Acks(c)) /\ I = {i \in DOMAIN all : all[i].do = "pub"}
      BY <1>4, <1>5 DEF Kept
    <3> QED
      BY <3>1, NewItemsOfPubs, Zenon
  <2>2. again'[c] \o reqs'[c] = again'[c]
    <3>1. \A q \in Seq(Pubs(c, Nat)) : q \o <<>> = q
      OBVIOUS
    <3> QED
      BY <1>8, <1>12, <3>1
  <2>3. NewItems(again'[c] \o reqs'[c]) = NewItems(again[c] \o reqs[c])
    BY <1>5, <1>8, <2>1, <2>2 DEF Kept
  <2>4. Coming(c)' = Coming(c) /\ mode[c].do # "pair"
    BY <1>1, <2>3 DEF Coming, Trail, Polling
  <2> QED
    BY <1>1, <1>3, <2>4 DEF Aligned
<1>20. Holds(c)' /\ IdsInv(c)'
  BY <1>2, <1>13, <1>14, <1>15, <1>16, <1>17, <1>18, <1>19 DEF Holds, IdsInv
<1> QED
  BY <1>2, <1>6, <1>7, <1>20, OneSide

\* A step that changes nothing.
LEMMA StutterInv ==
  ASSUME IndInv, UNCHANGED vars
  PROVE  IndInv'
<1>1. UNCHANGED netVars /\ UNCHANGED clientVars /\ UNCHANGED halfVars /\ UNCHANGED taskVars
  BY DEF vars
<1>2. got' = got /\ "local" \in Sides
  BY <1>1 DEF netVars, Sides
<1>3. \A d \in Sides : /\ NetStill(d) /\ ClientStill(d) /\ BridgeStill(d) /\ TaskStill(d)
                       /\ queue'[d] = queue[d]
  BY <1>1 DEF NetStill, ClientStill, BridgeStill, TaskStill, netVars, clientVars, halfVars, taskVars
<1>4. Grows
  BY <1>2, SetsSame
<1>5. Shaped'
  BY <1>1 DEF IndInv, Shaped, netVars, clientVars, halfVars, taskVars
<1>6. \A d \in Sides : Holds(d)' /\ IdsInv(d)'
  BY <1>3, <1>4, TaskSame, SideStill DEF IndInv, Holds
<1> QED
  BY <1>5, <1>6 DEF IndInv

------------------------------------------------------------------------------
(* The theorems. The packet id of a message about the health of the bridge is    *)
(* paired with nothing: sent a second time, it takes the message announced for  *)
(* the next publication. Hence their hypothesis.                                *)

LEMMA InvNext ==
  ASSUME ~HealthRepeats, IndInv, [Next]_vars
  PROVE  IndInv'
<1>1. CASE \E m \in Msgs : SourcePublishes(m)
  BY <1>1, SourcePublishesInv
<1>2. CASE \E c \in Sides : Disconnect(c) \/ ConnectFails(c)
  BY <1>2, DisconnectInv, ConnectFailsInv
<1>3. CASE Steps
  <2>1. PICK c \in Sides :
          \/ BrokerReceives(c) \/ Publisher(c) \/ PublisherPublishes(c)
          \/ SendRequest(c) \/ TakePairing(c) \/ PollPublish(c) \/ AckReceived(c) \/ PollAck(c)
          \/ CleanOldMessages(c) \/ PollFails(c) \/ Connect(c)
    BY <1>3 DEF Steps
  <2>2. CASE BrokerReceives(c) \/ Publisher(c) \/ PublisherPublishes(c)
    BY <2>2, BrokerReceivesInv, PublisherInv, PublisherPublishesInv
  <2>3. CASE SendRequest(c) \/ TakePairing(c) \/ PollPublish(c) \/ AckReceived(c)
    BY <2>3, SendRequestInv, TakePairingInv, PollPublishInv, AckReceivedInv
  <2>4. CASE PollAck(c) \/ CleanOldMessages(c) \/ PollFails(c) \/ Connect(c)
    BY <2>4, PollAckInv, CleanOldMessagesInv, PollFailsInv, ConnectInv
  <2> QED
    BY <2>1, <2>2, <2>3, <2>4
<1>4. CASE UNCHANGED vars
  BY <1>4, StutterInv
<1> QED
  BY <1>1, <1>2, <1>3, <1>4 DEF Next

LEMMA Invariant ==
  ASSUME ~HealthRepeats
  PROVE  Spec => []IndInv
<1>1. Init => IndInv
  BY InvInit
<1>2. IndInv /\ [Next]_vars => IndInv'
  BY InvNext
<1> QED
  BY <1>1, <1>2, PTL DEF Spec

\* A message is acknowledged to the broker it comes from only once the broker it goes
\* to has received it (half_bridge), for any messages, rules, sessions of the brokers,
\* sizes of the channels and lost connections.
THEOREM MessagesDelivered ==
  ASSUME ~HealthRepeats
  PROVE  Spec => []AckedIsDelivered
<1>1. IndInv => AckedIsDelivered
  <2> SUFFICES ASSUME IndInv PROVE AckedIsDelivered
    OBVIOUS
  <2>1. \A c \in Sides : acked[c] \subseteq Settled(c)
    BY DEF IndInv, Holds, NetHolds
  <2> QED
    BY <2>1 DEF AckedIsDelivered, Settled
<1> QED
  BY <1>1, Invariant, PTL

\* The message a half bridge has paired with a packet id is the one its client has
\* published under it, or is to publish again (the recv of half_bridge awaiting the
\* message of the last outgoing packet id).
THEOREM MessagesPaired ==
  ASSUME ~HealthRepeats
  PROVE  Spec => []PairingCorrect
<1>1. IndInv => PairingCorrect
  <2> SUFFICES ASSUME IndInv, NEW c \in Sides, NEW id \in DOMAIN paired[c]
               PROVE  \E q \in {flight[c], again[c]} : \E i \in DOMAIN q :
                        q[i].do = "pub" /\ q[i].id = id /\ q[i].item = paired[c][id]
    BY DEF PairingCorrect
  <2>1. flight[c] \in Seq(Pubs(c, Nat)) /\ again[c] \in Seq(Pubs(c, Nat)) /\ IdsPaired(c)
    BY DEF IndInv, Holds, ClientHolds, IdsInv
  <2>2. /\ \A i \in DOMAIN flight[c] : flight[c][i] \in Pubs(c, Nat)
        /\ \A i \in DOMAIN again[c] : again[c][i] \in Pubs(c, Nat)
    BY <2>1
  <2>3. /\ \A i \in DOMAIN flight[c] : flight[c][i].do = "pub"
        /\ \A i \in DOMAIN again[c] : again[c][i].do = "pub"
    BY <2>2 DEF Pubs
  <2> QED
    BY <2>1, <2>3 DEF IdsPaired
<1> QED
  BY <1>1, Invariant, PTL

------------------------------------------------------------------------------
(* The status of the bridge on its way to the local broker: the publisher, the *)
(* client and the network hold the messages about it in the order in which     *)
(* the monitor has sent them, the last one telling the overall status.         *)

Silent(q) == \A i \in DOMAIN q : ~IsHealth(q[i].item)

\* The last message about the health of the bridge tells this status.
Tells(q, s) ==
  \E i \in DOMAIN q : /\ q[i].item = Health(s)
                      /\ \A j \in DOMAIN q : i < j => ~IsHealth(q[j].item)

Displayed(s) ==
  \/ Tells(sent["local"], s)
  \/ Silent(sent["local"]) /\ (shown = s \/ link["local"] = "lost")
Sending(s) ==
  \/ Tells(reqs["local"], s)
  \/ Silent(reqs["local"]) /\ (Tells(again["local"], s) \/ (Silent(again["local"]) /\ Displayed(s)))
Unsaid == writer["local"] = None \/ ~IsHealth(writer["local"])
Told(s) ==
  \/ Tells(queue["local"], s)
  \/ Silent(queue["local"]) /\ (writer["local"] = Health(s) \/ (Unsaid /\ Sending(s)))

\* What the monitor knows, and the last will of the bridge.
StatusInv ==
  /\ status \in [Sides -> {"up", "down", None}]
  /\ overall = OverallStatus(status)
  /\ link \in [Sides -> {"up", "lost", "down"}]
  /\ \A c \in Sides : link[c] # "down" => status[c] = "up"
  /\ link["local"] # "up" => shown = "down"

LatestTold == overall # None => Told(overall)

HealthInv == StatusInv /\ LatestTold

------------------------------------------------------------------------------

LEMMA HealthIsHealth ==
  \A s : IsHealth(Health(s)) /\ \A t : Health(s) = Health(t) => s = t
  BY DEF IsHealth, Health

LEMMA TellsNothing ==
  Silent(<<>>) /\ \A s : ~Tells(<<>>, s)
  BY DEF Silent, Tells

LEMMA TellsTail ==
  ASSUME NEW S, NEW q \in Seq(S), q # <<>>
  PROVE  /\ Silent(q) => Silent(Tail(q)) /\ ~IsHealth(Head(q).item)
         /\ \A s : Tells(q, s) =>
              Tells(Tail(q), s) \/ (Silent(Tail(q)) /\ Head(q).item = Health(s))
<1>1. /\ Len(q) \in Nat /\ Head(q) = q[1] /\ 1 \in DOMAIN q /\ DOMAIN q = 1 .. Len(q)
      /\ DOMAIN Tail(q) = 1 .. Len(q) - 1
      /\ \A i \in DOMAIN Tail(q) : i + 1 \in DOMAIN q /\ i + 1 # 1 /\ Tail(q)[i] = q[i + 1]
  OBVIOUS
<1>2. Silent(q) => Silent(Tail(q)) /\ ~IsHealth(Head(q).item)
  BY <1>1 DEF Silent
<1>3. ASSUME NEW s, Tells(q, s)
      PROVE  Tells(Tail(q), s) \/ (Silent(Tail(q)) /\ Head(q).item = Health(s))
  <2>1. PICK i \in DOMAIN q : /\ q[i].item = Health(s)
                              /\ \A j \in DOMAIN q : i < j => ~IsHealth(q[j].item)
    BY <1>3 DEF Tells
  <2>2. CASE i = 1
    <3>1. \A j \in DOMAIN Tail(q) : ~IsHealth(Tail(q)[j].item)
      <4> SUFFICES ASSUME NEW j \in DOMAIN Tail(q) PROVE ~IsHealth(Tail(q)[j].item)
        OBVIOUS
      <4>1. j + 1 \in DOMAIN q /\ i < j + 1 /\ Tail(q)[j] = q[j + 1]
        BY <1>1, <2>2
      <4> QED
        BY <2>1, <4>1
    <3> QED
      BY <1>1, <2>1, <2>2, <3>1 DEF Silent
  <2>3. CASE i # 1
    <3>1. i - 1 \in DOMAIN Tail(q) /\ Tail(q)[i - 1] = q[i]
      BY <1>1, <2>3
    <3>2. \A j \in DOMAIN Tail(q) : i - 1 < j => ~IsHealth(Tail(q)[j].item)
      <4> SUFFICES ASSUME NEW j \in DOMAIN Tail(q), i - 1 < j PROVE ~IsHealth(Tail(q)[j].item)
        OBVIOUS
      <4>1. j + 1 \in DOMAIN q /\ i < j + 1 /\ Tail(q)[j] = q[j + 1]
        BY <1>1
      <4> QED
        BY <2>1, <4>1
    <3> QED
      BY <2>1, <3>1, <3>2 DEF Tells
  <2> QED
    BY <2>2, <2>3
<1> QED
  BY <1>2, <1>3

LEMMA TellsAppend ==
  ASSUME NEW S, NEW q \in Seq(S), NEW x
  PROVE  /\ \A s : x.item = Health(s) => Tells(Append(q, x), s)
         /\ ~IsHealth(x.item) =>
              /\ Silent(q) => Silent(Append(q, x))
              /\ \A s : Tells(q, s) => Tells(Append(q, x), s)
<1> DEFINE r == Append(q, x)
<1>1. /\ Len(q) \in Nat /\ DOMAIN q = 1 .. Len(q) /\ DOMAIN r = 1 .. Len(q) + 1
      /\ r[Len(q) + 1] = x /\ \A i \in DOMAIN q : i \in DOMAIN r /\ r[i] = q[i]
  <2> DEFINE T == S \cup {x}
  <2>1. S \subseteq T /\ x \in T
    OBVIOUS
  <2> HIDE DEF T
  <2>2. q \in Seq(T)
    BY <2>1, SeqMonotonic
  <2> QED
    BY <2>1, <2>2
<1> HIDE DEF r
<1>2. \A i \in DOMAIN r : i \in DOMAIN q \/ i = Len(q) + 1
  BY <1>1
<1>3. ASSUME NEW s, x.item = Health(s) PROVE Tells(r, s)
  <2>1. Len(q) + 1 \in DOMAIN r /\ \A j \in DOMAIN r : ~(Len(q) + 1 < j)
    BY <1>1
  <2> QED
    BY <1>1, <1>3, <2>1 DEF Tells
<1>4. ASSUME ~IsHealth(x.item), Silent(q) PROVE Silent(r)
  BY <1>1, <1>2, <1>4 DEF Silent
<1>5. ASSUME ~IsHealth(x.item), NEW s, Tells(q, s) PROVE Tells(r, s)
  <2>1. PICK i \in DOMAIN q : /\ q[i].item = Health(s)
                              /\ \A j \in DOMAIN q : i < j => ~IsHealth(q[j].item)
    BY <1>5 DEF Tells
  <2>2. \A j \in DOMAIN r : i < j => ~IsHealth(r[j].item)
    BY <1>1, <1>2, <1>5, <2>1
  <2> QED
    BY <1>1, <2>1, <2>2 DEF Tells
<1> QED
  BY <1>3, <1>4, <1>5 DEF r

LEMMA TellsConcat ==
  ASSUME NEW S, NEW q \in Seq(S), NEW r \in Seq(S)
  PROVE  /\ Silent(q) /\ Silent(r) => Silent(q \o r)
         /\ \A s : Tells(r, s) => Tells(q \o r, s)
         /\ \A s : Tells(q, s) /\ Silent(r) => Tells(q \o r, s)
<1> DEFINE t == q \o r
<1>1. /\ Len(q) \in Nat /\ Len(r) \in Nat /\ DOMAIN q = 1 .. Len(q) /\ DOMAIN r = 1 .. Len(r)
      /\ DOMAIN t = 1 .. Len(q) + Len(r)
      /\ \A i \in DOMAIN q : i \in DOMAIN t /\ t[i] = q[i]
      /\ \A i \in DOMAIN r : Len(q) + i \in DOMAIN t /\ t[Len(q) + i] = r[i]
      /\ \A i \in DOMAIN t : i \in DOMAIN q \/ (i > Len(q) /\ i - Len(q) \in DOMAIN r /\ t[i] = r[i - Len(q)])
  OBVIOUS
<1> HIDE DEF t
<1>2. ASSUME Silent(q), Silent(r) PROVE Silent(t)
  BY <1>1, <1>2 DEF Silent
<1>3. ASSUME NEW s, Tells(r, s) PROVE Tells(t, s)
  <2>1. PICK i \in DOMAIN r : /\ r[i].item = Health(s)
                              /\ \A j \in DOMAIN r : i < j => ~IsHealth(r[j].item)
    BY <1>3 DEF Tells
  <2>2. Len(q) + i \in DOMAIN t /\ t[Len(q) + i].item = Health(s)
    BY <1>1, <2>1
  <2>3. ASSUME NEW j \in DOMAIN t, Len(q) + i < j PROVE ~IsHealth(t[j].item)
    <3>1. j - Len(q) \in DOMAIN r /\ t[j] = r[j - Len(q)] /\ i < j - Len(q)
      BY <1>1, <2>3
    <3> QED
      BY <2>1, <3>1
  <2> QED
    BY <2>2, <2>3 DEF Tells
<1>4. ASSUME NEW s, Tells(q, s), Silent(r) PROVE Tells(t, s)
  <2>1. PICK i \in DOMAIN q : /\ q[i].item = Health(s)
                              /\ \A j \in DOMAIN q : i < j => ~IsHealth(q[j].item)
    BY <1>4 DEF Tells
  <2>2. \A j \in DOMAIN t : i < j => ~IsHealth(t[j].item)
    BY <1>1, <1>4, <2>1 DEF Silent
  <2> QED
    BY <1>1, <2>1, <2>2 DEF Tells
<1> QED
  BY <1>2, <1>3, <1>4 DEF t

\* Nothing is lost of the messages about the health by a selection holding them.
LEMMA TellsSelected ==
  ASSUME NEW S, NEW q \in Seq(S), NEW I \in SUBSET DOMAIN q,
         \A i \in DOMAIN q : IsHealth(q[i].item) => i \in I
  PROVE  /\ Silent(q) => Silent(Selected(q, I))
         /\ \A s : Tells(q, s) => Tells(Selected(q, I), s)
<1> DEFINE t == Selected(q, I)
           n == Cardinality(I)
<1>1. /\ n \in Nat /\ DOMAIN t = 1 .. n
      /\ \A k \in 1 .. n : Positions(I)[k] \in I /\ t[k] = q[Positions(I)[k]]
      /\ \A k, l \in 1 .. n : k < l => Positions(I)[k] < Positions(I)[l]
      /\ \A i \in I : \E k \in 1 .. n : Positions(I)[k] = i
  BY SelectedProperties
<1> HIDE DEF t, n
<1>2. ASSUME Silent(q) PROVE Silent(t)
  BY <1>1, <1>2 DEF Silent
<1>3. ASSUME NEW s, Tells(q, s) PROVE Tells(t, s)
  <2>1. PICK i \in DOMAIN q : /\ q[i].item = Health(s)
                              /\ \A j \in DOMAIN q : i < j => ~IsHealth(q[j].item)
    BY <1>3 DEF Tells
  <2>2. i \in I
    BY <2>1, HealthIsHealth
  <2>3. PICK k \in 1 .. n : Positions(I)[k] = i
    BY <1>1, <2>2
  <2>4. ASSUME NEW l \in DOMAIN t, k < l PROVE ~IsHealth(t[l].item)
    <3>1. Positions(I)[l] \in DOMAIN q /\ i < Positions(I)[l] /\ t[l] = q[Positions(I)[l]]
      BY <1>1, <2>3, <2>4
    <3> QED
      BY <2>1, <3>1
  <2> QED
    BY <1>1, <2>1, <2>3, <2>4 DEF Tells
<1> QED
  BY <1>2, <1>3 DEF t


\* What is not about the health of the bridge.
LEMMA OthersSilent ==
  ASSUME NEW c \in Sides
  PROVE  /\ \A x \in From(c) : ~IsHealth(x)
         /\ \A r \in Acks(c) : r.do = "ack" /\ ~IsHealth(r.item)
<1>1. \A x \in From(c) : ~IsHealth(x)
  BY BridgeAssumption DEF From, Insts, IsHealth
<1> QED
  BY <1>1 DEF Acks, Settled

\* The requests on their way to the local broker.
LocalReqs == Pubs("local", Nat) \cup Acks("local")

LEMMA LocalQueues ==
  ASSUME IndInv
  PROVE  /\ "local" \in Sides /\ "cloud" \in Sides /\ Shaped
         /\ \A q \in {queue["local"], reqs["local"], again["local"], flight["local"], sent["local"]} :
              q \in Seq(LocalReqs)
         /\ \A r \in LocalReqs : r.do # "pub" => ~IsHealth(r.item)
<1>1. "local" \in Sides /\ "cloud" \in Sides
  BY DEF Sides
<1>2. Shaped /\ Holds("local")
  BY <1>1 DEF IndInv
<1>3. /\ Pubs("local", {0}) \cup Acks("local") \subseteq LocalReqs
      /\ Pubs("local", Nat) \subseteq LocalReqs
  BY DEF Pubs, LocalReqs
<1>4. \A r \in LocalReqs : r.do # "pub" => ~IsHealth(r.item)
  BY <1>1, OthersSilent DEF LocalReqs, Pubs
<1>5. /\ queue["local"] \in Seq(Pubs("local", {0}) \cup Acks("local"))
      /\ reqs["local"] \in Seq(Pubs("local", {0}) \cup Acks("local"))
      /\ again["local"] \in Seq(Pubs("local", Nat)) /\ flight["local"] \in Seq(Pubs("local", Nat))
      /\ sent["local"] \in Seq(LocalReqs)
  BY <1>2 DEF Holds, TaskHolds, ClientHolds, NetHolds, LocalReqs
<1>6. /\ \A q \in Seq(Pubs("local", {0}) \cup Acks("local")) : q \in Seq(LocalReqs)
      /\ \A q \in Seq(Pubs("local", Nat)) : q \in Seq(LocalReqs)
  BY <1>3, SeqMonotonic
<1> QED
  BY <1>1, <1>2, <1>4, <1>5, <1>6

\* A step the messages about the health have no part in.
LEMMA PipeSame ==
  ASSUME LatestTold, overall' = overall, queue'["local"] = queue["local"],
         writer'["local"] = writer["local"], reqs'["local"] = reqs["local"],
         again'["local"] = again["local"], sent'["local"] = sent["local"], shown' = shown,
         link["local"] = "lost" => link'["local"] = "lost"
  PROVE  LatestTold'
  BY DEF LatestTold, Told, Unsaid, Sending, Displayed

LEMMA StatusSame ==
  ASSUME StatusInv, UNCHANGED healthVars, link' = link, shown' = shown
  PROVE  StatusInv'
  BY DEF StatusInv, healthVars, OverallStatus

LEMMA StatusInit == Init => HealthInv
<1> SUFFICES ASSUME Init PROVE HealthInv
  OBVIOUS
<1>1. "local" \in Sides /\ "cloud" \in Sides
  BY DEF Sides
<1> QED
  BY <1>1 DEF Init, HealthInv, StatusInv, LatestTold, OverallStatus

LEMMA SourcePublishesTold ==
  ASSUME IndInv, HealthInv, NEW m \in Msgs, SourcePublishes(m)
  PROVE  HealthInv'
<1>1. /\ link' = link /\ sent' = sent /\ shown' = shown /\ reqs' = reqs /\ again' = again
      /\ queue' = queue /\ writer' = writer /\ UNCHANGED healthVars
  BY DEF SourcePublishes, clientVars, taskVars
<1> QED
  BY <1>1, StatusSame, PipeSame DEF HealthInv, healthVars

LEMMA DisconnectTold ==
  ASSUME IndInv, HealthInv, NEW c \in Sides, Disconnect(c)
  PROVE  HealthInv'
<1>1. /\ link[c] = "up" /\ link' = [link EXCEPT ![c] = "lost"] /\ sent' = [sent EXCEPT ![c] = <<>>]
      /\ shown' = (IF c = "local" THEN "down" ELSE shown)
      /\ reqs' = reqs /\ again' = again /\ queue' = queue /\ writer' = writer
      /\ status' = status /\ overall' = overall
  BY DEF Disconnect, clientVars, taskVars, healthVars
<1>2. "local" \in Sides /\ Shaped
  BY LocalQueues
<1>3. StatusInv'
  <2>1. OverallStatus(status)' = OverallStatus(status)
    BY <1>1 DEF OverallStatus
  <2> QED
    BY <1>1, <1>2, <2>1 DEF HealthInv, StatusInv
<1>4. CASE c = "local"
  <2>1. sent'["local"] = <<>> /\ link'["local"] = "lost"
    BY <1>1, <1>2, <1>4 DEF Shaped
  <2>2. \A s : Displayed(s)'
    BY <2>1, TellsNothing DEF Displayed
  <2>3. LatestTold'
    BY <1>1, <2>2 DEF HealthInv, LatestTold, Told, Unsaid, Sending
  <2> QED
    BY <1>3, <2>3 DEF HealthInv
<1>5. CASE c # "local"
  <2>1. sent'["local"] = sent["local"] /\ link'["local"] = link["local"]
    BY <1>1, <1>2, <1>5 DEF Shaped
  <2> QED
    BY <1>1, <1>3, <1>5, <2>1, PipeSame DEF HealthInv
<1> QED
  BY <1>4, <1>5

LEMMA BrokerReceivesTold ==
  ASSUME IndInv, HealthInv, NEW c \in Sides, BrokerReceives(c)
  PROVE  HealthInv'
<1> DEFINE p == Head(sent[c])
<1>1. /\ sent[c] # <<>> /\ sent' = [sent EXCEPT ![c] = Tail(@)]
      /\ \/ p.do = "pub" /\ shown' = (IF IsHealth(p.item) THEN p.item.status ELSE shown)
         \/ p.do = "ack" /\ shown' = shown
      /\ link' = link /\ reqs' = reqs /\ again' = again /\ queue' = queue /\ writer' = writer
      /\ UNCHANGED healthVars
  BY DEF BrokerReceives, clientVars, taskVars, Pop
<1>2. "local" \in Sides /\ Shaped /\ Holds(c)
  BY LocalQueues DEF IndInv
<1>3. CASE c # "local"
  <2>1. sent[c] \in Seq(Pubs(c, Nat) \cup Acks(c)) /\ Onto(c) = From(Other(c)) /\ Other(c) \in Sides
    BY <1>2, <1>3, SidesFacts DEF Holds, NetHolds, Onto
  <2>2. p \in Pubs(c, Nat) \cup Acks(c)
    <3> DEFINE S == Pubs(c, Nat) \cup Acks(c)
    <3> HIDE DEF S
    <3>1. sent[c] \in Seq(S)
      BY <2>1 DEF S
    <3>2. p \in S
      BY <1>1, <3>1
    <3> QED
      BY <3>2 DEF S
  <2>3. ~IsHealth(p.item)
    BY <2>1, <2>2, OthersSilent DEF Pubs
  <2>4. shown' = shown /\ sent'["local"] = sent["local"]
    BY <1>1, <1>2, <1>3, <2>3 DEF Shaped
  <2> QED
    BY <1>1, <2>4, StatusSame, PipeSame DEF HealthInv, healthVars
<1>4. CASE c = "local"
  <2>1. /\ sent["local"] \in Seq(LocalReqs) /\ p \in LocalReqs
        /\ p.do # "pub" => ~IsHealth(p.item)
    <3>1. sent["local"] \in Seq(LocalReqs) /\ \A r \in LocalReqs : r.do # "pub" => ~IsHealth(r.item)
      BY LocalQueues
    <3> QED
      BY <1>1, <1>4, <3>1
  <2>2. sent'["local"] = Tail(sent["local"]) /\ link["local"] = "up"
    BY <1>1, <1>2, <1>4 DEF Shaped, Holds, NetHolds
  <2>3. IF IsHealth(p.item) THEN shown' = p.item.status ELSE shown' = shown
    BY <1>1, <2>1
  <2>4. ASSUME NEW s, Displayed(s) PROVE Displayed(s)'
    <3>1. CASE Tells(sent["local"], s)
      <4>1. Tells(Tail(sent["local"]), s) \/ (Silent(Tail(sent["local"])) /\ p.item = Health(s))
        BY <1>1, <1>4, <2>1, <3>1, TellsTail
      <4>2. p.item = Health(s) => shown' = s
        BY <2>3, HealthIsHealth DEF Health
      <4> QED
        BY <2>2, <4>1, <4>2 DEF Displayed
    <3>2. CASE Silent(sent["local"]) /\ (shown = s \/ link["local"] = "lost")
      <4>1. Silent(Tail(sent["local"])) /\ ~IsHealth(p.item)
        BY <1>1, <1>4, <2>1, <3>2, TellsTail
      <4> QED
        BY <2>2, <2>3, <3>2, <4>1 DEF Displayed
    <3> QED
      BY <2>4, <3>1, <3>2 DEF Displayed
  <2>5. LatestTold'
    BY <1>1, <2>4 DEF HealthInv, LatestTold, Told, Unsaid, Sending, healthVars
  <2>6. StatusInv'
    BY <1>1, <2>2 DEF HealthInv, StatusInv, OverallStatus, healthVars
  <2> QED
    BY <2>5, <2>6 DEF HealthInv
<1> QED
  BY <1>3, <1>4


LEMMA PublisherTold ==
  ASSUME IndInv, HealthInv, NEW c \in Sides, Publisher(c)
  PROVE  HealthInv'
<1> DEFINE q == Head(queue[c])
           Takes == q.do = "pub" /\ writer' = [writer EXCEPT ![c] = q.item] /\ reqs' = reqs
           Acknowledges == q.do = "ack" /\ reqs' = [reqs EXCEPT ![c] = Append(@, q)] /\ writer' = writer
<1>1. /\ queue[c] # <<>> /\ writer[c] = None /\ queue' = [queue EXCEPT ![c] = Tail(@)]
      /\ Takes \/ Acknowledges
      /\ link' = link /\ shown' = shown /\ sent' = sent /\ again' = again /\ UNCHANGED healthVars
  BY DEF Publisher, netVars, Pop, Push
<1>2. "local" \in Sides /\ Shaped
  BY LocalQueues
<1>3. StatusInv'
  BY <1>1, StatusSame DEF HealthInv
<1>4. CASE c # "local"
  <2>1. queue'["local"] = queue["local"] /\ writer'["local"] = writer["local"]
        /\ reqs'["local"] = reqs["local"]
    BY <1>1, <1>2, <1>4 DEF Shaped
  <2> QED
    BY <1>1, <1>3, <2>1, PipeSame DEF HealthInv, healthVars
<1>5. CASE c = "local"
  <2>1. /\ queue["local"] \in Seq(LocalReqs) /\ reqs["local"] \in Seq(LocalReqs)
        /\ q \in LocalReqs /\ (q.do # "pub" => ~IsHealth(q.item))
    <3>1. /\ queue["local"] \in Seq(LocalReqs) /\ reqs["local"] \in Seq(LocalReqs)
          /\ \A r \in LocalReqs : r.do # "pub" => ~IsHealth(r.item)
      BY LocalQueues
    <3> QED
      BY <1>1, <1>5, <3>1
  <2>2. queue'["local"] = Tail(queue["local"])
    BY <1>1, <1>2, <1>5 DEF Shaped
  <2>3. /\ Silent(queue["local"]) => Silent(Tail(queue["local"])) /\ ~IsHealth(q.item)
        /\ \A s : Tells(queue["local"], s) =>
             Tells(Tail(queue["local"]), s) \/ (Silent(Tail(queue["local"])) /\ q.item = Health(s))
    BY <1>1, <1>5, <2>1, TellsTail
  <2>4. /\ overall \in {"up", "down", None}
        /\ \A s \in {"up", "down", None} : writer["local"] # Health(s)
    <3>1. overall \in {"up", "down", None}
      BY DEF HealthInv, StatusInv, OverallStatus
    <3> QED
      BY <1>1, <1>5, <3>1, BridgeAssumption DEF Health
  <2> HIDE DEF q
  <2>5. CASE Takes
    <3>1. writer'["local"] = q.item /\ reqs'["local"] = reqs["local"]
      BY <1>2, <1>5, <2>5 DEF Shaped
    <3>2. ASSUME NEW s, Sending(s) PROVE Sending(s)'
      BY <1>1, <2>5, <3>2 DEF Sending, Displayed
    <3>3. ASSUME NEW s \in {"up", "down", None}, Told(s) PROVE Told(s)'
      <4>1. CASE Tells(queue["local"], s)
        BY <2>2, <2>3, <3>1, <4>1 DEF Told
      <4>2. CASE Silent(queue["local"]) /\ Unsaid /\ Sending(s)
        BY <2>2, <2>3, <3>1, <3>2, <4>2 DEF Told, Unsaid
      <4> QED
        BY <2>4, <3>3, <4>1, <4>2 DEF Told
    <3> QED
      BY <1>1, <1>3, <2>4, <3>3 DEF HealthInv, LatestTold, healthVars
  <2>6. CASE Acknowledges
    <3>1. writer'["local"] = writer["local"] /\ reqs'["local"] = Append(reqs["local"], q)
          /\ ~IsHealth(q.item)
      BY <1>2, <1>5, <2>1, <2>6 DEF Shaped
    <3>2. /\ Silent(reqs["local"]) => Silent(Append(reqs["local"], q))
          /\ \A s : Tells(reqs["local"], s) => Tells(Append(reqs["local"], q), s)
      BY <2>1, <3>1, TellsAppend
    <3>3. ASSUME NEW s, Sending(s) PROVE Sending(s)'
      BY <1>1, <3>1, <3>2, <3>3 DEF Sending, Displayed
    <3>4. ASSUME NEW s, Told(s) PROVE Told(s)'
      <4>1. q.item # Health(s)
        BY <3>1, HealthIsHealth
      <4>2. (writer["local"] = Health(s) => writer'["local"] = Health(s)) /\ (Unsaid => Unsaid')
        BY <3>1 DEF Unsaid
      <4> QED
        BY <2>2, <2>3, <3>3, <3>4, <4>1, <4>2 DEF Told
    <3> QED
      BY <1>1, <1>3, <3>4 DEF HealthInv, LatestTold, healthVars
  <2> QED
    BY <1>1, <2>5, <2>6
<1> QED
  BY <1>4, <1>5

LEMMA PublisherPublishesTold ==
  ASSUME IndInv, HealthInv, NEW c \in Sides, PublisherPublishes(c)
  PROVE  HealthInv'
<1> DEFINE r == Pub(0, writer[c])
<1>1. /\ writer[c] # None /\ reqs' = [reqs EXCEPT ![c] = Append(@, r)]
      /\ writer' = [writer EXCEPT ![c] = None]
      /\ link' = link /\ shown' = shown /\ sent' = sent /\ again' = again /\ queue' = queue
      /\ UNCHANGED healthVars
  BY DEF PublisherPublishes, netVars, Push
<1>2. "local" \in Sides /\ Shaped
  BY LocalQueues
<1>3. StatusInv'
  BY <1>1, StatusSame DEF HealthInv
<1>4. CASE c # "local"
  <2>1. writer'["local"] = writer["local"] /\ reqs'["local"] = reqs["local"]
    BY <1>1, <1>2, <1>4 DEF Shaped
  <2> QED
    BY <1>1, <1>3, <2>1, PipeSame DEF HealthInv, healthVars
<1>5. CASE c = "local"
  <2>1. reqs["local"] \in Seq(LocalReqs) /\ r \in LocalReqs /\ r.item = writer["local"]
    <3>1. TaskHolds("local")
      BY <1>2 DEF IndInv, Holds
    <3>2. writer["local"] \in Onto("local")
      BY <1>1, <1>5, <3>1 DEF TaskHolds
    <3> QED
      BY <1>5, <3>2, LocalQueues DEF LocalReqs, Pubs, Pub
  <2>2. writer'["local"] = None /\ reqs'["local"] = Append(reqs["local"], r)
    BY <1>1, <1>2, <1>5 DEF Shaped
  <2>3. /\ \A s : r.item = Health(s) => Tells(Append(reqs["local"], r), s)
        /\ ~IsHealth(r.item) =>
             /\ Silent(reqs["local"]) => Silent(Append(reqs["local"], r))
             /\ \A s : Tells(reqs["local"], s) => Tells(Append(reqs["local"], r), s)
    BY <2>1, TellsAppend
  <2> HIDE DEF r
  <2>4. ASSUME NEW s, Told(s) PROVE Told(s)'
    <3>1. CASE Tells(queue["local"], s)
      BY <1>1, <3>1 DEF Told
    <3>2. CASE Silent(queue["local"]) /\ writer["local"] = Health(s)
      <4>1. Tells(reqs["local"], s)'
        BY <2>1, <2>2, <2>3, <3>2
      <4> QED
        BY <1>1, <2>2, <3>2, <4>1 DEF Told, Unsaid, Sending
    <3>3. CASE Silent(queue["local"]) /\ Unsaid /\ Sending(s)
      <4>1. ~IsHealth(r.item)
        BY <1>1, <1>5, <2>1, <3>3 DEF Unsaid
      <4>2. Sending(s)'
        BY <1>1, <2>2, <2>3, <3>3, <4>1 DEF Sending, Displayed
      <4> QED
        BY <1>1, <2>2, <3>3, <4>2 DEF Told, Unsaid
    <3> QED
      BY <2>4, <3>1, <3>2, <3>3 DEF Told
  <2> QED
    BY <1>1, <1>3, <2>4 DEF HealthInv, LatestTold, healthVars
<1> QED
  BY <1>4, <1>5

LEMMA SendRequestTold ==
  ASSUME IndInv, HealthInv, NEW c \in Sides, SendRequest(c)
  PROVE  HealthInv'
<1> DEFINE r == IF again[c] # <<>> THEN Head(again[c]) ELSE Head(reqs[c])
           new == r.id = 0 /\ Qos1(r.item)
           id == IF new THEN lastId[c] + 1 ELSE r.id
<1>1. /\ again[c] # <<>> \/ reqs[c] # <<>>
      /\ IF again[c] # <<>> THEN again' = [again EXCEPT ![c] = Tail(@)] /\ reqs' = reqs
                            ELSE reqs' = [reqs EXCEPT ![c] = Tail(@)] /\ again' = again
      /\ \/ r.do = "ack" /\ sent' = [sent EXCEPT ![c] = Append(@, r)]
         \/ r.do = "pub" /\ sent' = [sent EXCEPT ![c] = Append(@, Pub(id, r.item))]
      /\ link' = link /\ shown' = shown /\ queue' = queue /\ writer' = writer
      /\ UNCHANGED healthVars
  BY DEF SendRequest, taskVars, Pop, Push
<1>2. "local" \in Sides /\ Shaped /\ Shaped'
  BY LocalQueues, <1>1 DEF Shaped, SendRequest, OnOutgoing, Push, Pop, taskVars
<1>3. StatusInv'
  BY <1>1, StatusSame DEF HealthInv
<1>4. CASE c # "local"
  <2>1. /\ again'["local"] = again["local"] /\ reqs'["local"] = reqs["local"]
        /\ sent'["local"] = sent["local"]
    BY <1>1, <1>2, <1>4 DEF Shaped
  <2> QED
    BY <1>1, <1>3, <2>1, PipeSame DEF HealthInv, healthVars
<1>5. CASE c = "local"
  <2>1. /\ reqs["local"] \in Seq(LocalReqs) /\ again["local"] \in Seq(LocalReqs)
        /\ sent["local"] \in Seq(LocalReqs)
    BY LocalQueues
  <2>2. PICK x : sent'["local"] = Append(sent["local"], x) /\ x.item = r.item
    <3>1. Pub(id, r.item).item = r.item
      BY DEF Pub
    <3>2. \/ sent'["local"] = Append(sent["local"], r)
          \/ sent'["local"] = Append(sent["local"], Pub(id, r.item))
      BY <1>1, <1>2, <1>5 DEF Shaped
    <3> QED
      BY <3>1, <3>2
  <2> HIDE DEF r
  <2>4. /\ \A s : r.item = Health(s) => Tells(sent["local"], s)'
        /\ ~IsHealth(r.item) =>
             /\ Silent(sent["local"]) => Silent(sent["local"])'
             /\ \A s : Tells(sent["local"], s) => Tells(sent["local"], s)'
    <3>1. /\ \A s : x.item = Health(s) => Tells(Append(sent["local"], x), s)
          /\ ~IsHealth(x.item) =>
               /\ Silent(sent["local"]) => Silent(Append(sent["local"], x))
               /\ \A s : Tells(sent["local"], s) => Tells(Append(sent["local"], x), s)
      BY <2>1, TellsAppend
    <3> QED
      BY <2>2, <3>1
  <2>5. ASSUME NEW s, Displayed(s), ~IsHealth(r.item) PROVE Displayed(s)'
    BY <1>1, <2>4, <2>5 DEF Displayed
  <2>6. ASSUME NEW s, Sending(s) PROVE Sending(s)'
    <3>1. CASE again["local"] # <<>>
      <4>1. again'["local"] = Tail(again["local"]) /\ reqs'["local"] = reqs["local"]
            /\ r = Head(again["local"])
        BY <1>1, <1>2, <1>5, <3>1 DEF Shaped, r
      <4>2. /\ Silent(again["local"]) => Silent(again["local"])' /\ ~IsHealth(r.item)
            /\ Tells(again["local"], s) =>
                 Tells(again["local"], s)' \/ (Silent(again["local"])' /\ r.item = Health(s))
        BY <2>1, <3>1, <4>1, TellsTail
      <4>3. r.item = Health(s) => Displayed(s)'
        BY <2>4 DEF Displayed
      <4> QED
        BY <2>5, <2>6, <4>1, <4>2, <4>3 DEF Sending
    <3>2. CASE again["local"] = <<>>
      <4>1. reqs'["local"] = Tail(reqs["local"]) /\ again'["local"] = again["local"]
            /\ r = Head(reqs["local"]) /\ reqs["local"] # <<>>
        BY <1>1, <1>2, <1>5, <3>2 DEF Shaped, r
      <4>2. /\ Silent(reqs["local"]) => Silent(reqs["local"])' /\ ~IsHealth(r.item)
            /\ Tells(reqs["local"], s) =>
                 Tells(reqs["local"], s)' \/ (Silent(reqs["local"])' /\ r.item = Health(s))
        BY <2>1, <4>1, TellsTail
      <4>3. r.item = Health(s) => Displayed(s)'
        BY <2>4 DEF Displayed
      <4>4. Silent(again["local"]) /\ ~Tells(again["local"], s) /\ Silent(again["local"])'
        BY <3>2, <4>1, TellsNothing
      <4> QED
        BY <2>5, <2>6, <4>2, <4>3, <4>4 DEF Sending
    <3> QED
      BY <3>1, <3>2
  <2> QED
    BY <1>1, <1>3, <2>6 DEF HealthInv, LatestTold, Told, Unsaid, healthVars
<1> QED
  BY <1>4, <1>5


\* A request which is not about the health, added for the publisher of a side.
LEMMA QueueTold ==
  ASSUME IndInv, HealthInv, NEW c \in Sides, NEW x,
         queue' = queue \/ queue' = [queue EXCEPT ![c] = Append(@, x)],
         c = "local" => ~IsHealth(x.item),
         link' = link, shown' = shown, sent' = sent, reqs' = reqs, again' = again,
         writer' = writer, UNCHANGED healthVars
  PROVE  HealthInv'
<1>1. "local" \in Sides /\ Shaped /\ queue["local"] \in Seq(LocalReqs)
  BY LocalQueues
<1>2. StatusInv'
  BY StatusSame DEF HealthInv
<1>3. CASE queue'["local"] = queue["local"]
  BY <1>2, <1>3, PipeSame DEF HealthInv, healthVars
<1>4. CASE queue'["local"] = Append(queue["local"], x) /\ c = "local"
  <2>1. /\ Silent(queue["local"]) => Silent(Append(queue["local"], x))
        /\ \A s : Tells(queue["local"], s) => Tells(Append(queue["local"], x), s)
    BY <1>1, <1>4, TellsAppend
  <2> QED
    BY <1>2, <1>4, <2>1
       DEF HealthInv, LatestTold, Told, Unsaid, Sending, Displayed, healthVars
<1> QED
  BY <1>1, <1>3, <1>4 DEF Shaped

LEMMA PollPublishTold ==
  ASSUME IndInv, HealthInv, NEW c \in Sides, PollPublish(c)
  PROVE  HealthInv'
<1> DEFINE x == Head(wire[c]).item
<1>1. /\ wire[c] # <<>> /\ Head(wire[c]).do = "pub"
      /\ queue' = queue \/ queue' = [queue EXCEPT ![Other(c)] = Append(@, Pub(0, x))]
      /\ link' = link /\ shown' = shown /\ sent' = sent /\ reqs' = reqs /\ again' = again
      /\ writer' = writer /\ UNCHANGED healthVars
  BY DEF PollPublish, Push, clientVars
<1>2. Other(c) \in Sides /\ Other(Other(c)) = c
  BY SidesFacts
<1>3. x \in From(c)
  <2>1. wire[c] \in Seq(Received(c))
    BY DEF IndInv, Holds, NetHolds
  <2>2. Head(wire[c]) \in Received(c)
    BY <1>1, <2>1
  <2> QED
    BY <1>1, <2>2 DEF Received
<1>4. ~IsHealth(Pub(0, x).item)
  BY <1>3, OthersSilent DEF Pub
<1> HIDE DEF x
<1> QED
  BY <1>1, <1>2, <1>4, QueueTold

LEMMA PollAckTold ==
  ASSUME IndInv, HealthInv, NEW c \in Sides, PollAck(c)
  PROVE  HealthInv'
<1> DEFINE id == Head(wire[c]).id
           Acks1 == queue' = [queue EXCEPT ![Other(c)] = Append(@, Ack(paired[c][id]))]
<1>1. /\ link' = link /\ shown' = shown /\ sent' = sent /\ reqs' = reqs /\ again' = again
      /\ writer' = writer /\ UNCHANGED healthVars
      /\ queue' = queue \/ (id \in DOMAIN paired[c] /\ Acks1)
  BY DEF PollAck, Push
<1>2. Other(c) \in Sides
  BY SidesFacts
<1>3. CASE queue' = queue
  BY <1>1, <1>3, StatusSame, PipeSame DEF HealthInv, healthVars
<1>4. CASE id \in DOMAIN paired[c] /\ Acks1
  <2>1. paired[c][id] \in From(Other(c))
    BY <1>4 DEF IndInv, Holds, BridgeHolds
  <2>2. ~IsHealth(Ack(paired[c][id]).item)
    BY <1>2, <2>1, OthersSilent DEF Ack
  <2> QED
    BY <1>1, <1>2, <1>4, <2>2, QueueTold
<1> QED
  BY <1>1, <1>3, <1>4

LEMMA AckReceivedTold ==
  ASSUME IndInv, HealthInv, NEW c \in Sides, AckReceived(c)
  PROVE  HealthInv'
<1> DEFINE x == mode[c].item
<1>1. /\ mode[c].do = "ack" /\ link' = link /\ shown' = shown /\ sent' = sent /\ again' = again
      /\ queue' = queue /\ writer' = writer /\ UNCHANGED healthVars
      /\ reqs' = reqs \/ reqs' = [reqs EXCEPT ![c] = Append(@, Ack(x))]
  BY DEF AckReceived, Push, netVars, taskVars
<1>2. "local" \in Sides /\ Shaped /\ reqs["local"] \in Seq(LocalReqs)
  BY LocalQueues
<1>3. StatusInv'
  BY <1>1, StatusSame DEF HealthInv
<1>4. ~IsHealth(Ack(x).item)
  <2>1. mode[c] \in Modes(c)
    BY DEF IndInv, Holds, BridgeHolds
  <2>2. x \in From(c)
    BY <1>1, <2>1 DEF Modes, Polling, Settled
  <2> QED
    BY <2>2, OthersSilent DEF Ack
<1> HIDE DEF x
<1>5. CASE reqs'["local"] = reqs["local"]
  BY <1>1, <1>3, <1>5, PipeSame DEF HealthInv, healthVars
<1>6. CASE reqs'["local"] = Append(reqs["local"], Ack(x))
  <2>1. /\ Silent(reqs["local"]) => Silent(reqs["local"])'
        /\ \A s : Tells(reqs["local"], s) => Tells(reqs["local"], s)'
    BY <1>2, <1>4, <1>6, TellsAppend
  <2>2. ASSUME NEW s, Sending(s) PROVE Sending(s)'
    BY <1>1, <2>1, <2>2 DEF Sending, Displayed
  <2> QED
    BY <1>1, <1>3, <2>2 DEF HealthInv, LatestTold, Told, Unsaid, healthVars
<1> QED
  BY <1>1, <1>2, <1>5, <1>6 DEF Shaped

LEMMA OthersTold ==
  ASSUME IndInv, HealthInv, NEW c \in Sides,
         TakePairing(c) \/ CleanOldMessages(c) \/ UNCHANGED vars
  PROVE  HealthInv'
<1>1. /\ link' = link /\ shown' = shown /\ sent' = sent /\ reqs' = reqs /\ again' = again
      /\ queue' = queue /\ writer' = writer /\ UNCHANGED healthVars
  BY DEF TakePairing, CleanOldMessages, vars, netVars, clientVars, taskVars
<1> QED
  BY <1>1, StatusSame, PipeSame DEF HealthInv, healthVars

\* The monitor tells every change of the overall status.
LEMMA ChangeTold ==
  ASSUME IndInv, HealthInv, NEW c \in Sides, NEW s \in {"up", "down"}, UpdateHealth(c, s)
  PROVE  /\ status' \in [Sides -> {"up", "down", None}] /\ overall' = OverallStatus(status)'
         /\ status'[c] = s /\ \A d \in Sides : d # c => status'[d] = status[d]
         /\ \/ queue' = queue /\ overall' = overall
            \/ Tells(queue'["local"], overall')
<1> DEFINE new == [status EXCEPT ![c] = s]
           all == OverallStatus(new)
<1>1. /\ status' = new /\ overall' = all
      /\ queue' = (IF all = overall THEN queue
                   ELSE [queue EXCEPT !["local"] = Append(@, Pub(0, Health(all)))])
  BY DEF UpdateHealth, Push
<1>2. new \in [Sides -> {"up", "down", None}] /\ new[c] = s /\ \A d \in Sides : d # c => new[d] = status[d]
  BY DEF HealthInv, StatusInv
<1>3. OverallStatus(status)' = OverallStatus(new)
  BY <1>1 DEF OverallStatus
<1> HIDE DEF all
<1>4. CASE all # overall
  <2>1. "local" \in Sides /\ Shaped /\ queue["local"] \in Seq(LocalReqs)
    BY LocalQueues
  <2>2. queue'["local"] = Append(queue["local"], Pub(0, Health(all)))
    BY <1>1, <1>4, <2>1 DEF Shaped
  <2>3. Pub(0, Health(all)).item = Health(all)
    BY DEF Pub
  <2>4. Tells(queue'["local"], all)
    BY <2>1, <2>2, <2>3, TellsAppend
  <2> QED
    BY <1>1, <1>2, <1>3, <2>4 DEF all
<1> QED
  BY <1>1, <1>2, <1>3, <1>4 DEF all

LEMMA ConnectTold ==
  ASSUME IndInv, HealthInv, NEW c \in Sides, Connect(c) \/ ConnectFails(c)
  PROVE  HealthInv'
<1>1. PICK s \in {"up", "down"} :
        /\ UpdateHealth(c, s) /\ link[c] = "down"
        /\ IF s = "up" THEN link' = [link EXCEPT ![c] = "up"] ELSE link' = link
        /\ shown' = shown /\ sent' = sent /\ reqs' = reqs /\ again' = again /\ writer' = writer
  BY DEF Connect, ConnectFails, netVars, clientVars
<1>2. /\ status' \in [Sides -> {"up", "down", None}] /\ overall' = OverallStatus(status)'
      /\ status'[c] = s /\ \A d \in Sides : d # c => status'[d] = status[d]
      /\ \/ queue' = queue /\ overall' = overall
         \/ Tells(queue'["local"], overall')
  BY <1>1, ChangeTold
<1>3. "local" \in Sides /\ Shaped
  BY LocalQueues
<1>4. StatusInv'
  BY <1>1, <1>2, <1>3 DEF HealthInv, StatusInv
<1>5. LatestTold'
  <2>1. CASE queue' = queue /\ overall' = overall
    <3>1. link["local"] = "lost" => link'["local"] = "lost"
      BY <1>1, <1>3 DEF Shaped
    <3> QED
      BY <1>1, <2>1, <3>1, PipeSame DEF HealthInv
  <2>2. CASE Tells(queue'["local"], overall')
    BY <2>2 DEF LatestTold, Told
  <2> QED
    BY <1>2, <2>1, <2>2
<1> QED
  BY <1>4, <1>5 DEF HealthInv

LEMMA PollFailsTold ==
  ASSUME IndInv, HealthInv, NEW c \in Sides, PollFails(c)
  PROVE  HealthInv'
<1> DEFINE all == flight[c] \o again[c] \o reqs[c]
           I == {i \in DOMAIN all : all[i].do = "pub"}
<1>1. /\ link[c] = "lost" /\ link' = [link EXCEPT ![c] = "down"] /\ UpdateHealth(c, "down")
      /\ again' = [again EXCEPT ![c] = Selected(all, I)] /\ reqs' = [reqs EXCEPT ![c] = <<>>]
      /\ shown' = shown /\ sent' = sent /\ writer' = writer
  BY DEF PollFails
<1>2. /\ status' \in [Sides -> {"up", "down", None}] /\ overall' = OverallStatus(status)'
      /\ status'[c] = "down" /\ \A d \in Sides : d # c => status'[d] = status[d]
      /\ \/ queue' = queue /\ overall' = overall
         \/ Tells(queue'["local"], overall')
  BY <1>1, ChangeTold
<1>3. "local" \in Sides /\ Shaped
  BY LocalQueues
<1>4. StatusInv'
  BY <1>1, <1>2, <1>3 DEF HealthInv, StatusInv
<1>5. CASE Tells(queue'["local"], overall')
  BY <1>4, <1>5 DEF HealthInv, LatestTold, Told
<1>6. CASE queue' = queue /\ overall' = overall /\ c # "local"
  <2>1. reqs'["local"] = reqs["local"] /\ again'["local"] = again["local"] /\ link'["local"] = link["local"]
    BY <1>1, <1>3, <1>6 DEF Shaped
  <2> QED
    BY <1>1, <1>4, <1>6, <2>1, PipeSame DEF HealthInv
<1>7. CASE queue' = queue /\ overall' = overall /\ c = "local"
  <2>1. /\ reqs'["local"] = <<>> /\ again'["local"] = Selected(all, I) /\ link'["local"] = "down"
        /\ sent'["local"] = <<>> /\ shown' = "down"
    <3>1. sent["local"] = <<>> /\ shown = "down"
      BY <1>1, <1>3, <1>7 DEF HealthInv, StatusInv, IndInv, Holds, NetHolds
    <3> QED
      BY <1>1, <1>3, <1>7, <3>1 DEF Shaped
  <2>2. overall' # None => overall' = "down"
    BY <1>2, <1>3, <1>7, BridgeAssumption DEF OverallStatus
  <2>3. /\ flight["local"] \in Seq(LocalReqs) /\ again["local"] \in Seq(LocalReqs)
        /\ reqs["local"] \in Seq(LocalReqs)
        /\ \A r \in LocalReqs : r.do # "pub" => ~IsHealth(r.item)
    BY LocalQueues
  <2>4. Silent(flight["local"])
    BY <1>1, <1>3, <1>7 DEF IndInv, IdsInv, IdsUnique, Silent
  <2> DEFINE rest == flight["local"] \o again["local"]
  <2>5. /\ rest \in Seq(LocalReqs)
        /\ Silent(again["local"]) => Silent(rest)
        /\ \A s : Tells(again["local"], s) => Tells(rest, s)
    BY <2>3, <2>4, TellsConcat, ConcatProperties
  <2> HIDE DEF rest
  <2>6. all = rest \o reqs["local"]
    BY <1>7 DEF rest
  <2>7. /\ all \in Seq(LocalReqs)
        /\ Silent(again["local"]) /\ Silent(reqs["local"]) => Silent(all)
        /\ \A s : Tells(reqs["local"], s) \/ (Tells(again["local"], s) /\ Silent(reqs["local"])) =>
             Tells(all, s)
    BY <2>3, <2>5, <2>6, TellsConcat, ConcatProperties
  <2> HIDE DEF all
  <2>8. /\ Silent(all) => Silent(Selected(all, I))
        /\ \A s : Tells(all, s) => Tells(Selected(all, I), s)
    <3>1. \A i \in DOMAIN all : IsHealth(all[i].item) => i \in I
      BY <2>3, <2>7
    <3> QED
      BY <2>7, <3>1, TellsSelected
  <2> HIDE DEF I
  <2>9. Sending("down") => Sending("down")'
    BY <2>1, <2>7, <2>8, TellsNothing DEF Sending, Displayed
  <2>10. LatestTold'
    BY <1>1, <1>7, <2>2, <2>9 DEF HealthInv, LatestTold, Told, Unsaid
  <2> QED
    BY <1>4, <2>10 DEF HealthInv
<1> QED
  BY <1>2, <1>5, <1>6, <1>7

LEMMA HealthNext ==
  ASSUME IndInv, HealthInv, [Next]_vars
  PROVE  HealthInv'
<1>1. CASE \E m \in Msgs : SourcePublishes(m)
  BY <1>1, SourcePublishesTold
<1>2. CASE \E c \in Sides : Disconnect(c) \/ ConnectFails(c)
  BY <1>2, DisconnectTold, ConnectTold
<1>3. CASE Steps
  <2>1. PICK c \in Sides :
          \/ BrokerReceives(c) \/ Publisher(c) \/ PublisherPublishes(c)
          \/ SendRequest(c) \/ TakePairing(c) \/ PollPublish(c) \/ AckReceived(c) \/ PollAck(c)
          \/ CleanOldMessages(c) \/ PollFails(c) \/ Connect(c)
    BY <1>3 DEF Steps
  <2>2. CASE BrokerReceives(c) \/ Publisher(c) \/ PublisherPublishes(c) \/ SendRequest(c)
    BY <2>2, BrokerReceivesTold, PublisherTold, PublisherPublishesTold, SendRequestTold
  <2>3. CASE TakePairing(c) \/ PollPublish(c) \/ AckReceived(c) \/ PollAck(c)
    BY <2>3, OthersTold, PollPublishTold, AckReceivedTold, PollAckTold
  <2>4. CASE CleanOldMessages(c) \/ PollFails(c) \/ Connect(c)
    BY <2>4, OthersTold, PollFailsTold, ConnectTold
  <2> QED
    BY <2>1, <2>2, <2>3, <2>4
<1>4. CASE UNCHANGED vars
  <2>1. "local" \in Sides
    BY DEF Sides
  <2> QED
    BY <1>4, <2>1, OthersTold
<1> QED
  BY <1>1, <1>2, <1>3, <1>4 DEF Next

\* Once both sides are connected and every message about the health of the bridge has
\* been received, the local broker shows the bridge up (BridgeHealthMonitor), whatever
\* the connections lost before and the last wills published for them.
THEOREM HealthIsAccurate ==
  ASSUME ~HealthRepeats
  PROVE  Spec => []HealthAccurate
<1>1. Init => HealthInv
  BY StatusInit
<1>2. IndInv /\ HealthInv /\ [Next]_vars => HealthInv'
  BY HealthNext
<1>3. HealthInv => HealthAccurate
  <2> SUFFICES ASSUME HealthInv, \A c \in Sides : link[c] = "up",
                      writer["local"] = None \/ ~IsHealth(writer["local"]),
                      \A q \in {queue["local"], reqs["local"], again["local"], flight["local"],
                                sent["local"]} : \A i \in DOMAIN q : ~IsHealth(q[i].item)
               PROVE  shown = "up"
    BY DEF HealthAccurate
  <2>1. \A c \in Sides : status[c] = "up"
    BY DEF HealthInv, StatusInv
  <2>2. overall = "up" /\ overall # None
    BY <2>1, BridgeAssumption DEF HealthInv, StatusInv, OverallStatus, Sides
  <2>3. ASSUME NEW q, \A i \in DOMAIN q : ~IsHealth(q[i].item) PROVE ~Tells(q, "up")
    BY <2>3, HealthIsHealth DEF Tells
  <2>4. /\ ~Tells(queue["local"], "up") /\ ~Tells(reqs["local"], "up")
        /\ ~Tells(again["local"], "up") /\ ~Tells(sent["local"], "up")
    BY <2>3
  <2>5. writer["local"] # Health("up")
    BY HealthIsHealth, BridgeAssumption DEF Health
  <2>6. link["local"] # "lost"
    BY DEF Sides
  <2> QED
    BY <2>2, <2>4, <2>5, <2>6 DEF HealthInv, LatestTold, Told, Sending, Displayed
<1> QED
  BY <1>1, <1>2, <1>3, Invariant, PTL DEF Spec

=============================================================================
