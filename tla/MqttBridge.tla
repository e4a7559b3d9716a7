----------------------------- MODULE MqttBridge -----------------------------
(* The built-in MQTT bridge between the local broker and the cloud             *)
(* (tedge_mqtt_bridge/src/lib.rs and health.rs): for each side, a half bridge  *)
(* polling the events of the connection, and a task publishing on it what the  *)
(* other half has received. A message is acknowledged to its source when its   *)
(* target has acknowledged it; the packet ids of the target are paired with    *)
(* the messages in the order in which both are seen.                           *)
(*                                                                             *)
(* The MQTT client (rumqttc) is external: one bounded queue of requests per    *)
(* connection, drained by the half bridge when it polls, and the unacknowledged*)
(* publications sent again, under the same packet ids, on reconnection. Packet *)
(* ids are not reused.                                                         *)
EXTENDS SequencesExt, Selections

CONSTANTS
  Msgs,            \* the messages published on the two brokers
  Origin,          \* the side each of them is published on
  Qos0,            \* the messages published without acknowledgement
  Forwarded,       \* the messages some rule of the bridge applies to
  Bidirectional,   \* the ones whose target topic is also forwarded back
  Persistent,      \* the sides whose broker keeps the session of a lost connection
  None,
  Capacity,        \* the size of the channels (in_flight in the code)
  HealthRepeats,   \* whether the local connection may be lost with a health message in flight
  MaxPublished,    \* bound on the number of messages published
  MaxDrops         \* bound on the number of lost and failed connections

Sides == {"local", "cloud"}
Other(c) == IF c = "local" THEN "cloud" ELSE "local"

ASSUME BridgeAssumption ==
  /\ Origin \in [Msgs -> Sides]
  /\ None \notin {"up", "down"}
  /\ None \notin Msgs \cup [msg : Msgs, hops : Nat] \cup [msg : {None}, status : {"up", "down", None}]
  /\ Qos0 \subseteq Msgs /\ Forwarded \subseteq Msgs /\ Bidirectional \subseteq Forwarded
  /\ Persistent \subseteq Sides
  /\ Capacity \in Nat \ {0} /\ MaxPublished \in Nat /\ MaxDrops \in Nat
  /\ HealthRepeats \in BOOLEAN

\* A message, with the number of times it has crossed the bridge, or a message
\* of the bridge itself about its health.
Inst(m, n) == [msg |-> m, hops |-> n]
Health(s) == [msg |-> None, status |-> s]
IsHealth(x) == x.msg = None

VARIABLES
  link,       \* the connections: "up", "lost" and not yet noticed, or "down"
  wire,       \* the packets sent by each broker and not yet polled
  sent,       \* the packets sent to each broker and not yet received
  owed,       \* what each broker has sent and the bridge has not acknowledged
  got,        \* the messages each broker has received from the bridge
  acked,      \* the messages acknowledged to each broker
  shown,      \* the status of the bridge shown by the local broker
  reqs,       \* the requests queued in each client
  again,      \* the requests to be sent first after a reconnection
  flight,     \* the publications sent and not acknowledged by each broker
  lastId,     \* the last packet id of each client
  paired,     \* forward_pkid_to_received_msg of each half bridge
  mode,       \* what each half bridge is doing
  echoes,     \* forwarded_messages of the loop breaker of each half bridge
  chan,       \* the messages published on a side, awaiting their packet ids
  queue,      \* the messages for the publisher task of each side
  writer,     \* the message this task is publishing
  status,     \* the status of each half bridge known to the health monitor
  overall,    \* the last status published by the monitor
  published,  \* the messages published so far
  twice,      \* the messages sent twice on a connection, because it was lost
  lost,       \* the messages which were to come back on a connection when it was lost
  drops       \* the number of lost and failed connections so far

netVars == <<link, wire, sent, owed, got, acked, shown>>
clientVars == <<reqs, again, flight, lastId>>
halfVars == <<paired, mode, echoes>>
taskVars == <<chan, queue, writer>>
healthVars == <<status, overall>>
history == <<published, twice, lost, drops>>
vars == <<netVars, clientVars, halfVars, taskVars, healthVars, history>>

\* A publication and an acknowledgement, as requests to a client and as packets;
\* the packet id is 0 until one is given, and without acknowledgement.
Pub(id, x) == [do |-> "pub", id |-> id, item |-> x]
Ack(x) == [do |-> "ack", item |-> x]
PubAck(id) == [do |-> "puback", id |-> id]

Polling == [do |-> "poll"]
Pairing(id) == [do |-> "pair", id |-> id]
Acking(x, looped) == [do |-> "ack", item |-> x, looped |-> looped]

Qos1(x) == IsHealth(x) \/ x.msg \notin Qos0
Push(f, c, x) == [f EXCEPT ![c] = Append(@, x)]
Pop(f, c) == [f EXCEPT ![c] = Tail(@)]

Init ==
  /\ link = [c \in Sides |-> "down"]
  /\ wire = [c \in Sides |-> <<>>] /\ sent = [c \in Sides |-> <<>>]
  /\ owed = [c \in Sides |-> {}] /\ got = [c \in Sides |-> {}] /\ acked = [c \in Sides |-> {}]
  /\ shown = "down"
  /\ reqs = [c \in Sides |-> <<>>] /\ again = [c \in Sides |-> <<>>]
  /\ flight = [c \in Sides |-> <<>>] /\ lastId = [c \in Sides |-> 0]
  /\ paired = [c \in Sides |-> <<>>] /\ echoes = [c \in Sides |-> <<>>]
  /\ mode = [c \in Sides |-> Polling]
  /\ chan = [c \in Sides |-> <<>>] /\ queue = [c \in Sides |-> <<>>]
  /\ writer = [c \in Sides |-> None]
  /\ status = [c \in Sides |-> None] /\ overall = None
  /\ published = {} /\ twice = {} /\ lost = {} /\ drops = 0

------------------------------------------------------------------------------
(* The brokers and the network. (external)                                     *)

\* A message is published on a side; without a connection, its broker keeps it
\* for the session of the bridge if it can.
SourcePublishes(m) ==
  LET c == Origin[m]
      x == Inst(m, 0)
  IN  /\ m \notin published /\ Cardinality(published) < MaxPublished
      /\ published' = published \cup {m}
      /\ wire' = IF link[c] = "up" THEN Push(wire, c, Pub(0, x)) ELSE wire
      /\ owed' = IF Qos1(x) /\ (link[c] = "up" \/ c \in Persistent)
                 THEN [owed EXCEPT ![c] = @ \cup {x}] ELSE owed
      /\ UNCHANGED <<link, sent, got, acked, shown, clientVars, halfVars, taskVars, healthVars,
                     twice, lost, drops>>

\* A broker receives a packet of the bridge. A message of which the topic is
\* bridged in both directions is sent back as to any subscriber.
BrokerReceives(c) ==
  /\ sent[c] # <<>>
  /\ sent' = Pop(sent, c)
  /\ LET p == Head(sent[c])
         x == p.item
         puback == IF Qos1(x) THEN <<PubAck(p.id)>> ELSE <<>>
         echo == Inst(x.msg, x.hops + 1)
     IN  \/ /\ p.do = "pub"
            /\ got' = [got EXCEPT ![c] = @ \cup {x}]
            /\ shown' = IF IsHealth(x) THEN x.status ELSE shown
            /\ IF ~IsHealth(x) /\ x.msg \in Bidirectional
               THEN /\ \E s \in {puback \o <<Pub(0, echo)>>, <<Pub(0, echo)>> \o puback} :
                         wire' = [wire EXCEPT ![c] = @ \o s]
                    /\ owed' = IF Qos1(x) THEN [owed EXCEPT ![c] = @ \cup {echo}] ELSE owed
               ELSE wire' = [wire EXCEPT ![c] = @ \o puback] /\ UNCHANGED owed
            /\ UNCHANGED acked
         \/ /\ p.do = "ack"
            /\ owed' = [owed EXCEPT ![c] = @ \ {x}]
            /\ acked' = [acked EXCEPT ![c] = @ \cup {x}]
            /\ UNCHANGED <<wire, got, shown>>
  /\ UNCHANGED <<link, clientVars, halfVars, taskVars, healthVars, history>>

\* The messages expected to come back, or on their way to or from the broker.
ToComeBack(c) ==
  {m \in Bidirectional :
     \/ \E i \in DOMAIN echoes[c] : echoes[c][i].msg = m
     \/ \E q \in {sent[c], wire[c]} : \E i \in DOMAIN q : q[i].do = "pub" /\ q[i].item.msg = m}

\* A connection is lost, with all its packets; the local broker then publishes
\* the last will of the bridge.
Disconnect(c) ==
  /\ link[c] = "up" /\ drops < MaxDrops
  /\ HealthRepeats \/ c = "cloud" \/ \A i \in DOMAIN flight[c] : ~IsHealth(flight[c][i].item)
  /\ link' = [link EXCEPT ![c] = "lost"]
  /\ wire' = [wire EXCEPT ![c] = <<>>] /\ sent' = [sent EXCEPT ![c] = <<>>]
  /\ owed' = IF c \in Persistent THEN owed ELSE [owed EXCEPT ![c] = {}]
  /\ shown' = IF c = "local" THEN "down" ELSE shown
  /\ lost' = lost \cup ToComeBack(c)
  /\ drops' = drops + 1
  /\ UNCHANGED <<got, acked, clientVars, halfVars, taskVars, healthVars, published, twice>>

------------------------------------------------------------------------------
(* The health of the bridge.                                                   *)

\* overall_status folded over both sides, nothing being known of a silent one.
OverallStatus_Either(s) ==
  IF \E c \in Sides : s[c] = None THEN None
  ELSE IF \E c \in Sides : s[c] = "up" THEN "up" ELSE "down"
OverallStatus(s) ==
  IF \E c \in Sides : s[c] = None THEN None
  ELSE IF \A c \in Sides : s[c] = "up" THEN "up" ELSE "down"

\* A change of the status of a side reaches the monitor, which queues a message
\* for the local broker when the overall status has changed.
UpdateHealth(c, s) ==
  LET new == [status EXCEPT ![c] = s]
      all == OverallStatus(new)
  IN  /\ status' = new
      /\ overall' = all
      /\ queue' = IF all = overall THEN queue ELSE Push(queue, "local", Pub(0, Health(all)))

------------------------------------------------------------------------------
(* The publisher task of each side.                                            *)

\* A message about to be published is announced to the half bridge of its side,
\* be it a message of the bridge itself.
Announced_NotHealth(c, x) == IF IsHealth(x) THEN chan ELSE Push(chan, c, x)
Announced(c, x) == Push(chan, c, x)

\* It takes a message and announces it to the half bridge of its side before
\* publishing it, or acknowledges it.
Publisher(c) ==
  /\ queue[c] # <<>> /\ writer[c] = None
  /\ queue' = Pop(queue, c)
  /\ LET q == Head(queue[c])
     IN  \/ /\ q.do = "pub" /\ Len(chan[c]) < Capacity
            /\ chan' = Announced(c, q.item)
            /\ writer' = [writer EXCEPT ![c] = q.item]
            /\ UNCHANGED reqs
         \/ /\ q.do = "ack" /\ Len(reqs[c]) < Capacity
            /\ reqs' = Push(reqs, c, q)
            /\ UNCHANGED <<chan, writer>>
  /\ UNCHANGED <<netVars, again, flight, lastId, halfVars, healthVars, history>>

PublisherPublishes(c) ==
  /\ writer[c] # None /\ Len(reqs[c]) < Capacity
  /\ reqs' = Push(reqs, c, Pub(0, writer[c]))
  /\ writer' = [writer EXCEPT ![c] = None]
  /\ UNCHANGED <<netVars, again, flight, lastId, halfVars, chan, queue, healthVars, history>>

------------------------------------------------------------------------------
(* The half bridge of each side, polling its connection.                       *)

\* The half bridge is told of the packet id of a publication: it awaits the
\* message to pair with this id, unless it knows the id.
OnOutgoing_Always(c, id) == [mode EXCEPT ![c] = Pairing(id)]
OnOutgoing(c, id) ==
  IF id \in DOMAIN paired[c] THEN mode ELSE [mode EXCEPT ![c] = Pairing(id)]

\* The client sends a request. For a publication it gives a packet id, unless
\* this is a second attempt, and tells the half bridge.
SendRequest(c) ==
  /\ link[c] = "up" /\ mode[c] = Polling
  /\ again[c] # <<>> \/ reqs[c] # <<>>
  /\ IF again[c] # <<>> THEN again' = Pop(again, c) /\ UNCHANGED reqs
                        ELSE reqs' = Pop(reqs, c) /\ UNCHANGED again
  /\ LET r == IF again[c] # <<>> THEN Head(again[c]) ELSE Head(reqs[c])
         new == r.id = 0 /\ Qos1(r.item)
         id == IF new THEN lastId[c] + 1 ELSE r.id
     IN  \/ /\ r.do = "ack"
            /\ sent' = Push(sent, c, r)
            /\ UNCHANGED <<flight, lastId, mode, twice>>
         \/ /\ r.do = "pub"
            /\ sent' = Push(sent, c, Pub(id, r.item))
            /\ lastId' = IF new THEN [lastId EXCEPT ![c] = id] ELSE lastId
            /\ flight' = IF Qos1(r.item) THEN Push(flight, c, Pub(id, r.item)) ELSE flight
            /\ mode' = OnOutgoing(c, id)
            /\ twice' = IF r.id # 0 THEN twice \cup {r.item.msg} ELSE twice
  /\ UNCHANGED <<link, wire, owed, got, acked, shown, paired, echoes, taskVars, healthVars,
                 published, lost, drops>>

\* forward_on_topic: what is forwarded to a topic bridged in both directions is
\* expected to come back.
ForwardOnTopic(c, x) == IF x.msg \in Bidirectional THEN Push(echoes, c, x) ELSE echoes

\* The half bridge takes the next message published on its side: it is the one
\* of the packet id. Nothing is kept of a message of the bridge itself.
TakePairing(c) ==
  /\ mode[c].do = "pair" /\ chan[c] # <<>>
  /\ chan' = Pop(chan, c)
  /\ mode' = [mode EXCEPT ![c] = Polling]
  /\ LET x == Head(chan[c])
         id == mode[c].id
     IN  IF IsHealth(x) THEN UNCHANGED <<paired, echoes>>
         ELSE /\ echoes' = ForwardOnTopic(c, x)
              /\ paired' = IF id = 0 THEN paired
                           ELSE [paired EXCEPT ![c] =
                                   [i \in DOMAIN @ \cup {id} |-> IF i = id THEN x ELSE @[i]]]
  /\ UNCHANGED <<netVars, clientVars, queue, writer, healthVars, history>>

\* ensure_not_looped: the oldest message expected to come back has done so.
Looped_Newest(c, x) == echoes[c] # <<>> /\ Last(echoes[c]).msg = x.msg
Looped(c, x) == echoes[c] # <<>> /\ Head(echoes[c]).msg = x.msg

\* A message is received: an echo, or a message no rule applies to, is only
\* acknowledged; any other is handed over to the publisher of the other side.
PollPublish(c) ==
  /\ link[c] = "up" /\ mode[c] = Polling
  /\ wire[c] # <<>> /\ Head(wire[c]).do = "pub"
  /\ wire' = Pop(wire, c)
  /\ LET x == Head(wire[c]).item
     IN  IF Looped(c, x) \/ x.msg \notin Forwarded
         THEN /\ mode' = [mode EXCEPT ![c] = Acking(x, Looped(c, x))]
              /\ UNCHANGED queue
         ELSE /\ queue' = Push(queue, Other(c), Pub(0, x))
              /\ UNCHANGED mode
  /\ UNCHANGED <<link, sent, owed, got, acked, shown, clientVars, paired, echoes, chan, writer,
                 healthVars, history>>

\* The half bridge acknowledges a message itself, awaiting room among the
\* requests which it is the only one to send.
AckReceived(c) ==
  /\ mode[c].do = "ack"
  /\ LET x == mode[c].item
     IN  IF Qos1(x) THEN Len(reqs[c]) < Capacity /\ reqs' = Push(reqs, c, Ack(x))
                    ELSE UNCHANGED reqs
  /\ echoes' = IF mode[c].looped THEN Pop(echoes, c) ELSE echoes
  /\ mode' = [mode EXCEPT ![c] = Polling]
  /\ UNCHANGED <<netVars, again, flight, lastId, paired, taskVars, healthVars, history>>

Unpaired_Kept(c, id) == paired
Unpaired(c, id) == [paired EXCEPT ![c] = Restrict(@, DOMAIN @ \ {id})]

\* The target has acknowledged a publication: the message paired with its packet
\* id is acknowledged to its source.
PollAck(c) ==
  /\ link[c] = "up" /\ mode[c] = Polling
  /\ wire[c] # <<>> /\ Head(wire[c]).do = "puback"
  /\ wire' = Pop(wire, c)
  /\ LET id == Head(wire[c]).id
     IN  /\ flight' = [flight EXCEPT ![c] = Selected(@, {i \in DOMAIN @ : @[i].id # id})]
         /\ IF id \in DOMAIN paired[c]
            THEN /\ queue' = Push(queue, Other(c), Ack(paired[c][id]))
                 /\ paired' = Unpaired(c, id)
            ELSE UNCHANGED <<queue, paired>>
  /\ UNCHANGED <<link, sent, owed, got, acked, shown, reqs, again, lastId, mode, echoes, chan,
                 writer, healthVars, history>>

\* clean_old_messages: after 100 seconds, a message is not expected to come back
\* any more. None takes longer to do so.
OnItsWay(c, m) ==
  \/ \E q \in {wire[c], sent[c], flight[c], again[c]} : \E i \in DOMAIN q :
       q[i].do # "puback" /\ q[i].item.msg = m
  \/ \E x \in owed[c] : x.msg = m
  \/ mode[c].do = "ack" /\ mode[c].item.msg = m

CleanOldMessages(c) ==
  /\ echoes[c] # <<>> /\ ~OnItsWay(c, Head(echoes[c]).msg)
  /\ echoes' = Pop(echoes, c)
  /\ UNCHANGED <<netVars, clientVars, paired, mode, taskVars, healthVars, history>>

\* Polling fails. The client keeps the publications to be sent once connected,
\* and drops the acknowledgements: the broker will send the messages again.
PollFails(c) ==
  /\ link[c] = "lost" /\ mode[c] = Polling
  /\ link' = [link EXCEPT ![c] = "down"]
  /\ LET all == flight[c] \o again[c] \o reqs[c]
     IN  again' = [again EXCEPT ![c] = Selected(all, {i \in DOMAIN all : all[i].do = "pub"})]
  /\ flight' = [flight EXCEPT ![c] = <<>>] /\ reqs' = [reqs EXCEPT ![c] = <<>>]
  /\ UpdateHealth(c, "down")
  /\ UNCHANGED <<wire, sent, owed, got, acked, shown, lastId, halfVars, chan, writer, history>>

\* The client fails to connect, for the first time. The next failures change
\* nothing but the time of the backoff.
ConnectFails(c) ==
  /\ link[c] = "down" /\ mode[c] = Polling /\ status[c] # "down" /\ drops < MaxDrops
  /\ UpdateHealth(c, "down")
  /\ drops' = drops + 1
  /\ UNCHANGED <<netVars, clientVars, halfVars, chan, writer, published, twice, lost>>

\* The client is connected, after the time of the backoff, and the subscriptions
\* are made again. The broker sends what the bridge has not acknowledged.
Connect(c) ==
  /\ link[c] = "down" /\ mode[c] = Polling
  /\ link' = [link EXCEPT ![c] = "up"]
  /\ wire' = [wire EXCEPT ![c] = SetToSeq({Pub(0, x) : x \in owed[c]})]
  /\ twice' = twice \cup {x.msg : x \in owed[c]}
  /\ UpdateHealth(c, "up")
  /\ UNCHANGED <<sent, owed, got, acked, shown, clientVars, halfVars, chan, writer, published,
                 lost, drops>>

\* What goes on by itself: the brokers, the tasks and the half bridges, a lost
\* connection being attempted again for ever.
Steps ==
  \E c \in Sides :
    \/ BrokerReceives(c) \/ Publisher(c) \/ PublisherPublishes(c)
    \/ SendRequest(c) \/ TakePairing(c) \/ PollPublish(c) \/ AckReceived(c) \/ PollAck(c)
    \/ CleanOldMessages(c) \/ PollFails(c) \/ Connect(c)

Next ==
  \/ \E m \in Msgs : SourcePublishes(m)
  \/ \E c \in Sides : Disconnect(c) \/ ConnectFails(c)
  \/ Steps

Spec == Init /\ [][Next]_vars

------------------------------------------------------------------------------

\* Half bridges, tasks and clients hold what they should.
TypeOK ==
  /\ link \in [Sides -> {"up", "lost", "down"}] /\ shown \in {"up", "down"}
  /\ \A c \in Sides :
       /\ mode[c].do \in {"poll", "pair", "ack"}
       /\ Len(reqs[c]) <= Capacity /\ Len(chan[c]) <= Capacity
       /\ \A i \in DOMAIN flight[c] : flight[c][i].id \in 1 .. lastId[c]
       /\ DOMAIN paired[c] \subseteq 1 .. lastId[c]
  /\ status \in [Sides -> {"up", "down", None}] /\ overall \in {"up", "down", None}
  /\ published \subseteq Msgs /\ drops \in 0 .. MaxDrops

\* A message is acknowledged to the broker it comes from only once the broker it
\* goes to has received it (step 4 of the message flow of half_bridge), whatever
\* connection is lost in between and however often it is published.
AckedIsDelivered ==
  \A c \in Sides : \A x \in acked[c] :
    x.hops = 0 /\ x.msg \in Forwarded => x \in got[Other(c)]

\* The message a half bridge has paired with a packet id is the one the client
\* has published under this id, and is going to publish again.
PairingCorrect ==
  \A c \in Sides : \A id \in DOMAIN paired[c] :
    \E q \in {flight[c], again[c]} : \E i \in DOMAIN q :
      q[i].do = "pub" /\ q[i].id = id /\ q[i].item = paired[c][id]

\* A message forwarded to a topic bridged in both directions is not forwarded
\* back, unless a lost connection had it sent twice, or took another message on its
\* way there or back, for which the loop breaker still waits (MessageLoopBreaker, "A
\* tool to remove duplicate messages and avoid infinite loops", compares a message
\* with the oldest one it waits for only).
NotLooped ==
  \A c \in Sides : \A x \in got[c] :
    ~IsHealth(x) /\ x.hops > 0 => x.msg \in twice \/ lost \ {x.msg} # {}

\* When both sides are connected and no message about the health of the bridge
\* is on its way, the local broker shows it up (BridgeHealthMonitor), the last
\* will of a lost connection notwithstanding.
HealthAccurate ==
  LET pending == {queue["local"], reqs["local"], again["local"], flight["local"], sent["local"]}
  IN  /\ \A c \in Sides : link[c] = "up"
      /\ writer["local"] = None \/ ~IsHealth(writer["local"])
      /\ \A q \in pending : \A i \in DOMAIN q : ~IsHealth(q[i].item)
      => shown = "up"

\* Nobody waits for ever: when no task of the bridge can go on, every message to
\* be forwarded and acknowledged has been, provided the session of its broker
\* outlives the connection; no half bridge is left waiting for a message to pair
\* (recv in half_bridge), nor for room among its own requests.
NoneLeftWaiting ==
  ~ENABLED Steps =>
    \A m \in published : m \in Forwarded \ Qos0 /\ Origin[m] \in Persistent =>
      Inst(m, 0) \in acked[Origin[m]]

=============================================================================
