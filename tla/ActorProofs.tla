------------------------------ MODULE ActorProofs ------------------------------
(* The runtime of the actors: for any clients, any order of the spawns, any     *)
(* capacity of the boxes and any maximum of concurrent requests, the process    *)
(* ends with a failure only if an actor has failed by itself, or after a panic  *)
(* of the handler of its request.                                               *)
(*                                                                              *)
(* The batcher: for any keys, any times and any settings, a batch holds events  *)
(* of different keys, no further apart than the batching window; each open      *)
(* batch has its timer, and no event taken is lost or sent twice, as long as    *)
(* there is an instant between two different times.                             *)
EXTENDS ActorSystem, Batcher, SequenceTheorems, WellFoundedInduction, TLAPS

\* As long as the runtime has not decided to stop the actors, none is told to.
NoSignal == phase = "loop" => signals = {}

\* Until then the servers are there: they only stop on a signal, or by a panic.
ServersStay == phase = "loop" /\ ~fault => \A s \in Servers : task[s] \in {"built", "running"}

\* Until then a request is in a box, being processed, or answered, unless its
\* handler has panicked.
NothingDropped ==
  phase = "loop" /\ ~fault =>
    \A a \in Requesters : step[a] = "waiting" =>
      a \in answered \/ a \in panicked \/ a = serving \/ a \in handlers \/ Queued(a)

\* Until then an actor that has failed has failed by itself.
FailureIsFault == phase = "loop" => \A a \in Actors : task[a] = "err" => fault

\* The shutdown processed by the runtime has been requested.
ShutdownAsked == \A i \in DOMAIN actions : actions[i] = "shutdown" => asked

\* Why the runtime has left its main loop.
Reason == (aborting => fault) /\ (phase # "loop" => asked \/ aborting)

IndInv ==
  /\ TypeOK /\ NoSignal /\ ServersStay /\ NothingDropped /\ FailureIsFault
  /\ ShutdownAsked /\ Reason

------------------------------------------------------------------------------
(* Sequences.                                                                  *)

LEMMA HeadAndTail ==
  ASSUME NEW S, NEW q \in Seq(S), q # <<>>
  PROVE  /\ Head(q) \in S /\ Tail(q) \in Seq(S) /\ Len(Tail(q)) = Len(q) - 1
         /\ \A i \in DOMAIN q : q[i] = Head(q) \/ \E j \in DOMAIN Tail(q) : Tail(q)[j] = q[i]
         /\ \A j \in DOMAIN Tail(q) : \E i \in DOMAIN q : q[i] = Tail(q)[j]
<1>1. Head(q) \in S /\ Tail(q) \in Seq(S) /\ Len(Tail(q)) = Len(q) - 1
  BY HeadTailProperties
<1>2. /\ DOMAIN q = 1 .. Len(q) /\ DOMAIN Tail(q) = 1 .. Len(q) - 1 /\ Len(q) \in Nat
      /\ \A j \in 1 .. Len(q) - 1 : Tail(q)[j] = q[j + 1]
  BY HeadTailProperties
<1>3. ASSUME NEW i \in DOMAIN q, q[i] # Head(q)
      PROVE  \E j \in DOMAIN Tail(q) : Tail(q)[j] = q[i]
  <2>1. i # 1
    BY <1>3
  <2>2. i - 1 \in 1 .. Len(q) - 1 /\ (i - 1) + 1 = i
    BY <1>2, <2>1
  <2> QED
    BY <1>2, <2>2
<1>4. ASSUME NEW j \in DOMAIN Tail(q) PROVE \E i \in DOMAIN q : q[i] = Tail(q)[j]
  <2>1. j + 1 \in DOMAIN q
    BY <1>2
  <2> QED
    BY <1>2, <2>1
<1> QED
  BY <1>1, <1>3, <1>4

LEMMA Appended ==
  ASSUME NEW S, NEW q \in Seq(S), NEW x \in S
  PROVE  /\ Append(q, x) \in Seq(S) /\ Len(Append(q, x)) = Len(q) + 1
         /\ \A i \in DOMAIN q : i \in DOMAIN Append(q, x) /\ Append(q, x)[i] = q[i]
         /\ Len(q) + 1 \in DOMAIN Append(q, x) /\ Append(q, x)[Len(q) + 1] = x
         /\ \A i \in DOMAIN Append(q, x) : i \in DOMAIN q \/ Append(q, x)[i] = x
  BY AppendProperties

------------------------------------------------------------------------------
(* The steps of the runtime.                                                   *)

LEMMA RuntimeStep ==
  ASSUME IndInv, RuntimeSteps \/ SendSpawn \/ SendShutdown \/ CleanupTimeout, Others
  PROVE  IndInv'
<1> USE DEF IndInv
<1>1. UNCHANGED <<step, to, box, serving, handlers, ended, answered, panicked, fault>>
  BY DEF Others, messageVars
<1>2. phase' = "loop" => phase = "loop"
  BY DEF RuntimeSteps, SendSpawn, SendShutdown, CleanupTimeout, TakeSpawn, TakeShutdown,
         TakeFinished, Tell, AllTold, AwaitFinished, AllFinished
<1>3. NothingDropped'
  BY <1>1, <1>2 DEF NothingDropped, Queued
<1>4. CASE SendSpawn
  <2>1. SpawnOrder[spawned + 1] \in Actors \ {"shutdown"}
    BY <1>4, RuntimeAssumption DEF SendSpawn, TypeOK, RuntimeTypeOK, Actors
  <2>2. TypeOK' /\ ShutdownAsked'
    BY <1>1, <1>4, <2>1, RuntimeAssumption, Appended
    DEF SendSpawn, TypeOK, RuntimeTypeOK, ShutdownAsked
  <2> QED
    BY <1>1, <1>3, <1>4, <2>2
    DEF SendSpawn, NoSignal, ServersStay, FailureIsFault, Reason
<1>5. CASE SendShutdown
  BY <1>1, <1>3, <1>5, Appended
  DEF SendShutdown, TypeOK, RuntimeTypeOK, NoSignal, ServersStay, FailureIsFault,
      ShutdownAsked, Reason
<1>6. CASE TakeSpawn
  <2>1. Head(actions) \in Actors /\ TypeOK' /\ ShutdownAsked'
    BY <1>1, <1>6, HeadAndTail DEF TakeSpawn, TypeOK, RuntimeTypeOK, ShutdownAsked
  <2> QED
    BY <1>1, <1>3, <1>6, <2>1
    DEF TakeSpawn, TypeOK, RuntimeTypeOK, NoSignal, ServersStay, FailureIsFault, Reason
<1>7. CASE TakeShutdown
  <2>1. TypeOK' /\ ShutdownAsked'
    BY <1>1, <1>7, HeadAndTail DEF TakeShutdown, TypeOK, RuntimeTypeOK, ShutdownAsked
  <2>2. asked
    BY <1>7 DEF TakeShutdown, TypeOK, RuntimeTypeOK, ShutdownAsked
  <2> QED
    BY <1>1, <1>3, <1>7, <2>1, <2>2
    DEF TakeShutdown, NoSignal, ServersStay, FailureIsFault, Reason
<1>8. ASSUME NEW a \in Actors, TakeFinished(a) PROVE IndInv'
  <2>1. TypeOK' /\ ShutdownAsked' /\ NoSignal'
    BY <1>1, <1>8
    DEF TakeFinished, TypeOK, RuntimeTypeOK, ShutdownAsked, NoSignal
  <2>2. ServersStay' /\ FailureIsFault' /\ Reason'
    BY <1>1, <1>8
    DEF TakeFinished, TypeOK, RuntimeTypeOK, Finished, ServersStay, FailureIsFault, Reason
  <2> QED
    BY <1>3, <2>1, <2>2
<1>9. ASSUME NEW a \in Actors, Tell(a) \/ AwaitFinished(a) PROVE IndInv'
  <2>1. TypeOK'
    BY <1>1, <1>9 DEF Tell, AwaitFinished, TypeOK, RuntimeTypeOK
  <2>2. NoSignal' /\ ServersStay' /\ FailureIsFault' /\ ShutdownAsked' /\ Reason'
    BY <1>1, <1>9
    DEF Tell, AwaitFinished, NoSignal, ServersStay, FailureIsFault, ShutdownAsked, Reason
  <2> QED
    BY <1>3, <2>1, <2>2
<1>10. CASE AllTold \/ AllFinished \/ CleanupTimeout
  BY <1>1, <1>3, <1>10
  DEF AllTold, AllFinished, CleanupTimeout, TypeOK, RuntimeTypeOK, NoSignal, ServersStay,
      FailureIsFault, ShutdownAsked, Reason
<1> QED
  BY <1>4, <1>5, <1>6, <1>7, <1>8, <1>9, <1>10 DEF RuntimeSteps

------------------------------------------------------------------------------
(* The steps of the clients.                                                   *)

\* What a step that leaves the runtime alone has to preserve.
LEMMA MessageStep ==
  ASSUME IndInv, UNCHANGED runtimeVars, UNCHANGED fault,
         TypeOK', NothingDropped'
  PROVE  IndInv'
  BY DEF IndInv, runtimeVars, NoSignal, ServersStay, FailureIsFault, ShutdownAsked, Reason

LEMMA ClientStep ==
  ASSUME IndInv, NEW c \in Clients,
         ClientRequests(c) \/ ClientAnswered(c)
  PROVE  IndInv'
<1> USE DEF IndInv
<1>1. c \in Requesters /\ c # "proxy"
  BY SystemAssumption DEF Requesters, Servers
<1>2. CASE ClientRequests(c)
  <2>1. PICK s \in Servers : to' = [to EXCEPT ![c] = s]
    BY <1>2 DEF ClientRequests
  <2>2. TypeOK'
    BY <1>1, <1>2, <2>1 DEF ClientRequests, TypeOK, RuntimeTypeOK, runtimeVars, Requesters
  <2>3. \A a \in Requesters : step'[a] = "waiting" => step[a] = "waiting"
    BY <1>1, <1>2 DEF ClientRequests, TypeOK
  <2>4. NothingDropped'
    BY <1>2, <2>3 DEF ClientRequests, runtimeVars, NothingDropped, Queued
  <2> QED
    BY <1>2, <2>2, <2>4, MessageStep DEF ClientRequests
<1>3. CASE ClientAnswered(c)
  <2>1. TypeOK'
    BY <1>1, <1>3 DEF ClientAnswered, TypeOK, RuntimeTypeOK, runtimeVars
  <2>2. \A a \in Requesters : step'[a] = "waiting" => step[a] = "waiting" /\ a # c
    BY <1>1, <1>3 DEF ClientAnswered, TypeOK
  <2>3. NothingDropped'
    BY <1>3, <2>2 DEF ClientAnswered, runtimeVars, NothingDropped, Queued
  <2> QED
    BY <1>3, <2>1, <2>3, MessageStep DEF ClientAnswered
<1> QED
  BY <1>2, <1>3

LEMMA SendStep ==
  ASSUME IndInv, NEW a \in Requesters, Send(a)
  PROVE  IndInv'
<1> USE DEF IndInv
<1>1. /\ to[a] \in Servers /\ box[to[a]] \in Seq(Requesters)
      /\ Append(box[to[a]], a) \in Seq(Requesters)
      /\ Len(Append(box[to[a]], a)) = Len(box[to[a]]) + 1
  BY Appended DEF TypeOK
<1>2. to[a] = "proxy" => a \in Clients /\ Append(box["proxy"], a) \in Seq(Clients)
  BY Appended DEF TypeOK, Requesters
<1>3. Len(box[to[a]]) + 1 <= Capacity
  BY <1>1, SystemAssumption DEF Send, TypeOK
<1>4. TypeOK'
  BY <1>1, <1>2, <1>3 DEF Send, TypeOK, RuntimeTypeOK, runtimeVars, Servers
<1>5. ASSUME NEW b \in Requesters, Queued(b) \/ b = a PROVE Queued(b)'
  <2>1. /\ box' = [box EXCEPT ![to[a]] = Append(box[to[a]], a)]
        /\ box \in [Servers -> Seq(Requesters)]
    BY DEF Send, TypeOK
  <2>2. CASE b = a
    BY <1>1, <2>1, <2>2, Appended DEF Queued
  <2>3. CASE Queued(b)
    <3>1. PICK s \in Servers : \E i \in DOMAIN box[s] : box[s][i] = b
      BY <2>3 DEF Queued
    <3>2. \E i \in DOMAIN box'[s] : box'[s][i] = b
      BY <1>1, <2>1, <3>1, Appended
    <3> QED
      BY <3>2 DEF Queued
  <2> QED
    BY <1>5, <2>2, <2>3
<1>6. NothingDropped'
  BY <1>5 DEF Send, NothingDropped, TypeOK, runtimeVars
<1> QED
  BY <1>4, <1>6, MessageStep DEF Send

\* The end of a client: its failure is a fault of its own as long as no request
\* is dropped.
LEMMA ClientEndStep ==
  ASSUME IndInv, NEW c \in Clients, NEW outcome \in Finished, ClientEnds(c, outcome),
         fault' \in BOOLEAN, fault => fault',
         outcome = "err" /\ phase = "loop" => fault'
  PROVE  IndInv'
<1> USE DEF IndInv
<1>1. c \in Requesters /\ c \in Actors /\ c \notin Servers
  BY SystemAssumption DEF Requesters
<1>2. TypeOK'
  BY <1>1 DEF ClientEnds, Ends, TypeOK, RuntimeTypeOK, Finished
<1>3. NothingDropped'
  BY <1>1 DEF ClientEnds, Ends, TypeOK, NothingDropped, Queued
<1>4. NoSignal' /\ ServersStay' /\ ShutdownAsked'
  BY <1>1 DEF ClientEnds, Ends, TypeOK, RuntimeTypeOK, NoSignal, ServersStay, ShutdownAsked
<1>5. FailureIsFault' /\ Reason'
  BY <1>1 DEF ClientEnds, Ends, TypeOK, RuntimeTypeOK, FailureIsFault, Reason
<1> QED
  BY <1>2, <1>3, <1>4, <1>5

LEMMA ClientStopStep ==
  ASSUME IndInv, NEW c \in Clients,
         ClientStops(c) \/ ClientUnanswered(c) \/ ClientCompletes(c) \/ ClientFails(c)
  PROVE  IndInv'
<1>1. fault \in BOOLEAN /\ c \in Requesters /\ c \in Actors /\ c \notin Servers
  BY SystemAssumption DEF IndInv, TypeOK, Requesters
<1>2. CASE ClientStops(c) \/ ClientCompletes(c) \/ ClientFails(c)
  BY <1>1, <1>2, ClientEndStep DEF ClientStops, ClientCompletes, ClientFails, Finished
<1>3. CASE ClientUnanswered(c)
  <2>1. phase = "loop" => fault \/ c \in panicked
    BY <1>1, <1>3
    DEF ClientUnanswered, Dropped, IsOpen, IndInv, TypeOK, ServersStay, NothingDropped
  <2>2. CASE ClientEnds(c, "err") /\ fault' = (fault \/ c \in panicked)
    <3>1. fault' \in BOOLEAN /\ (fault => fault') /\ (phase = "loop" => fault')
      BY <1>1, <2>1, <2>2
    <3> QED
      BY <2>2, <3>1, ClientEndStep DEF Finished
  <2>3. CASE ~(ClientEnds(c, "err") /\ fault' = (fault \/ c \in panicked))
    <3>1. /\ UNCHANGED <<runtimeVars, to, box, serving, handlers, ended, answered, fault>>
          /\ step' = [step EXCEPT ![c] = "idle"] /\ panicked' = panicked \ {c}
      BY <1>3, <2>3 DEF ClientUnanswered
    <3>2. TypeOK' /\ NothingDropped'
      BY <1>1, <3>1
      DEF IndInv, TypeOK, RuntimeTypeOK, runtimeVars, NothingDropped, Queued
    <3> QED
      BY <3>1, <3>2, MessageStep
  <2> QED
    BY <2>2, <2>3
<1> QED
  BY <1>2, <1>3
------------------------------------------------------------------------------
(* The steps of the servers.                                                   *)

\* The first request of a box is taken: the others are still in it.
LEMMA Taken ==
  ASSUME TypeOK, NEW s \in Servers, box[s] # <<>>, box' = [box EXCEPT ![s] = Tail(@)]
  PROVE  /\ Head(box[s]) \in Requesters /\ box' \in [Servers -> Seq(Requesters)]
         /\ \A r \in Servers : Len(box'[r]) <= Capacity
         /\ Head(box["proxy"]) \in Clients \/ s # "proxy"
         /\ box'["proxy"] \in Seq(Clients)
         /\ \A a \in Requesters : Queued(a) => a = Head(box[s]) \/ Queued(a)'
<1>1. box \in [Servers -> Seq(Requesters)] /\ box["proxy"] \in Seq(Clients)
  BY DEF TypeOK
<1>2. /\ Head(box[s]) \in Requesters /\ Tail(box[s]) \in Seq(Requesters)
      /\ Len(Tail(box[s])) = Len(box[s]) - 1
      /\ s = "proxy" => Head(box[s]) \in Clients /\ Tail(box[s]) \in Seq(Clients)
  BY <1>1, HeadAndTail
<1>3. ASSUME NEW r \in Servers PROVE Len(box'[r]) <= Capacity
  BY <1>1, <1>2, SystemAssumption DEF TypeOK
<1>4. ASSUME NEW a \in Requesters, Queued(a), a # Head(box[s]) PROVE Queued(a)'
  <2>1. PICK r \in Servers : \E i \in DOMAIN box[r] : box[r][i] = a
    BY <1>4 DEF Queued
  <2>2. \E i \in DOMAIN box'[r] : box'[r][i] = a
    BY <1>1, <1>4, <2>1, HeadAndTail
  <2> QED
    BY <2>2 DEF Queued
<1>5. box'["proxy"] \in Seq(Clients)
  BY <1>1, <1>2 DEF Servers
<1> QED
  BY <1>1, <1>2, <1>3, <1>4, <1>5

LEMMA ReceiveStep ==
  ASSUME IndInv, ProxyReceives \/ HttpReceives
  PROVE  IndInv'
<1> USE DEF IndInv
<1>1. CASE ProxyReceives
  <2>1. "proxy" \in Servers /\ "proxy" \in Requesters
    BY DEF Servers, Requesters
  <2>2. TypeOK'
    BY <1>1, <2>1, Taken DEF ProxyReceives, TypeOK, RuntimeTypeOK, runtimeVars
  <2>3. NothingDropped'
    <3>1. \A a \in Requesters : Queued(a) => a = serving' \/ Queued(a)'
      BY <1>1, <2>1, Taken DEF ProxyReceives
    <3>2. \A a \in Requesters : a # serving
      BY <1>1, SystemAssumption DEF ProxyReceives, Requesters, None
    <3> QED
      BY <1>1, <2>1, <3>1, <3>2 DEF ProxyReceives, NothingDropped, TypeOK, runtimeVars
  <2> QED
    BY <1>1, <2>2, <2>3, MessageStep DEF ProxyReceives
<1>2. CASE HttpReceives
  <2>1. "http" \in Servers
    BY DEF Servers
  <2>2. TypeOK'
    BY <1>2, <2>1, Taken DEF HttpReceives, TypeOK, RuntimeTypeOK, runtimeVars
  <2>3. NothingDropped'
    BY <1>2, <2>1, Taken DEF HttpReceives, NothingDropped, TypeOK, runtimeVars
  <2> QED
    BY <1>2, <2>2, <2>3, MessageStep DEF HttpReceives
<1> QED
  BY <1>1, <1>2

LEMMA ReplyStep ==
  ASSUME IndInv,
         ProxyReplies \/ HandlerJoined \/ \E a \in Requesters : HandlerEnds(a) \/ HandlerPanics(a)
  PROVE  IndInv'
<1> USE DEF IndInv
<1>1. CASE ProxyReplies
  <2>1. "proxy" \in Requesters /\ serving \in Clients /\ serving \in Requesters /\ serving # "proxy"
    BY <1>1, SystemAssumption DEF ProxyReplies, TypeOK, Requesters, Servers
  <2>2. TypeOK'
    BY <1>1, <2>1 DEF ProxyReplies, Reply, TypeOK, RuntimeTypeOK, runtimeVars
  <2>3. NothingDropped'
    BY <1>1, <2>1 DEF ProxyReplies, Reply, NothingDropped, TypeOK, runtimeVars, Queued
  <2> QED
    BY <1>1, <2>2, <2>3, MessageStep DEF ProxyReplies
<1>2. CASE HandlerJoined
  <2>1. TypeOK' /\ NothingDropped'
    BY <1>2 DEF HandlerJoined, NothingDropped, TypeOK, RuntimeTypeOK, runtimeVars, Queued
  <2> QED
    BY <1>2, <2>1, MessageStep DEF HandlerJoined
<1>3. ASSUME NEW a \in Requesters, HandlerEnds(a) PROVE IndInv'
  <2>1. TypeOK'
    BY <1>3 DEF HandlerEnds, Reply, TypeOK, RuntimeTypeOK, runtimeVars
  <2>2. NothingDropped'
    BY <1>3 DEF HandlerEnds, Reply, NothingDropped, TypeOK, runtimeVars, Queued
  <2> QED
    BY <1>3, <2>1, <2>2, MessageStep DEF HandlerEnds
<1>4. ASSUME NEW a \in Requesters, HandlerPanics(a) PROVE IndInv'
  <2>1. TypeOK'
    BY <1>4 DEF HandlerPanics, Reply, TypeOK, RuntimeTypeOK, runtimeVars
  <2>2. NothingDropped'
    BY <1>4 DEF HandlerPanics, Reply, NothingDropped, TypeOK, runtimeVars, Queued
  <2> QED
    BY <1>4, <2>1, <2>2, MessageStep DEF HandlerPanics
<1> QED
  BY <1>1, <1>2, <1>3, <1>4

\* A server ends on a signal, hence once the runtime has left its main loop, or by
\* a panic, which is a fault.
LEMMA ServerStopStep ==
  ASSUME IndInv, ProxyStops \/ ProxyPanics \/ HttpStops
  PROVE  IndInv'
<1> USE DEF IndInv
<1>1. /\ phase' = phase /\ fault' \in BOOLEAN /\ (fault => fault')
      /\ phase # "loop" \/ fault'
  BY DEF ProxyStops, ProxyPanics, ProxyEnds, HttpStops, Interrupted, Ends, NoSignal, TypeOK
<1>2. "proxy" \in Actors /\ "http" \in Actors /\ "proxy" \in Requesters /\ "proxy" \in Servers
  BY SystemAssumption DEF Servers, Requesters
<1>3. RuntimeTypeOK'
  BY <1>2 DEF ProxyStops, ProxyPanics, ProxyEnds, HttpStops, Ends, TypeOK, RuntimeTypeOK, Finished
<1>4. ASSUME NEW s \in Servers, box' = [box EXCEPT ![s] = <<>>]
      PROVE  /\ box' \in [Servers -> Seq(Requesters)] /\ \A r \in Servers : Len(box'[r]) <= Capacity
             /\ box'["proxy"] \in Seq(Clients)
  <2>1. <<>> \in Seq(Requesters) /\ <<>> \in Seq(Clients) /\ Len(<<>>) = 0 /\ 0 <= Capacity
    BY SystemAssumption
  <2>2. box \in [Servers -> Seq(Requesters)] /\ box["proxy"] \in Seq(Clients)
    BY DEF TypeOK
  <2>3. ASSUME NEW r \in Servers PROVE Len(box'[r]) <= Capacity
    BY <1>4, <2>1, <2>2 DEF TypeOK
  <2> QED
    BY <1>2, <1>4, <2>1, <2>2, <2>3
<1>5. TypeOK'
  <2>1. CASE HttpStops
    BY <1>2, <1>3, <1>4, <2>1 DEF HttpStops, Ends, TypeOK, Servers
  <2>2. CASE ProxyStops \/ ProxyPanics
    BY <1>1, <1>2, <1>3, <1>4, <2>2 DEF ProxyStops, ProxyPanics, ProxyEnds, TypeOK
  <2> QED
    BY <2>1, <2>2
<1>6. NoSignal' /\ ShutdownAsked' /\ Reason'
  BY <1>1
  DEF ProxyStops, ProxyPanics, ProxyEnds, HttpStops, Ends, NoSignal, ShutdownAsked, Reason
<1>7. ServersStay' /\ NothingDropped' /\ FailureIsFault'
  BY <1>1 DEF ServersStay, NothingDropped, FailureIsFault
<1> QED
  BY <1>5, <1>6, <1>7

------------------------------------------------------------------------------

LEMMA InvInit == Init => IndInv
<1> SUFFICES ASSUME Init PROVE IndInv
  OBVIOUS
<1>1. Len(SpawnOrder) \in Nat /\ actions = <<>> /\ DOMAIN actions = {}
  BY RuntimeAssumption DEF Init, RuntimeInit
<1>2. RuntimeTypeOK
  <2>1. spawned \in 0 .. Len(SpawnOrder)
    BY <1>1 DEF Init, RuntimeInit
  <2>2. task \in [Actors -> {"built", "running", "joined"} \cup Finished]
    BY DEF Init, RuntimeInit
  <2>3. actions \in Seq(Actors \cup {"shutdown"})
    BY <1>1
  <2> QED
    BY <2>1, <2>2, <2>3 DEF Init, RuntimeInit, RuntimeTypeOK
<1>3. box \in [Servers -> Seq(Requesters)] /\ box["proxy"] \in Seq(Clients)
  BY DEF Init, Servers
<1>4. TypeOK
  <2>1. \A s \in Servers : Len(box[s]) <= Capacity
    BY SystemAssumption DEF Init
  <2>2. /\ step \in [Requesters -> {"idle", "sending", "waiting"}]
        /\ to \in [Requesters -> Servers] /\ to["proxy"] = "http"
    BY DEF Init, Servers, Requesters
  <2> QED
    BY <1>2, <1>3, <2>1, <2>2 DEF Init, TypeOK
<1>5. ServersStay /\ FailureIsFault
  BY SystemAssumption DEF Init, RuntimeInit, ServersStay, FailureIsFault
<1>6. NoSignal /\ ShutdownAsked /\ Reason
  BY <1>1 DEF Init, RuntimeInit, NoSignal, ShutdownAsked, Reason
<1>7. NothingDropped
  BY DEF Init, NothingDropped
<1> QED
  BY <1>4, <1>5, <1>6, <1>7 DEF IndInv

LEMMA InvNext == IndInv /\ [Next]_vars => IndInv'
<1> SUFFICES ASSUME IndInv, [Next]_vars PROVE IndInv'
  OBVIOUS
<1>1. CASE UNCHANGED vars
  <2>1. UNCHANGED <<runtimeVars, messageVars, fault>>
    BY <1>1 DEF vars
  <2>2. UNCHANGED <<step, to, box, serving, handlers, ended, answered, panicked>>
    BY <2>1 DEF messageVars
  <2>3. RuntimeTypeOK'
    BY <2>1 DEF runtimeVars, IndInv, TypeOK, RuntimeTypeOK
  <2>4. TypeOK' /\ NothingDropped'
    BY <2>1, <2>2, <2>3 DEF runtimeVars, IndInv, TypeOK, NothingDropped, Queued
  <2> QED
    BY <2>1, <2>4, MessageStep
<1>2. CASE Next
  <2>1. Exited => UNCHANGED vars
    BY DEF Exited
  <2> QED
    BY <1>1, <1>2, <2>1, RuntimeStep, ClientStep, SendStep, ClientStopStep, ReceiveStep, ReplyStep,
       ServerStopStep DEF Next
<1> QED
  BY <1>1, <1>2

\* The inductive invariant: but for a panic, no request is dropped and no server is
\* stopped before the runtime has decided to stop them all.
THEOREM Invariance == Spec => []IndInv
  BY InvInit, InvNext, PTL DEF Spec

\* The process ends with a failure only if an actor has failed by itself, or after a
\* panic of a handler, never because its peers were stopped before it; and, unless a shutdown was requested, it
\* ends because of such a failure (run of RuntimeActor).
THEOREM OutcomeIsTrue == Spec => []OutcomeTrue
<1>1. IndInv => OutcomeTrue
  BY DEF IndInv, Reason, OutcomeTrue
<1> QED
  BY <1>1, Invariance, PTL

------------------------------------------------------------------------------
(* The batcher.                                                                *)

Batches == [start : Nat, end : Nat, events : SUBSET Events]

\* A batch as the mapper expects it.
Good(b) ==
  /\ \A e, f \in b.events : e.key = f.key => e = f
  /\ \A e \in b.events : b.start <= e.time /\ e.time <= b.end
  /\ b.start <= b.end /\ b.end <= b.start + EventJitter

\* Two batches share at most a bound.
Apart(b, c) == b.end <= c.start \/ c.end <= b.start

\* The batches of the batcher and those it has sent. An open batch may be equal to
\* one already sent, when its interval is a single instant.
Tidy(open, sent) ==
  /\ open \subseteq Batches /\ sent \subseteq Batches
  /\ \A b \in open \cup sent : Good(b)
  /\ \A b, c \in open : b # c => Apart(b, c)
  /\ \A b, c \in sent : b # c => Apart(b, c)
  /\ \A b \in open, c \in sent : Apart(b, c)

\* As long as the driver runs, it only sends batches no event is expected for.
SentInTime == driving => \A b \in delivered : b.end + DeliveryJitter <= now

BatchInv == BatchTypeOK /\ Tidy(batches, delivered) /\ SentInTime /\ Timed

\* The events taken are in some batch.
Stored == \A e \in accepted : \E b \in All : e \in b.events

\* There is an instant between two different times of the events: a time received
\* from collectd is a number of seconds as a 64-bit float, hence a multiple of more
\* than 200 ns since 2004, while the batcher splits intervals to the nanosecond.
Spaced == \A s, t \in Times : s # t + 1

------------------------------------------------------------------------------
(* The operators.                                                              *)

LEMMA MinOfNaturals ==
  ASSUME NEW S, S \subseteq Nat, S # {}
  PROVE  Min(S) \in S /\ \A y \in S : Min(S) <= y
<1>1. PICK x \in S : \A y \in S : ~(<<y, x>> \in OpToRel(<, Nat))
  BY NatLessThanWellFounded, WFMin
<1>2. ASSUME NEW y \in S PROVE x <= y
  <2>1. x \in Nat /\ y \in Nat /\ <<y, x>> \in Nat \X Nat
    OBVIOUS
  <2>2. ~(<<y, x>>[1] < <<y, x>>[2])
    BY <1>1, <2>1, Zenon DEF OpToRel
  <2> QED
    BY <2>1, <2>2
<1> QED
  BY <1>2 DEF Min

\* The midpoint separates two different times, but for the one that is later by 1.
LEMMA MidpointSeparates ==
  ASSUME NEW existing \in Nat, NEW new \in Nat, existing # new
  PROVE  /\ Midpoint(existing, new) \in Nat
         /\ existing > new => new <= Midpoint(existing, new) /\ Midpoint(existing, new) <= existing
         /\ existing < new => existing < Midpoint(existing, new) /\ Midpoint(existing, new) <= new
         /\ existing > new + 1 => new < Midpoint(existing, new)
  BY DEF Midpoint

\* make_new_batch
LEMMA NewBatchIsGood ==
  ASSUME BatchInv, driving, NEW e \in Events, ~TooOld(e), Targets(e) = {}
  PROVE  /\ NewBatch(e) \in Batches /\ Good(NewBatch(e)) /\ NewBatch(e).start = e.time
         /\ NewBatch(e).events = {e}
         /\ \A b \in batches \cup delivered : Apart(NewBatch(e), b)
<1> DEFINE nexts == {b.start : b \in {c \in batches : c.start > e.time}}
           S == {e.time + EventJitter} \cup nexts
<1> USE DEF BatchInv
<1>1. e.time \in Nat /\ EventJitter \in Nat /\ DeliveryJitter \in Nat /\ now \in Nat
  <2>1. e.time \in Nat
    BY BatchAssumption DEF Events
  <2> QED
    BY <2>1, BatchAssumption DEF BatchTypeOK
<1>2. batches \subseteq Batches /\ delivered \subseteq Batches
  BY DEF Tidy
<1>3. \A b \in batches \cup delivered : b.start \in Nat /\ b.end \in Nat
  BY <1>2 DEF Batches
<1>4. Min(S) \in S /\ \A y \in S : Min(S) <= y
  <2>1. S \subseteq Nat /\ S # {}
    BY <1>1, <1>3
  <2> QED
    BY <2>1, MinOfNaturals
<1>5. NewBatch(e) = [start |-> e.time, end |-> Min(S), events |-> {e}]
  BY DEF NewBatch, Batch
<1>6. Min(S) \in Nat /\ e.time <= Min(S) /\ Min(S) <= e.time + EventJitter
  BY <1>1, <1>3, <1>4
<1> HIDE DEF S
<1>7. NewBatch(e) \in Batches /\ Good(NewBatch(e))
  BY <1>1, <1>5, <1>6 DEF Batches, Good
<1>8. ASSUME NEW b \in batches PROVE Apart(NewBatch(e), b)
  <2>1. CASE b.start > e.time
    BY <1>3, <1>4, <1>5, <2>1 DEF S, Apart
  <2>2. CASE ~(b.start > e.time)
    BY <1>1, <1>3, <1>5, <2>2 DEF Targets, Apart
  <2> QED
    BY <2>1, <2>2
<1>9. ASSUME NEW b \in delivered PROVE Apart(NewBatch(e), b)
  BY <1>1, <1>3, <1>5 DEF SentInTime, TooOld, Apart
<1> QED
  BY <1>5, <1>7, <1>8, <1>9

\* Batch::split: two batches sharing the midpoint, within the bounds of the batch.
LEMMA SplitIsGood ==
  ASSUME NEW b \in Batches, Good(b), NEW e \in Events, NEW f \in b.events,
         b.start <= e.time, e.time <= b.end, f.key = e.key, f.time # e.time
  PROVE  LET halves == Split(b, f, e)
         IN  /\ halves[1] \in Batches /\ Good(halves[1]) /\ halves[1].start = b.start
             /\ halves[2] \in Batches /\ Good(halves[2]) /\ halves[2].end = b.end
             /\ halves[1].end = halves[2].start
             /\ b.start <= halves[1].end /\ halves[1].end <= b.end
<1> DEFINE point == Midpoint(f.time, e.time)
<1>1. /\ b.start \in Nat /\ b.end \in Nat /\ b.events \subseteq Events /\ f \in Events
      /\ e.time \in Nat /\ f.time \in Nat /\ b.start <= f.time /\ f.time <= b.end
      /\ EventJitter \in Nat /\ \A g \in Events : g.time \in Nat
  BY BatchAssumption DEF Batches, Events, Good
<1>2. point \in Nat /\ b.start <= point /\ point <= b.end
  <2>1. /\ point \in Nat
        /\ f.time > e.time => e.time <= point /\ point <= f.time
        /\ f.time < e.time => f.time < point /\ point <= e.time
    BY <1>1, MidpointSeparates
  <2> HIDE DEF point
  <2> QED
    BY <1>1, <2>1
<1> HIDE DEF point
<1>3. ASSUME NEW from, from \subseteq b.events \cup {e}
      PROVE  /\ Insert(from, e) \subseteq from
             /\ \A g, h \in Insert(from, e) : g.key = h.key => g = h
  BY <1>3 DEF Insert, Good
<1>4. Before(b, e, point) \subseteq {g \in b.events \cup {e} : g.time < point}
  BY <1>3 DEF Before
<1>5. After(b, e, point) \subseteq {g \in b.events \cup {e} : g.time >= point}
  BY <1>3 DEF After
<1>6. /\ \A g, h \in Before(b, e, point) : g.key = h.key => g = h
      /\ \A g, h \in After(b, e, point) : g.key = h.key => g = h
  BY <1>3 DEF Before, After
<1> DEFINE lower == [start |-> b.start, end |-> point, events |-> Before(b, e, point)]
           upper == [start |-> point, end |-> b.end, events |-> After(b, e, point)]
<1>7. Split(b, f, e) = <<lower, upper>>
  BY DEF Split, Batch, point
<1>8. lower \in Batches /\ Good(lower)
  <2>1. \A g \in Before(b, e, point) : b.start <= g.time /\ g.time <= point
    BY <1>1, <1>2, <1>4 DEF Good
  <2>2. Before(b, e, point) \subseteq Events
    BY <1>1, <1>4
  <2>3. point <= b.start + EventJitter
    BY <1>1, <1>2 DEF Good
  <2> QED
    BY <1>1, <1>2, <1>6, <2>1, <2>2, <2>3 DEF Batches, Good
<1>9. upper \in Batches /\ Good(upper)
  <2>1. \A g \in After(b, e, point) : point <= g.time /\ g.time <= b.end
    BY <1>1, <1>2, <1>5 DEF Good
  <2>2. After(b, e, point) \subseteq Events
    BY <1>1, <1>5
  <2>3. b.end <= point + EventJitter
    BY <1>1, <1>2 DEF Good
  <2> QED
    BY <1>1, <1>2, <1>6, <2>1, <2>2, <2>3 DEF Batches, Good
<1> QED
  BY <1>2, <1>7, <1>8, <1>9

\* No event is lost by a split between times that are not next to each other.
LEMMA SplitKeeps ==
  ASSUME Spaced, NEW b \in Batches, Good(b), NEW e \in Events, NEW f \in b.events,
         f.key = e.key, f.time # e.time
  PROVE  LET halves == Split(b, f, e)
         IN  \A g \in b.events \cup {e} : g \in halves[1].events \/ g \in halves[2].events
<1> DEFINE point == Midpoint(f.time, e.time)
<1>1. /\ b.events \subseteq Events /\ f \in Events /\ e.time \in Times /\ f.time \in Times
      /\ Times \subseteq Nat /\ \A g \in Events : g.time \in Nat
  BY BatchAssumption DEF Batches, Events
<1>2. /\ point \in Nat
      /\ \/ f.time < point /\ point <= e.time
         \/ e.time < point /\ point <= f.time
  <2>1. f.time \in Nat /\ e.time \in Nat
    BY <1>1
  <2>2. /\ point \in Nat
        /\ f.time < e.time => f.time < point /\ point <= e.time
        /\ f.time > e.time => point <= f.time
        /\ f.time > e.time + 1 => e.time < point
    BY <2>1, MidpointSeparates
  <2>3. f.time # e.time + 1
    BY <1>1 DEF Spaced
  <2> HIDE DEF point
  <2> QED
    BY <2>1, <2>2, <2>3
<1> HIDE DEF point
<1>3. \A g \in b.events : g.key = e.key => g = f
  BY DEF Good
<1>4. \A g \in b.events \cup {e} : g \in Before(b, e, point) \/ g \in After(b, e, point)
  BY <1>1, <1>2, <1>3 DEF Before, After, Insert
<1>5. /\ Split(b, f, e)[1].events = Before(b, e, point)
      /\ Split(b, f, e)[2].events = After(b, e, point)
  BY DEF Split, Batch, point
<1> QED
  BY <1>4, <1>5
------------------------------------------------------------------------------
(* The batches.                                                                *)

\* Batches closed by the time are sent.
LEMMA CloseIsTidy ==
  ASSUME NEW all, NEW sent, Tidy(all, sent)
  PROVE  Tidy({b \in all : Open(b)}, sent \cup {b \in all : ~Open(b)})
  BY DEF Tidy, Apart

\* A batch is replaced by one or two, within its bounds.
LEMMA ReplaceIsTidy ==
  ASSUME NEW all, NEW sent, Tidy(all, sent), NEW b \in all,
         NEW g \in Batches, NEW h \in Batches, Good(g), Good(h),
         b.start <= g.start, g.end <= b.end, b.start <= h.start, h.end <= b.end,
         g # h => Apart(g, h)
  PROVE  Tidy((all \ {b}) \cup {g, h}, sent)
<1>1. \A c \in all \cup sent \cup {g, h} : c.start \in Nat /\ c.end \in Nat
  BY DEF Tidy, Batches
<1>2. \A c \in (all \ {b}) \cup sent : Apart(b, c) /\ Apart(c, b)
  BY DEF Tidy, Apart
<1>3. \A c \in (all \ {b}) \cup sent : Apart(g, c) /\ Apart(c, g) /\ Apart(h, c) /\ Apart(c, h)
  BY <1>1, <1>2 DEF Apart
<1>4. g # h => Apart(h, g)
  BY DEF Apart
<1> QED
  BY <1>3, <1>4 DEF Tidy

\* output_for_batch_end, for a batch that is the only one possibly without timer.
LEMMA OutputStep ==
  ASSUME BatchTypeOK, Tidy(batches, delivered), SentInTime, NEW all, NEW end \in Nat,
         Tidy(all, delivered),
         \A b \in all : b.end = end \/ b.end + DeliveryJitter \in timers,
         driving, OutputForBatchEnd(all, end), UNCHANGED <<now, driving>>,
         accepted' \subseteq Events
  PROVE  BatchInv' /\ All' = all \cup delivered
<1>1. now \in Nat /\ DeliveryJitter \in Nat /\ end + DeliveryJitter \in Nat
  BY BatchAssumption DEF BatchTypeOK
<1>2. Tidy(batches', delivered') /\ All' = all \cup delivered
  BY CloseIsTidy DEF OutputForBatchEnd, Close, All
<1>3. BatchTypeOK'
  BY <1>1, <1>2 DEF OutputForBatchEnd, BatchTypeOK, Tidy, Batches, All
<1>4. SentInTime'
  <2>1. \A b \in all : b.end \in Nat
    BY DEF Tidy, Batches
  <2> QED
    BY <1>1, <2>1 DEF OutputForBatchEnd, Close, Open, SentInTime
<1>5. Timed'
  BY <1>1 DEF OutputForBatchEnd, Close, Open, Timed
<1> QED
  BY <1>2, <1>3, <1>4, <1>5 DEF BatchInv

------------------------------------------------------------------------------
(* The steps.                                                                  *)

LEMMA FirstOfBatchStep ==
  ASSUME BatchInv, NEW e \in Events, FirstOfBatch(e)
  PROVE  BatchInv' /\ (Stored => Stored')
<1> DEFINE all == batches \cup {NewBatch(e)}
<1>1. /\ NewBatch(e) \in Batches /\ Good(NewBatch(e)) /\ NewBatch(e).events = {e}
      /\ \A b \in batches \cup delivered : Apart(NewBatch(e), b)
  BY NewBatchIsGood DEF FirstOfBatch
<1>2. Tidy(all, delivered) /\ NewBatch(e).end \in Nat
  BY <1>1 DEF BatchInv, Tidy, Apart, Batches
<1>3. /\ OutputForBatchEnd(all, NewBatch(e).end) /\ driving /\ UNCHANGED <<now, driving>>
      /\ accepted' = accepted \cup {e}
  BY DEF FirstOfBatch
<1>4. \A b \in all : b.end = NewBatch(e).end \/ b.end + DeliveryJitter \in timers
  BY DEF BatchInv, Timed
<1>5. BatchInv' /\ All' = all \cup delivered
  <2>1. accepted' \subseteq Events
    BY <1>3 DEF BatchInv, BatchTypeOK
  <2> HIDE DEF all
  <2> QED
    BY <1>2, <1>3, <1>4, <2>1, OutputStep DEF BatchInv
<1>6. Stored => Stored'
  BY <1>1, <1>3, <1>5 DEF Stored, All
<1> QED
  BY <1>5, <1>6

LEMMA AddedStep ==
  ASSUME BatchInv, NEW e \in Events, Added(e)
  PROVE  BatchInv' /\ (Stored => Stored')
<1>1. PICK b \in Targets(e) :
        /\ \A f \in b.events : f.key # e.key
        /\ batches' = (batches \ {b}) \cup {[b EXCEPT !.events = @ \cup {e}]}
  BY DEF Added
<1> DEFINE g == [b EXCEPT !.events = @ \cup {e}]
<1>2. UNCHANGED <<now, timers, delivered, driving>> /\ accepted' = accepted \cup {e}
  BY DEF Added
<1>3. b \in batches /\ b \in Batches /\ Good(b) /\ b.start <= e.time /\ e.time <= b.end
  BY DEF Targets, BatchInv, Tidy
<1>4. /\ g \in Batches /\ g.start = b.start /\ g.end = b.end /\ g.events = b.events \cup {e}
      /\ b.start \in Nat /\ b.end \in Nat
  BY <1>3 DEF Batches
<1> HIDE DEF g
<1>5. Good(g)
  BY <1>1, <1>3, <1>4 DEF Good
<1>6. batches' = (batches \ {b}) \cup {g, g}
  BY <1>1 DEF g
<1>7. Tidy(batches', delivered')
  <2>1. Tidy((batches \ {b}) \cup {g, g}, delivered)
    BY <1>3, <1>4, <1>5, ReplaceIsTidy DEF BatchInv
  <2> QED
    BY <1>2, <1>6, <2>1
<1>8. BatchTypeOK'
  BY <1>2, <1>7 DEF BatchInv, BatchTypeOK, Tidy, Batches, All
<1>9. SentInTime' /\ Timed'
  BY <1>2, <1>3, <1>4, <1>6 DEF BatchInv, SentInTime, Timed
<1>10. Stored => Stored'
  BY <1>2, <1>3, <1>4, <1>6 DEF Stored, All
<1> QED
  BY <1>7, <1>8, <1>9, <1>10 DEF BatchInv

LEMMA SplitStep ==
  ASSUME BatchInv, NEW e \in Events, SplitBatch(e)
  PROVE  BatchInv' /\ (Spaced /\ Stored => Stored')
<1>1. PICK b \in Targets(e) : \E f \in b.events :
        /\ f.key = e.key /\ f.time # e.time
        /\ OutputForBatchEnd((batches \ {b}) \cup {Split(b, f, e)[1], Split(b, f, e)[2]},
                             Split(b, f, e)[1].end)
  BY DEF SplitBatch
<1>2. PICK f \in b.events :
        /\ f.key = e.key /\ f.time # e.time
        /\ OutputForBatchEnd((batches \ {b}) \cup {Split(b, f, e)[1], Split(b, f, e)[2]},
                             Split(b, f, e)[1].end)
  BY <1>1
<1> DEFINE g == Split(b, f, e)[1]
           h == Split(b, f, e)[2]
           all == (batches \ {b}) \cup {g, h}
<1>3. driving /\ UNCHANGED <<now, driving>> /\ accepted' = accepted \cup {e}
  BY DEF SplitBatch
<1>4. b \in batches /\ b \in Batches /\ Good(b) /\ b.start <= e.time /\ e.time <= b.end
  BY DEF Targets, BatchInv, Tidy
<1>5. /\ g \in Batches /\ Good(g) /\ g.start = b.start
      /\ h \in Batches /\ Good(h) /\ h.end = b.end
      /\ g.end = h.start /\ b.start <= g.end /\ g.end <= b.end
  BY <1>2, <1>4, SplitIsGood
<1>6. Spaced => \A d \in b.events \cup {e} : d \in g.events \/ d \in h.events
  BY <1>2, <1>4, SplitKeeps
<1>7. OutputForBatchEnd(all, g.end)
  BY <1>2
<1> HIDE DEF g, h
<1>8. /\ b.start \in Nat /\ b.end \in Nat /\ g.start \in Nat /\ g.end \in Nat
      /\ h.start \in Nat /\ h.end \in Nat
  BY <1>4, <1>5 DEF Batches
<1>9. Tidy(all, delivered)
  <2>1. b.start <= g.start /\ h.end <= b.end /\ b.start <= h.start /\ Apart(g, h)
    BY <1>5, <1>8 DEF Apart
  <2> QED
    BY <1>4, <1>5, <2>1, ReplaceIsTidy DEF BatchInv
<1>10. \A c \in all : c.end = g.end \/ c.end + DeliveryJitter \in timers
  BY <1>4, <1>5 DEF BatchInv, Timed
<1>11. BatchInv' /\ All' = all \cup delivered
  <2>1. accepted' \subseteq Events
    BY <1>3 DEF BatchInv, BatchTypeOK
  <2> HIDE DEF all
  <2> QED
    BY <1>3, <1>7, <1>8, <1>9, <1>10, <2>1, OutputStep DEF BatchInv
<1>12. ASSUME Spaced, Stored PROVE Stored'
  <2>1. ASSUME NEW d \in accepted \cup {e} PROVE \E c \in all \cup delivered : d \in c.events
    BY <1>4, <1>6, <1>12 DEF Stored, All
  <2> QED
    BY <1>3, <1>11, <2>1 DEF Stored
<1> QED
  BY <1>11, <1>12

LEMMA ClosingStep ==
  ASSUME BatchInv, Timeout \/ Flush
  PROVE  BatchInv' /\ (Stored => Stored')
<1>1. now \in Nat /\ DeliveryJitter \in Nat /\ \A b \in batches : b.end \in Nat
  BY BatchAssumption DEF BatchInv, BatchTypeOK, Tidy, Batches
<1>2. All' = All /\ UNCHANGED <<now, accepted>> /\ (Stored => Stored')
  <2>1. All' = All /\ UNCHANGED <<now, accepted>>
    BY DEF Timeout, Flush, Close, All
  <2> QED
    BY <2>1 DEF Stored
<1>3. CASE Timeout
  <2>1. Tidy(batches', delivered')
    BY <1>3, CloseIsTidy DEF Timeout, Close, BatchInv
  <2>2. BatchTypeOK'
    BY <1>2, <1>3 DEF Timeout, BatchInv, BatchTypeOK
  <2>3. SentInTime'
    BY <1>1, <1>3 DEF Timeout, Close, Open, BatchInv, SentInTime
  <2>4. Timed'
    <3>1. PICK t \in timers : t < now /\ timers' = timers \ {t}
      BY <1>3 DEF Timeout, Past
    <3>2. \A b \in batches' : b \in batches /\ b.end + DeliveryJitter > now
      BY <1>3 DEF Timeout, Close, Open
    <3>3. t \in Nat
      BY DEF BatchInv, BatchTypeOK
    <3> QED
      BY <1>1, <3>1, <3>2, <3>3 DEF BatchInv, Timed
  <2> QED
    BY <1>2, <2>1, <2>2, <2>3, <2>4 DEF BatchInv
<1>4. CASE Flush
  <2>1. Tidy(batches', delivered')
    BY <1>4 DEF Flush, BatchInv, Tidy, Apart
  <2>2. BatchTypeOK' /\ SentInTime' /\ Timed'
    BY <1>2, <1>4 DEF Flush, BatchInv, BatchTypeOK, SentInTime, Timed
  <2> QED
    BY <1>2, <2>1, <2>2 DEF BatchInv
<1> QED
  BY <1>3, <1>4

LEMMA QuietStep ==
  ASSUME BatchInv, Tick \/ UNCHANGED batchVars
  PROVE  BatchInv' /\ (Stored => Stored')
<1>1. UNCHANGED <<batches, timers, accepted, delivered, driving>>
  BY DEF Tick, batchVars
<1>2. now \in Nat /\ DeliveryJitter \in Nat /\ MaxTime \in Nat /\ \A b \in delivered : b.end \in Nat
  BY BatchAssumption DEF BatchInv, BatchTypeOK, Tidy, Batches
<1>3. now' \in 0 .. MaxTime /\ now' >= now
  BY <1>2 DEF Tick, batchVars, BatchInv, BatchTypeOK
<1>4. SentInTime'
  BY <1>1, <1>2, <1>3 DEF BatchInv, SentInTime
<1> QED
  BY <1>1, <1>3, <1>4 DEF BatchInv, BatchTypeOK, Tidy, Timed, Stored, All

LEMMA BatchInvInit == BatchInit => BatchInv /\ Stored
  BY BatchAssumption DEF BatchInit, BatchInv, BatchTypeOK, Tidy, SentInTime, Timed, Stored, All

LEMMA BatchInvNext == BatchInv /\ [BatchNext]_batchVars => BatchInv' /\ (Spaced /\ Stored => Stored')
<1>1. \A e \in Events : Discarded(e) \/ Duplicate(e) => UNCHANGED batchVars
  BY DEF Discarded, Duplicate
<1> QED
  BY <1>1, FirstOfBatchStep, AddedStep, SplitStep, ClosingStep, QuietStep DEF BatchNext, Receive

\* The inductive invariant: the open batches and those already sent share no more
\* than bounds, none is sent before its time, and each open one has its timer.
THEOREM BatchInvariance == BatchSpec => []BatchInv
<1>1. BatchInit => BatchInv
  BY BatchInvInit
<1>2. BatchInv /\ [BatchNext]_batchVars => BatchInv'
  BY BatchInvNext
<1> QED
  BY <1>1, <1>2, PTL DEF BatchSpec

\* The events of a batch are of different keys and no further apart than the
\* batching window, whatever the times of the events (Batch::add, Batch::split).
THEOREM BatchesAreGrouped == BatchSpec => []Grouped
<1>1. BatchInv => Grouped
  BY DEF BatchInv, Tidy, Good, Grouped, All
<1> QED
  BY <1>1, BatchInvariance, PTL

\* No event taken is lost, and none is in two batches but on their common bound;
\* each open batch has its timer, as long as there is an instant between two
\* different times (Batch::split loses an event next to the one that splits).
THEOREM EventsAreKeptOnce == ASSUME Spaced PROVE BatchSpec => []KeptOnce
<1>1. BatchInit => BatchInv /\ Stored
  BY BatchInvInit
<1>2. (BatchInv /\ Stored) /\ [BatchNext]_batchVars => (BatchInv /\ Stored)'
  BY BatchInvNext
<1>3. BatchInv /\ Stored => KeptOnce
  <2> SUFFICES ASSUME BatchInv, Stored PROVE KeptOnce
    OBVIOUS
  <2>1. ASSUME NEW b \in All, NEW c \in All, NEW e \in b.events \cap c.events, b # c
        PROVE  \/ e.time = b.end /\ e.time = c.start
               \/ e.time = c.end /\ e.time = b.start
    <3>1. b \in Batches /\ c \in Batches /\ Good(b) /\ Good(c) /\ Apart(b, c)
      BY <2>1 DEF BatchInv, Tidy, Apart, All
    <3>2. /\ b.start \in Nat /\ b.end \in Nat /\ c.start \in Nat /\ c.end \in Nat
          /\ e \in Events
      BY <3>1 DEF Batches
    <3>3. e.time \in Nat
      BY <3>2, BatchAssumption DEF Events
    <3> QED
      BY <3>1, <3>2, <3>3 DEF Good, Apart
  <2> QED
    BY <2>1 DEF BatchInv, Stored, KeptOnce
<1> QED
  BY <1>1, <1>2, <1>3, PTL DEF BatchSpec
=============================================================================
