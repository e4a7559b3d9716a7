------------------------------ MODULE ActorSystem ------------------------------
(* Actors exchanging requests and responses (tedge_actors/servers) under the    *)
(* actor runtime: clients, a proxy processing its requests in turn, each with a *)
(* request of its own to http, and http processing its requests concurrently.   *)
(* The boxes of the servers are bounded. A requester awaits room in the box of  *)
(* a server, then the response, on a channel that comes along the request; it   *)
(* sees no signal meanwhile, but learns that the request has been dropped.      *)
EXTENDS ActorRuntime, FiniteSets

CONSTANTS
  Clients,          \* the actors sending requests
  Capacity,         \* the capacity of the box of a server
  MaxConcurrency    \* max_concurrency of http

Servers == {"proxy", "http"}
Requesters == Clients \cup {"proxy"}
None == "none"

ASSUME SystemAssumption ==
  /\ Clients \cap (Servers \cup {None}) = {} /\ Actors = Clients \cup Servers
  /\ Capacity \in Nat \ {0} /\ MaxConcurrency \in Nat \ {0}

VARIABLES
  step,      \* where each requester is: "idle", "sending" or "waiting"
  to,        \* the server each requester uses
  box,       \* the requests in the box of each server, by requester
  serving,   \* the request processed by the proxy
  handlers,  \* running_request_handlers of http: those at work, by requester
  ended,     \* and the number of those that have ended
  answered,  \* the requesters with a response in their channel
  panicked,  \* those whose request was dropped by a panic of its handler
  fault      \* whether an actor has failed, by itself or by such a panic

messageVars == <<step, to, box, serving, handlers, ended, answered, panicked>>
vars == <<runtimeVars, messageVars, fault>>

Init ==
  /\ RuntimeInit
  /\ step = [a \in Requesters |-> "idle"] /\ to = [a \in Requesters |-> "http"]
  /\ box = [s \in Servers |-> <<>>] /\ serving = None
  /\ handlers = {} /\ ended = 0 /\ answered = {} /\ panicked = {}
  /\ fault = FALSE

Queued(a) == \E s \in Servers : \E i \in DOMAIN box[s] : box[s][i] = a

------------------------------------------------------------------------------
(* ClientMessageBox.await_response                                             *)

\* The actor processes a message that makes it request a server.
ClientRequests(c) ==
  /\ Receptive(c) /\ step[c] = "idle"
  /\ step' = [step EXCEPT ![c] = "sending"]
  /\ \E s \in Servers : to' = [to EXCEPT ![c] = s]
  /\ UNCHANGED <<runtimeVars, box, serving, handlers, ended, answered, panicked, fault>>

\* There is room for the request.
Send(a) ==
  /\ Works(a) /\ step[a] = "sending"
  /\ IsOpen(to[a]) /\ Len(box[to[a]]) < Capacity
  /\ box' = [box EXCEPT ![to[a]] = Append(@, a)]
  /\ step' = [step EXCEPT ![a] = "waiting"]
  /\ UNCHANGED <<runtimeVars, to, serving, handlers, ended, answered, panicked, fault>>

\* The send fails, the server being no more, or the request has been dropped with
\* the box of the server, or by the server interrupted while processing it.
Dropped(a) ==
  \/ step[a] = "sending" /\ ~IsOpen(to[a])
  \/ step[a] = "waiting" /\ a \notin answered /\ a # serving /\ a \notin handlers /\ ~Queued(a)

\* The response is received by a client, that goes on.
ClientAnswered(c) ==
  /\ Works(c) /\ c \in answered
  /\ step' = [step EXCEPT ![c] = "idle"] /\ answered' = answered \ {c}
  /\ UNCHANGED <<runtimeVars, to, box, serving, handlers, ended, panicked, fault>>

------------------------------------------------------------------------------
(* The end of a client.                                                        *)

ClientEnds(c, outcome) ==
  /\ Ends(c, outcome)
  /\ step' = [step EXCEPT ![c] = "idle"] /\ answered' = answered \ {c}
  /\ panicked' = panicked \ {c}
  /\ UNCHANGED <<to, box, serving, handlers, ended>>

ClientStops(c) ==
  Interrupted(c) /\ step[c] = "idle" /\ ClientEnds(c, "ok") /\ UNCHANGED fault

\* The ChannelError is returned by run, or the actor makes do without a response.
ClientUnanswered(c) ==
  /\ Works(c) /\ Dropped(c)
  /\ \/ ClientEnds(c, "err") /\ fault' = (fault \/ c \in panicked)
     \/ /\ step' = [step EXCEPT ![c] = "idle"] /\ panicked' = panicked \ {c}
        /\ UNCHANGED <<runtimeVars, to, box, serving, handlers, ended, answered, fault>>

\* Some actors have nothing more to do.
ClientCompletes(c) ==
  Works(c) /\ step[c] = "idle" /\ ClientEnds(c, "ok") /\ UNCHANGED fault

\* A failure or a panic of its own.
ClientFails(c) == Works(c) /\ ClientEnds(c, "err") /\ fault' = TRUE

------------------------------------------------------------------------------
(* ServerActor: the proxy.                                                     *)

ProxyReceives ==
  /\ Receptive("proxy") /\ serving = None /\ box["proxy"] # <<>>
  /\ serving' = Head(box["proxy"])
  /\ box' = [box EXCEPT !["proxy"] = Tail(@)]
  /\ step' = [step EXCEPT !["proxy"] = "sending"]
  /\ UNCHANGED <<runtimeVars, to, handlers, ended, answered, panicked, fault>>

\* A requester that still awaits a response gets it, or sees its channel closed.
Reply(a) == IF step[a] = "waiting" THEN {a} ELSE {}

\* handle returns, with the response of http, or an error if its request has been
\* dropped; the response is sent to the client, unless it is no more.
ProxyReplies ==
  /\ Works("proxy") /\ serving # None
  /\ "proxy" \in answered \/ Dropped("proxy")
  /\ answered' = (answered \ {"proxy"}) \cup Reply(serving)
  /\ step' = [step EXCEPT !["proxy"] = "idle"] /\ serving' = None
  /\ panicked' = panicked \ {"proxy"}
  /\ UNCHANGED <<runtimeVars, to, box, handlers, ended, fault>>

\* Its box and the request in progress are dropped.
ProxyEnds(outcome) ==
  /\ Ends("proxy", outcome)
  /\ box' = [box EXCEPT !["proxy"] = <<>>] /\ serving' = None
  /\ step' = [step EXCEPT !["proxy"] = "idle"] /\ answered' = answered \ {"proxy"}
  /\ panicked' = panicked \ {"proxy"}
  /\ UNCHANGED <<to, handlers, ended>>

\* The signal is received as well in the middle of a request.
ProxyStops == Interrupted("proxy") /\ ProxyEnds("ok") /\ UNCHANGED fault

\* A panic of handle is one of the actor.
ProxyPanics ==
  /\ Works("proxy") /\ serving # None
  /\ ProxyEnds("err")
  /\ fault' = TRUE

------------------------------------------------------------------------------
(* ConcurrentServerActor: http.                                                *)

\* next_request: no request is received before a handler is idle.
HttpReceives ==
  /\ Receptive("http") /\ box["http"] # <<>>
  /\ Cardinality(handlers) + ended < MaxConcurrency
  /\ handlers' = handlers \cup {Head(box["http"])}
  /\ box' = [box EXCEPT !["http"] = Tail(@)]
  /\ UNCHANGED <<runtimeVars, step, to, serving, ended, answered, panicked, fault>>

\* The task of a request sends its response, http being possibly no more.
HandlerEnds(a) ==
  /\ phase # "done" /\ a \in handlers
  /\ answered' = answered \cup Reply(a)
  /\ handlers' = handlers \ {a}
  /\ ended' = IF IsOpen("http") THEN ended + 1 ELSE 0
  /\ UNCHANGED <<runtimeVars, step, to, box, serving, panicked, fault>>

\* The task panics: its channel is dropped, and the panic only logged.
HandlerPanics(a) ==
  /\ phase # "done" /\ a \in handlers
  /\ panicked' = panicked \cup Reply(a)
  /\ handlers' = handlers \ {a}
  /\ ended' = IF IsOpen("http") THEN ended + 1 ELSE 0
  /\ UNCHANGED <<runtimeVars, step, to, box, serving, answered, fault>>

\* The end of a task is seen by await_idle_processor or next_request.
HandlerJoined_Late ==
  /\ Works("http") /\ ended > 1
  /\ ended' = ended - 1
  /\ UNCHANGED <<runtimeVars, step, to, box, serving, handlers, answered, panicked, fault>>

HandlerJoined ==
  /\ Works("http") /\ ended > 0
  /\ ended' = ended - 1
  /\ UNCHANGED <<runtimeVars, step, to, box, serving, handlers, answered, panicked, fault>>

\* The signal is received whatever the number of handlers; the tasks go on.
HttpStops ==
  /\ Interrupted("http")
  /\ Ends("http", "ok")
  /\ box' = [box EXCEPT !["http"] = <<>>] /\ ended' = 0
  /\ UNCHANGED <<step, to, serving, handlers, answered, panicked, fault>>

------------------------------------------------------------------------------

Others == UNCHANGED <<messageVars, fault>>

\* The process has ended.
Exited == phase = "done" /\ UNCHANGED vars

Next ==
  \/ \E c \in Clients :
       \/ ClientRequests(c) \/ ClientAnswered(c) \/ ClientStops(c)
       \/ ClientUnanswered(c) \/ ClientCompletes(c) \/ ClientFails(c)
  \/ \E a \in Requesters : Send(a) \/ HandlerEnds(a) \/ HandlerPanics(a)
  \/ ProxyReceives \/ ProxyReplies \/ ProxyStops \/ ProxyPanics
  \/ HttpReceives \/ HandlerJoined \/ HttpStops
  \/ (RuntimeSteps \/ SendSpawn \/ SendShutdown \/ CleanupTimeout) /\ Others
  \/ Exited

Spec == Init /\ [][Next]_vars

\* The tasks are scheduled, a handler comes to an end, and those who await room
\* in a box are served in turn. Nothing is assumed of the requests, the failures,
\* the signals of the system and the timeout of the cleanup.
FairSpec ==
  /\ Spec
  /\ WF_vars((RuntimeSteps \/ SendSpawn) /\ Others)
  /\ \A c \in Clients :
       WF_vars(ClientAnswered(c)) /\ WF_vars(ClientStops(c)) /\ WF_vars(ClientUnanswered(c))
  /\ \A a \in Requesters : SF_vars(Send(a)) /\ WF_vars(HandlerEnds(a) \/ HandlerPanics(a))
  /\ WF_vars(ProxyReceives) /\ WF_vars(ProxyReplies \/ ProxyPanics) /\ WF_vars(ProxyStops)
  /\ WF_vars(HttpReceives) /\ WF_vars(HandlerJoined) /\ WF_vars(HttpStops)

------------------------------------------------------------------------------
(* Properties *)

\* The state is well formed.
TypeOK ==
  /\ RuntimeTypeOK
  /\ step \in [Requesters -> {"idle", "sending", "waiting"}]
  /\ to \in [Requesters -> Servers] /\ to["proxy"] = "http"
  /\ box \in [Servers -> Seq(Requesters)] /\ \A s \in Servers : Len(box[s]) <= Capacity
  /\ box["proxy"] \in Seq(Clients)
  /\ serving \in Clients \cup {None} /\ handlers \subseteq Requesters
  /\ ended \in Nat /\ answered \subseteq Requesters
  /\ panicked \subseteq Requesters /\ fault \in BOOLEAN

\* Nobody waits for ever: whoever requests a server gets a response, or is told
\* that there will be none, whatever fails or is stopped (await_response).
NobodyWaits ==
  \A a \in Requesters : step[a] # "idle" ~> step[a] = "idle" \/ phase = "done"

\* A shutdown or the failure of an actor brings the process to its end without
\* the help of the timeout of the cleanup, although an actor in the middle of a
\* request sees no signal (run of RuntimeActor).
ProcessEnds == (asked \/ fault) ~> phase = "done"

\* The process ends with a failure only if an actor has failed by itself, or for a
\* panic of the handler of its request, and not from its peers being stopped before
\* it; and it always does when nobody has requested the shutdown ("Shutting down on
\* error").
OutcomeTrue ==
  phase = "done" => (aborting => fault) /\ (~asked => aborting)
=============================================================================
