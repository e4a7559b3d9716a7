----------------------------- MODULE ActorRuntime -----------------------------
(* The runtime of the actors of a process (tedge_actors): it spawns the actors *)
(* it is asked for, awaits their end, and stops them all as soon as one fails  *)
(* or a shutdown is requested. An actor is told to stop by a signal that its   *)
(* message box gives the priority to, each time the actor awaits a message; an *)
(* actor in the middle of a message, possibly awaiting room in the box of a    *)
(* peer, sees the signal later.                                                *)
EXTENDS Naturals, Sequences

CONSTANT SpawnOrder   \* the actors, in the order they are spawned by the main task

ASSUME RuntimeAssumption ==
  /\ SpawnOrder \in Seq(STRING) /\ SpawnOrder # <<>>
  /\ \A i \in DOMAIN SpawnOrder : SpawnOrder[i] # "shutdown"

VARIABLES
  spawned,   \* the number of actors the main task has spawned
  asked,     \* whether a shutdown has been requested
  actions,   \* the actions sent to the runtime
  task,      \* the task of each actor
  running,   \* running_actors
  signals,   \* the actors with a Shutdown request in their message box
  unsent,    \* the actors shutdown_actors has still to tell
  phase,     \* where the runtime is
  aborting   \* aborting_error

runtimeVars == <<spawned, asked, actions, task, running, signals, unsent, phase, aborting>>

Actors == {SpawnOrder[i] : i \in DOMAIN SpawnOrder}
Finished == {"ok", "err"}

RuntimeInit ==
  /\ spawned = 0 /\ asked = FALSE /\ actions = <<>>
  /\ task = [a \in Actors |-> "built"]
  /\ running = {} /\ signals = {} /\ unsent = {}
  /\ phase = "loop" /\ aborting = FALSE

\* The state of the runtime is well formed.
RuntimeTypeOK ==
  /\ spawned \in 0 .. Len(SpawnOrder) /\ asked \in BOOLEAN
  /\ actions \in Seq(Actors \cup {"shutdown"})
  /\ task \in [Actors -> {"built", "running", "joined"} \cup Finished]
  /\ running \subseteq Actors /\ signals \subseteq Actors /\ unsent \subseteq Actors
  /\ phase \in {"loop", "notify", "cleanup", "done"} /\ aborting \in BOOLEAN

------------------------------------------------------------------------------
(* The actions sent to the runtime.                                            *)

\* spawn of a RuntimeHandle, by the main task.
SendSpawn ==
  /\ phase # "done" /\ spawned < Len(SpawnOrder)
  /\ spawned' = spawned + 1
  /\ actions' = Append(actions, SpawnOrder[spawned'])
  /\ UNCHANGED <<asked, task, running, signals, unsent, phase, aborting>>

\* The signal actor has got a SIGINT, SIGTERM or SIGQUIT.
SendShutdown ==
  /\ phase # "done" /\ ~asked
  /\ asked' = TRUE
  /\ actions' = Append(actions, "shutdown")
  /\ UNCHANGED <<spawned, task, running, signals, unsent, phase, aborting>>

------------------------------------------------------------------------------
(* run: the main loop, the actions and the ends of the actors in any order.    *)

TakeSpawn ==
  /\ phase = "loop" /\ actions # <<>> /\ Head(actions) # "shutdown"
  /\ actions' = Tail(actions)
  /\ running' = running \cup {Head(actions)}
  /\ task' = [task EXCEPT ![Head(actions)] = "running"]
  /\ UNCHANGED <<spawned, asked, signals, unsent, phase, aborting>>

TakeShutdown ==
  /\ phase = "loop" /\ actions # <<>> /\ Head(actions) = "shutdown"
  /\ actions' = Tail(actions)
  /\ phase' = "notify" /\ unsent' = running
  /\ UNCHANGED <<spawned, asked, task, running, signals, aborting>>

\* handle_actor_finishing: the first failure makes the runtime abort.
TakeFinished(a) ==
  /\ phase = "loop" /\ task[a] \in Finished
  /\ task' = [task EXCEPT ![a] = "joined"]
  /\ running' = running \ {a}
  /\ IF task[a] = "err"
     THEN phase' = "notify" /\ unsent' = running' /\ aborting' = TRUE
     ELSE UNCHANGED <<phase, unsent, aborting>>
  /\ UNCHANGED <<spawned, asked, actions, signals>>

\* shutdown_actors: the signals are sent in turn. The channel of the signals is
\* never full; the send to an actor already finished fails and is ignored.
Tell(a) ==
  /\ phase = "notify" /\ a \in unsent
  /\ unsent' = unsent \ {a}
  /\ signals' = IF task[a] = "running" THEN signals \cup {a} ELSE signals
  /\ UNCHANGED <<spawned, asked, actions, task, running, phase, aborting>>

AllTold ==
  /\ phase = "notify" /\ unsent = {}
  /\ phase' = "cleanup"
  /\ UNCHANGED <<spawned, asked, actions, task, running, signals, unsent, aborting>>

\* wait_for_actors_to_finish: the errors are ignored.
AwaitFinished_Reported(a) ==
  /\ phase = "cleanup" /\ task[a] \in Finished
  /\ task' = [task EXCEPT ![a] = "joined"]
  /\ running' = running \ {a}
  /\ aborting' = (aborting \/ task[a] = "err")
  /\ UNCHANGED <<spawned, asked, actions, signals, unsent, phase>>

AwaitFinished(a) ==
  /\ phase = "cleanup" /\ task[a] \in Finished
  /\ task' = [task EXCEPT ![a] = "joined"]
  /\ running' = running \ {a}
  /\ UNCHANGED <<spawned, asked, actions, signals, unsent, phase, aborting>>

AllFinished ==
  /\ phase = "cleanup" /\ \A a \in Actors : task[a] \in {"built", "joined"}
  /\ phase' = "done"
  /\ UNCHANGED <<spawned, asked, actions, task, running, signals, unsent, aborting>>

\* The time given to the actors is over; those left are stopped with the process.
CleanupTimeout ==
  /\ phase = "cleanup"
  /\ phase' = "done"
  /\ UNCHANGED <<spawned, asked, actions, task, running, signals, unsent, aborting>>

RuntimeSteps ==
  \/ TakeSpawn \/ TakeShutdown \/ AllTold \/ AllFinished
  \/ \E a \in Actors : TakeFinished(a) \/ Tell(a) \/ AwaitFinished(a)

------------------------------------------------------------------------------
(* What an actor sees.                                                         *)

\* The actor is at work, possibly in the middle of a message.
Works(a) == phase # "done" /\ task[a] = "running"

\* try_recv is biased: no message is received once there is a signal.
Receptive(a) == Works(a) /\ a \notin signals

\* The actor awaits a message and gets the signal: recv returns None.
Interrupted(a) == Works(a) /\ a \in signals

\* The message box of an actor is dropped with the actor: a send to it fails, be
\* it already awaiting room. An actor not spawned yet has its box already.
IsOpen_Always(a) == TRUE
IsOpen(a) == task[a] \in {"built", "running"}

\* The actor returns from run.
Ends(a, outcome) ==
  /\ task' = [task EXCEPT ![a] = outcome]
  /\ signals' = signals \ {a}
  /\ UNCHANGED <<spawned, asked, actions, running, unsent, phase, aborting>>
=============================================================================
