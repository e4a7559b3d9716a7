---------------------------- MODULE WorkflowEngine ----------------------------
(***************************************************************************)
(* The execution of operation workflows by tedge-agent.                    *)
(*                                                                         *)
(* WorkflowActor (operation_workflows/actor.rs) serves one input at a      *)
(* time: MQTT messages, its own messages about the commands it has moved,  *)
(* and the responses of the builtin managers.  It moves each command from  *)
(* state to state as told by the workflow of its operation: running        *)
(* scripts, calling a builtin manager, or creating a sub-command, handled  *)
(* by the same actor, and awaiting its completion.  The command board is   *)
(* persisted at each move, so that the commands resume after a restart.    *)
(*                                                                         *)
(* A handler is a sequence of effects; a crash can fall between any two of *)
(* them.  Here an operation has a single workflow, the versions being the  *)
(* matter of WorkflowRepository.                                           *)
(***************************************************************************)
EXTENDS Naturals, Sequences, FiniteSets

CONSTANTS
  Cmds,         \* command topics
  OpOf,         \* the operation of a command topic
  Parent,       \* the invoking command of a sub-command, else NoValue
  Workflow,     \* per registered operation, the action of each status
  Items,        \* per command, the list its workflow may iterate over
  Managed,      \* operations with a builtin manager
  Persistent,   \* those whose manager persists its current request
  Rebooting,    \* those whose manager restarts the device
  NoValue,      \* no value
  SetupMayFail, \* may a builtin manager fail to set a request up?
  MaxStops      \* bound on the interruptions

Finished == {"successful", "failed"}
WorkflowStatuses == UNION {DOMAIN Workflow[op] : op \in DOMAIN Workflow}
Ops      == {OpOf[c] : c \in Cmds}
Roots    == {c \in Cmds : Parent[c] = NoValue}

\* OperationAction
ActionKinds ==
  {"clear", "move", "builtin", "legacyBuiltin", "script", "background", "awaitRestart",
   "operation", "awaitOperation", "iterate"}

ASSUME EngineAssumptions ==
  /\ IsFiniteSet(Cmds)
  /\ \A c \in Cmds : Parent[c] \in Cmds \cup {NoValue}
  /\ \A op \in DOMAIN Workflow : {"init"} \cup Finished \subseteq DOMAIN Workflow[op]
  /\ \A op \in DOMAIN Workflow : \A s \in DOMAIN Workflow[op] : Workflow[op][s].do \in ActionKinds
  /\ \A op \in DOMAIN Workflow, s \in Finished : Workflow[op][s].do = "clear"
  /\ NoValue \notin Cmds
  /\ Rebooting \subseteq Persistent /\ Persistent \subseteq Managed
  /\ SetupMayFail \in BOOLEAN /\ MaxStops \in Nat

VARIABLES
  retained,   \* on the broker: the last state published on each command topic
  net,        \* on the broker: messages not yet received by the agent
  disk,       \* the persisted command board
  pending,    \* the requests persisted by the builtin managers
  witness,    \* the restart file: none, or dated before or since the last boot
  up,         \* is the agent running?
  board,      \* the command board
  input,      \* the mailbox of the actor
  todo,       \* the effects the current handler has still to produce
  asked,      \* the mailboxes of the builtin managers
  manager,    \* per command, what its builtin manager is doing
  requested,  \* the commands created by the requester so far
  applied,    \* history: the items of a command applied by its sub-commands
  rebooted,   \* history: the persisted requests found by a boot of the device
  early,      \* history: the restarts found not dated by a stop of the agent alone
  stops

engineVars == <<board, input, todo>>
managerVars == <<pending, witness, asked, manager>>
history == <<requested, applied, rebooted, early, stops>>
workflowVars == <<retained, net, disk, up, engineVars, managerVars, history>>

\* The state of a command: its status, and the position of the @next item of an
\* iteration, 0 before the first one.
State(s, n) == [status |-> s, next |-> n]
InitState   == State("init", 0)
Cleared     == State("cleared", 0)   \* also stands for no entry on the board
States      == [status : WorkflowStatuses \cup {"cleared"}, next : Nat]

\* What the actor receives.
Internal(c, s) == [from |-> "engine", cmd |-> c, state |-> s]
Mqtt(c, s)     == [from |-> "mqtt", cmd |-> c, state |-> s]
Reply(c, st)   == [from |-> "manager", cmd |-> c, state |-> State(st, 0)]
Input == [from : {"engine", "mqtt", "manager"}, cmd : Cmds,
          state : [status : WorkflowStatuses \cup {"cleared", "executing"}, next : Nat]]

\* What the actor does.
Effect(what, c, s) == [do |-> what, cmd |-> c, state |-> s]
Effects == [do : {"save", "send", "publish", "dispatch", "script", "inputScript",
                  "background", "sleep", "process"},
            cmd : Cmds,
            state : [status : WorkflowStatuses \cup {"cleared", "scheduled", "executing"},
                     next : Nat]]

EngineTypeOK ==
  /\ retained \in [Cmds -> States]
  /\ net \in Seq(Input)
  /\ disk \in [Cmds -> States]
  /\ pending \subseteq Cmds
  /\ up \in BOOLEAN
  /\ board \in [Cmds -> States]
  /\ input \in Seq(Input)
  /\ todo \in Seq(Effects)
  /\ asked \in [Ops -> Seq([cmd : Cmds, status : WorkflowStatuses \cup {"scheduled", "executing"}])]
  /\ witness \in {"none", "before", "since"}
  /\ manager \in [Cmds -> {"idle", "preparing", "working", "closing", "reporting", "recovering"}]
  /\ \A c \in Cmds : board[c].next <= Len(Items[c])
  /\ requested \subseteq Roots
  /\ applied \in [Cmds -> SUBSET Nat]
  /\ rebooted \subseteq Cmds
  /\ early \subseteq Cmds
  /\ stops \in Nat

-----------------------------------------------------------------------------
(* The interpretation of a workflow *)

Registered(c)   == OpOf[c] \in DOMAIN Workflow
HasAction(c, s) == Registered(c) /\ s.status \in DOMAIN Workflow[OpOf[c]]
Action(c, s)    == Workflow[OpOf[c]][s.status]

\* publish_command_state()
PublishState(c, s) ==
  IF s = Cleared
  THEN <<Effect("save", c, s), Effect("publish", c, s)>>
  ELSE <<Effect("save", c, s), Effect("send", c, s), Effect("publish", c, s)>>

Goto(s, status) == [s EXCEPT !.status = status]


\* process_iterate(): the first item, then the next one that is not skipped.
Following(c, n) == {i \in (n + 1)..Len(Items[c]) : ~Items[c][i].skip}
Iterate(c, s, a) ==
  LET n == s.next
      rest == Following(c, n)
  IN CASE Items[c] = <<>> -> Goto(s, a.onSuccess)
       [] Items[c] # <<>> /\ n = 0 -> State(a.onNext, 1)
       [] Items[c] # <<>> /\ n > Len(Items[c]) -> Goto(s, a.onError)
       [] n \in 1..Len(Items[c]) /\ rest = {} -> Goto(s, a.onSuccess)
       [] n \in 1..Len(Items[c]) /\ rest # {} ->
            State(a.onNext, CHOOSE i \in rest : \A j \in rest : i <= j)

\* The topic of the sub-command a command in state s has to create.
SubOperation(c, s) ==
  IF Action(c, s).op = "@next" THEN Items[c][s.next].op ELSE Action(c, s).op
SubTopic(c, op) == CHOOSE d \in Cmds : Parent[d] = c /\ OpOf[d] = op

\* lookup_sub_command(): any sub-command found on the board.
SubCommands(c) == {d \in Cmds : Parent[d] = c /\ board[d] # Cleared}

\* The command is moved, then its sub-command is created.
InvokeEffects(c, s) ==
  PublishState(c, Goto(s, Action(c, s).onExec)) \o
    <<Effect("publish", SubTopic(c, SubOperation(c, s)), InitState)>>

\* The command is moved, then the script is run.
BackgroundEffects(c, s) ==
  PublishState(c, Goto(s, Action(c, s).onExec)) \o <<Effect("background", c, s)>>

\* A finished sub-command resumes its invoking command.
ResumeParent_Never(c) == <<>>
ResumeParent(c) ==
  IF Parent[c] # NoValue /\ board[Parent[c]] # Cleared
  THEN <<Effect("send", Parent[c], board[Parent[c]])>> ELSE <<>>

\* process_command_update(): the effects of a command in state s, when they
\* depend on no sub-command.
ActionEffects(c, s) ==
  LET a == Action(c, s)
  IN CASE a.do = "clear" -> ResumeParent(c)
       [] a.do = "move" -> PublishState(c, Goto(s, a.to))
       [] a.do = "builtin" ->
            PublishState(c, Goto(s, a.onExec)) \o
              <<Effect("dispatch", c, Goto(s, "scheduled"))>>
       [] a.do = "legacyBuiltin" -> <<Effect("dispatch", c, s)>>
       [] a.do = "script" -> <<Effect("script", c, s)>>
       [] a.do = "background" -> BackgroundEffects(c, s)
       [] a.do = "awaitRestart" -> <<Effect("sleep", c, s)>>
       [] a.do = "operation" ->
            IF a.inputScript THEN <<Effect("inputScript", c, s)>> ELSE InvokeEffects(c, s)
       [] a.do = "iterate" -> PublishState(c, Iterate(c, s, a))

Completed(c, s, d) ==
  Goto(s, IF board[d].status = "successful" THEN Action(c, s).onSuccess
                                            ELSE Action(c, s).onError)
AwaitEffects_NoClear(c, s, d) ==
  IF board[d].status \in Finished THEN PublishState(c, Completed(c, s, d)) ELSE <<>>

\* AwaitOperationCompletion: once its sub-command is finished, the command is
\* moved and then the sub-command is cleared.
AwaitEffects(c, s, d) ==
  IF board[d].status \in Finished
  THEN PublishState(c, Completed(c, s, d)) \o PublishState(d, Cleared) ELSE <<>>

ProcessEffects(c, s) ==
  IF ~HasAction(c, s) THEN {<<>>}
  ELSE IF Action(c, s).do # "awaitOperation" THEN {ActionEffects(c, s)}
  ELSE IF SubCommands(c) = {} THEN {<<>>}
  ELSE {AwaitEffects(c, s, d) : d \in SubCommands(c)}

-----------------------------------------------------------------------------
(* The requester of the root commands *)

Request(c) ==
  /\ c \in Roots \ requested
  /\ requested' = requested \cup {c}
  /\ retained' = [retained EXCEPT ![c] = InitState]
  /\ net' = Append(net, Mqtt(c, InitState))
  /\ UNCHANGED <<disk, up, engineVars, managerVars, applied, rebooted, early, stops>>

ClearRequest(c) ==
  /\ c \in Roots /\ retained[c].status \in Finished
  /\ retained' = [retained EXCEPT ![c] = Cleared]
  /\ net' = Append(net, Mqtt(c, Cleared))
  /\ UNCHANGED <<disk, up, engineVars, managerVars, history>>

\* The network brings a message to the mailbox of the actor.
Deliver ==
  /\ up /\ net # <<>>
  /\ input' = Append(input, Head(net))
  /\ net' = Tail(net)
  /\ UNCHANGED <<retained, disk, up, board, todo, managerVars, history>>

-----------------------------------------------------------------------------
(* The actor takes an input *)

Take(from) ==
  /\ up /\ todo = <<>> /\ input # <<>> /\ Head(input).from = from
  /\ input' = Tail(input)

NewRequest_Twice(c) ==
  <<Effect("save", c, InitState), Effect("send", c, InitState),
    Effect("process", c, InitState)>>
NewRequest(c) == <<Effect("save", c, InitState), Effect("process", c, InitState)>>

\* process_mqtt_message(): a new request, rejected when already on the board in
\* another state, or the end of a command.  Ignored for an unknown operation.
OnMqtt ==
  LET c == Head(input).cmd
      s == Head(input).state
      accepted == Registered(c) /\ s = InitState /\ board[c] \in {Cleared, InitState}
      cleared  == Registered(c) /\ s = Cleared
  IN /\ Take("mqtt")
     /\ board' = IF accepted \/ cleared THEN [board EXCEPT ![c] = s] ELSE board
     /\ todo' = CASE accepted -> NewRequest(c)
                  [] cleared -> <<Effect("save", c, s)>>
                  [] ~accepted /\ ~cleared -> <<>>
     /\ UNCHANGED <<retained, net, disk, up, managerVars, history>>

\* A command moved by the actor itself, or resumed by its sub-command.
OnInternal ==
  /\ Take("engine")
  /\ todo' \in ProcessEffects(Head(input).cmd, Head(input).state)
  /\ UNCHANGED <<retained, net, disk, up, board, managerVars, history>>

\* adapt_builtin_response(): the response is merged into the state on the board.
Adapted(c, response) ==
  LET s == board[c]
  IN IF s = Cleared THEN response
     ELSE IF ~HasAction(c, s) THEN Goto(s, response.status)
     ELSE IF Action(c, s).do \in {"awaitOperation", "legacyBuiltin"}
     THEN Goto(s, IF response.status = "successful"
                  THEN Action(c, s).onSuccess ELSE Action(c, s).onError)
     ELSE Goto(s, response.status)

\* finalize_builtin_command_update().  A command which is not on the board has
\* no workflow version, hence no action.
Finalize(c, s) ==
  <<Effect("save", c, s), Effect("publish", c, s)>>
    \o (IF board[c] = Cleared THEN <<>> ELSE <<Effect("process", c, s)>>)

\* process_builtin_command_update()
OnReply ==
  LET c == Head(input).cmd
      s == Head(input).state
  IN /\ Take("manager")
     /\ todo' = IF s.status \in Finished THEN Finalize(c, Adapted(c, s))
                ELSE <<Effect("dispatch", c, s)>>
     /\ UNCHANGED <<retained, net, disk, up, board, managerVars, history>>

-----------------------------------------------------------------------------
(* The effects of a handler, one at a time *)

Step(what) == up /\ todo # <<>> /\ Head(todo).do = what

\* apply_internal_update(), rejected if the command is not on the board, then
\* persist_command_board().
Save ==
  LET c == Head(todo).cmd
      s == Head(todo).state
  IN /\ Step("save")
     /\ board' = IF board[c] = Cleared THEN board ELSE [board EXCEPT ![c] = s]
     /\ disk' = board'
     /\ todo' = Tail(todo)
     /\ UNCHANGED <<retained, net, up, input, managerVars, history>>

Send ==
  /\ Step("send")
  /\ input' = Append(input, Internal(Head(todo).cmd, Head(todo).state))
  /\ todo' = Tail(todo)
  /\ UNCHANGED <<retained, net, disk, up, board, managerVars, history>>

\* Only the init and clear messages matter when received back.
PublishMessage ==
  LET c == Head(todo).cmd
      s == Head(todo).state
  IN /\ Step("publish")
     /\ retained' = [retained EXCEPT ![c] = s]
     /\ net' = IF s.status \in {"init", "cleared"} THEN Append(net, Mqtt(c, s)) ELSE net
     /\ todo' = Tail(todo)
     /\ UNCHANGED <<disk, up, board, input, managerVars, history>>

\* CommandDispatcher: nothing is sent when there is no manager for the operation.
Dispatch ==
  LET c == Head(todo).cmd
      request == [cmd |-> c, status |-> Head(todo).state.status]
  IN /\ Step("dispatch")
     /\ asked' = IF OpOf[c] \in Managed
                 THEN [asked EXCEPT ![OpOf[c]] = Append(@, request)] ELSE asked
     /\ todo' = Tail(todo)
     /\ UNCHANGED <<retained, net, disk, up, board, input, pending, witness, manager, history>>

\* A script ends, its exit status selecting the next state.
RunScript ==
  LET c == Head(todo).cmd
      s == Head(todo).state
  IN /\ Step("script")
     /\ \E status \in Action(c, s).to :
          todo' = PublishState(c, Goto(s, status)) \o Tail(todo)
     /\ UNCHANGED <<retained, net, disk, up, board, input, managerVars, history>>

\* The script preparing the init state of a sub-command ends, or fails.
RunInputScript ==
  LET c == Head(todo).cmd
      s == Head(todo).state
  IN /\ Step("inputScript")
     /\ \/ todo' = InvokeEffects(c, s) \o Tail(todo)
        \/ todo' = PublishState(c, Goto(s, "failed")) \o Tail(todo)
     /\ UNCHANGED <<retained, net, disk, up, board, input, managerVars, history>>

\* A background script ends, without restarting the agent (else, see Crash).
RunBackground ==
  /\ Step("background")
  /\ todo' = Tail(todo)
  /\ UNCHANGED <<retained, net, disk, up, board, input, managerVars, history>>

\* No restart occurred before the timeout of an await-agent-restart action.
AwaitRestartTimeout ==
  LET c == Head(todo).cmd
      s == Head(todo).state
  IN /\ Step("sleep")
     /\ todo' = PublishState(c, Goto(s, Action(c, s).onTimeout)) \o Tail(todo)
     /\ UNCHANGED <<retained, net, disk, up, board, input, managerVars, history>>

Process ==
  /\ Step("process")
  /\ \E effects \in ProcessEffects(Head(todo).cmd, Head(todo).state) :
       todo' = effects \o Tail(todo)
  /\ UNCHANGED <<retained, net, disk, up, board, input, managerVars, history>>

-----------------------------------------------------------------------------
(* The builtin managers.  The software and restart managers serve one      *)
(* request at a time, and persist it till they are done.  The configuration *)
(* and log managers serve their requests concurrently, and persist nothing. *)

ManagerReplies(c, status) == input' = Append(input, Reply(c, status))

SameManager(c) == {d \in Cmds : OpOf[d] = OpOf[c]}
Idle(c) == \A d \in SameManager(c) : manager[d] = "idle"

\* The current request of a manager is in a single file.
Stored(c)  == (pending \ SameManager(c)) \cup {c}
Removed(c) == pending \ SameManager(c)

\* Takes the next request of its mailbox, with one of these statuses.
TakeRequest(c, statuses) ==
  LET op == OpOf[c]
  IN /\ up /\ asked[op] # <<>> /\ Head(asked[op]).cmd = c
     /\ op \in Persistent => Idle(c)
     /\ Head(asked[op]).status \in statuses
     /\ asked' = [asked EXCEPT ![op] = Tail(@)]

\* The response "executing" is sent back by the actor: that is what makes a
\* manager which does not persist its request execute it.
Starts(c)   == IF OpOf[c] \in Persistent THEN {"scheduled"} ELSE {"init", "scheduled"}
Executes(c) == IF OpOf[c] \in Persistent THEN {} ELSE {"executing"}

ManagerStart(c) ==
  /\ OpOf[c] \notin Rebooting /\ TakeRequest(c, Starts(c))
  /\ ManagerReplies(c, "executing")
  /\ IF OpOf[c] \in Persistent
     THEN manager' = [manager EXCEPT ![c] = "working"] /\ pending' = Stored(c)
     ELSE UNCHANGED <<manager, pending>>
  /\ UNCHANGED <<retained, net, disk, up, board, todo, witness, history>>

\* The restart manager persists its request, then dates a file that tells later
\* on whether the device has been restarted.
ManagerPrepares(c) ==
  /\ OpOf[c] \in Rebooting /\ TakeRequest(c, Starts(c))
  /\ manager' = [manager EXCEPT ![c] = "preparing"]
  /\ pending' = Stored(c)
  /\ UNCHANGED <<retained, net, disk, up, engineVars, witness, history>>

ManagerReady(c) ==
  /\ up /\ manager[c] = "preparing"
  /\ manager' = [manager EXCEPT ![c] = "working"]
  /\ witness' = "since"
  /\ ManagerReplies(c, "executing")
  /\ UNCHANGED <<retained, net, disk, up, board, todo, pending, asked, history>>

ManagerExecute(c) ==
  /\ TakeRequest(c, Executes(c))
  /\ manager' = [manager EXCEPT ![c] = "working"]
  /\ UNCHANGED <<retained, net, disk, up, engineVars, pending, witness, history>>

\* A request with a status the manager does not handle.
ManagerIgnores(c) ==
  /\ TakeRequest(c, (WorkflowStatuses \cup {"executing"}) \ (Starts(c) \cup Executes(c)))
  /\ UNCHANGED <<retained, net, disk, up, engineVars, pending, witness, manager, history>>

\* The software manager fails to load its plugins: no response is sent.
ManagerGivesUp(c) ==
  /\ OpOf[c] \in Persistent \ Rebooting
  /\ SetupMayFail /\ TakeRequest(c, Starts(c))
  /\ UNCHANGED <<retained, net, disk, up, engineVars, pending, witness, manager, history>>

\* The others report a failure to set up the request.
ManagerRefuses(c) ==
  /\ OpOf[c] \notin Persistent \ Rebooting
  /\ SetupMayFail /\ TakeRequest(c, Starts(c))
  /\ ManagerReplies(c, "failed")
  /\ UNCHANGED <<retained, net, disk, up, board, todo, pending, witness, manager, history>>

\* Without its dated file the restart manager reports a failure, but leaves the
\* request persisted.
ManagerUnready(c) ==
  /\ SetupMayFail /\ up /\ manager[c] = "preparing"
  /\ manager' = [manager EXCEPT ![c] = "idle"]
  /\ ManagerReplies(c, "failed")
  /\ UNCHANGED <<retained, net, disk, up, board, todo, pending, witness, asked, history>>

\* Does the manager end a request without restarting the agent?
EndsByItself(c) == OpOf[c] \notin Rebooting

\* The outcome is sent, then the persisted request is removed.
ManagerDone(c, status) ==
  /\ up /\ manager[c] = "working" /\ EndsByItself(c) /\ status \in Finished
  /\ manager' = [manager EXCEPT ![c] = IF OpOf[c] \in Persistent THEN "closing" ELSE "idle"]
  /\ ManagerReplies(c, status)
  /\ applied' = IF status = "successful" /\ Parent[c] # NoValue
                THEN [applied EXCEPT ![Parent[c]] = @ \cup {board[Parent[c]].next}]
                ELSE applied
  /\ UNCHANGED <<retained, net, disk, up, board, todo, pending, witness, asked,
                 requested, rebooted, early, stops>>

ManagerClose(c) ==
  /\ up /\ manager[c] = "closing"
  /\ manager' = [manager EXCEPT ![c] = "idle"]
  /\ pending' = Removed(c)
  /\ UNCHANGED <<retained, net, disk, up, engineVars, witness, asked, history>>

\* The restart manager succeeds by a restart.  If none occurs, the persisted
\* request is removed, then the failure is sent.
ManagerAborts(c) ==
  /\ up /\ manager[c] = "working" /\ OpOf[c] \in Rebooting
  /\ manager' = [manager EXCEPT ![c] = "reporting"]
  /\ pending' = Removed(c)
  /\ UNCHANGED <<retained, net, disk, up, engineVars, witness, asked, history>>

ManagerReports(c) ==
  /\ up /\ manager[c] = "reporting"
  /\ manager' = [manager EXCEPT ![c] = "idle"]
  /\ ManagerReplies(c, "failed")
  /\ UNCHANGED <<retained, net, disk, up, board, todo, pending, witness, asked, history>>

HasRebooted_Reversed == witness # "before"

\* has_rebooted(): no dated file is taken for a restart that has removed it.
HasRebooted == witness # "since"

\* On start, a manager ends the request found on disk: a failure, unless this
\* request was to restart the device and the device has been restarted.  Reading
\* the dates may fail.
ManagerRecovers(c, status) ==
  /\ up /\ manager[c] = "recovering"
  /\ status \in IF OpOf[c] \notin Rebooting \/ ~HasRebooted THEN {"failed"}
                ELSE IF witness = "none" THEN {"successful"} ELSE Finished
  /\ manager' = [manager EXCEPT ![c] = "closing"]
  /\ ManagerReplies(c, status)
  /\ UNCHANGED <<retained, net, disk, up, board, todo, pending, witness, asked, history>>

-----------------------------------------------------------------------------
(* Crash and restart of the agent *)

\* The persisted restarts without a file dated since the last boot, which tells a
\* restart of the agent from one of the device.
Undated == {c \in pending : OpOf[c] \in Rebooting /\ witness # "since"}

\* A boot of the device removes the restart file when it is in a volatile
\* directory, else leaves it behind as dated before the boot.
Crash(kind) ==
  /\ up /\ stops < MaxStops
  /\ stops' = stops + 1
  /\ up' = FALSE
  /\ board' = [c \in Cmds |-> Cleared]
  /\ input' = <<>> /\ todo' = <<>>
  /\ asked' = [op \in Ops |-> <<>>]
  /\ manager' = [c \in Cmds |-> "idle"]
  /\ witness' \in IF kind = "process" THEN {witness}
                   ELSE {"none", IF witness = "none" THEN "none" ELSE "before"}
  /\ rebooted' = IF kind = "device" THEN rebooted \cup pending ELSE rebooted
  /\ early' = IF kind = "process" THEN early \cup Undated ELSE early
  /\ UNCHANGED <<retained, net, disk, pending, requested, applied>>

\* resume_command()
Resumed(c, s) ==
  IF HasAction(c, s) /\ Action(c, s).do = "awaitRestart"
  THEN Goto(s, Action(c, s).onSuccess)
  ELSE IF HasAction(c, s) THEN s ELSE Goto(s, "failed")

LoadedBoard_ActiveOnly ==
  [c \in Cmds |-> IF HasAction(c, disk[c]) /\ Action(c, disk[c]).do = "awaitOperation"
                  THEN Cleared ELSE disk[c]]
LoadedBoard == disk

Orders(S) ==
  {q \in [1..Cardinality(S) -> S] : \A i, j \in DOMAIN q : q[i] = q[j] => i = j}

\* load_command_board(): each command is published and processed in turn.
ResumeEffects(q) ==
  [i \in 1..(2 * Len(q)) |->
     LET c == q[(i + 1) \div 2]
     IN Effect(IF i % 2 = 1 THEN "publish" ELSE "process", c, Resumed(c, disk[c]))]

\* The agent renews its subscriptions, so it receives the retained requests.
AgentRestart ==
  /\ ~up
  /\ up' = TRUE
  /\ board' = LoadedBoard
  /\ \E q \in Orders({c \in Cmds : disk[c] # Cleared}) : todo' = ResumeEffects(q)
  /\ \E q \in Orders({c \in Cmds : retained[c] = InitState}) :
       net' = net \o [i \in 1..Len(q) |-> Mqtt(q[i], InitState)]
  /\ manager' = [c \in Cmds |-> IF c \in pending THEN "recovering" ELSE "idle"]
  /\ UNCHANGED <<retained, disk, input, pending, witness, asked, history>>

-----------------------------------------------------------------------------

EngineInit ==
  /\ retained = [c \in Cmds |-> Cleared]
  /\ net = <<>>
  /\ disk = [c \in Cmds |-> Cleared]
  /\ pending = {} /\ witness = "none"
  /\ up = TRUE
  /\ board = [c \in Cmds |-> Cleared]
  /\ input = <<>> /\ todo = <<>>
  /\ asked = [op \in Ops |-> <<>>]
  /\ manager = [c \in Cmds |-> "idle"]
  /\ requested = {}
  /\ applied = [c \in Cmds |-> {}] /\ rebooted = {} /\ early = {}
  /\ stops = 0

WorkflowActor ==
  \/ OnMqtt \/ OnInternal \/ OnReply \/ Save \/ Send \/ PublishMessage \/ Dispatch
  \/ RunScript \/ RunInputScript \/ RunBackground \/ AwaitRestartTimeout \/ Process

Manager(c) ==
  \/ ManagerStart(c) \/ ManagerPrepares(c) \/ ManagerReady(c) \/ ManagerExecute(c)
  \/ ManagerIgnores(c) \/ ManagerGivesUp(c) \/ ManagerRefuses(c) \/ ManagerUnready(c)
  \/ ManagerClose(c) \/ ManagerAborts(c) \/ ManagerReports(c)
  \/ \E status \in Finished : ManagerDone(c, status) \/ ManagerRecovers(c, status)

EngineNext ==
  \/ \E c \in Cmds : Request(c) \/ ClearRequest(c) \/ Manager(c)
  \/ Deliver \/ WorkflowActor \/ AgentRestart
  \/ \E kind \in {"process", "device"} : Crash(kind)

EngineSpec == EngineInit /\ [][EngineNext]_workflowVars

\* The actor and the network serve what they have; scripts and managers end.
Fairness ==
  /\ WF_workflowVars(Deliver) /\ WF_workflowVars(WorkflowActor) /\ WF_workflowVars(AgentRestart)
  /\ \A c \in Cmds : WF_workflowVars(Manager(c))

FairSpec == EngineSpec /\ Fairness

-----------------------------------------------------------------------------
(* Properties *)

\* A command is driven by the messages the actor sends to itself about it, by
\* its builtin manager, and by the handler in progress.  A command which awaits
\* its builtin manager, its sub-command or its requester is driven by them.
Drives(c, s) == HasAction(c, s) /\ Action(c, s).do \notin {"clear", "awaitOperation"}
Echo(c, status) == OpOf[c] \in Persistent /\ status = "executing"

Drivers(c) ==
  LET message(m) == m.cmd = c /\ CASE m.from = "engine" -> Drives(c, m.state)
                                   [] m.from = "manager" -> ~Echo(c, m.state.status)
                                   [] m.from = "mqtt" -> FALSE
      effect(e) == e.cmd = c /\ CASE e.do \in {"save", "publish", "background"} -> FALSE
                                  [] e.do \in {"send", "process"} -> Drives(c, e.state)
                                  [] e.do = "dispatch" -> ~Echo(c, e.state.status)
                                  [] e.do \in {"script", "inputScript", "sleep"} -> TRUE
      request(r) == r.cmd = c /\ ~Echo(c, r.status)
  IN Len(SelectSeq(input, message)) + Len(SelectSeq(todo, effect))
       + Len(SelectSeq(asked[OpOf[c]], request))
       + (IF manager[c] \in {"preparing", "working", "reporting", "recovering"} THEN 1 ELSE 0)

\* A command is moved forward by one participant at a time: although the actor,
\* its managers and the sub-commands all send messages to its mailbox, no two
\* of them can make the actor process the same command.
SingleBaton == \A c \in Cmds : Drivers(c) <= 1

Awaiting(c) == HasAction(c, board[c]) /\ Action(c, board[c]).do = "awaitOperation"

\* Between two handlers, a sub-command found on the board is awaited by its
\* invoking command.  Otherwise its completion would resume nobody, or its
\* outcome would be taken for the outcome of another sub-command.
ParentAwaitsSub ==
  todo = <<>> => \A c \in Cmds : board[c] # Cleared /\ Parent[c] # NoValue => Awaiting(Parent[c])

\* The baton of a command goes from one participant to the next.
BatonPassed == SingleBaton /\ ParentAwaitsSub

\* The items of a command that its iteration comes to: the ones that are not marked
\* with @skip, and the first one whatever its mark.
Visited(c) == {i \in DOMAIN Items[c] : i = 1 \/ ~Items[c][i].skip}


\* The topic of a requested command never says that the command is in progress
\* when a restart of the agent would have forgotten it.
InProgressIsPersisted ==
  \A c \in Roots :
    Registered(c) /\ retained[c].status \notin {"init", "cleared"} \cup Finished =>
      disk[c] # Cleared

Restarts == {c \in Cmds : OpOf[c] \in Rebooting}

\* A device restart is reported as successful only if the device has been restarted
\* since the request was persisted, or the agent has been stopped in the window in
\* which this request is persisted and its file is not dated; and this window is over
\* when the restart is launched.  So a restart of the agent alone, at any other step
\* of the restart manager, recovery included, is no proof of a restart of the device
\* ("A simple process restart is considered as a `failed` restart",
\* docs/src/references/agent/restart-operation.md, which is not so in this window).
RestartNotFaked ==
  \A c \in Restarts :
    /\ retained[c].status = "successful" => c \in rebooted \cup early
    /\ manager[c] = "working" => witness = "since"

\* The statuses an action leads to by itself, without a success of its manager.
LeadsTo(a) ==
  CASE a.do = "move" -> {a.to}
    [] a.do \in {"builtin", "background"} -> {a.onExec}
    [] a.do = "script" -> a.to
    [] a.do = "awaitRestart" -> {a.onSuccess, a.onTimeout}
    [] a.do \in {"awaitOperation", "legacyBuiltin"} -> {a.onError}
    [] a.do = "clear" -> {}

\* The workflow of a device restart neither invokes another operation nor iterates,
\* and its success comes from the restart manager.
ByManagerOnly ==
  \A c \in Restarts :
    /\ \A d \in Cmds : Parent[d] # c
    /\ OpOf[c] \in DOMAIN Workflow => \A s \in DOMAIN Workflow[OpOf[c]] :
         LET a == Workflow[OpOf[c]][s]
         IN  a.do \notin {"operation", "iterate"} /\ "successful" \notin LeadsTo(a)

\* The topic of each command, and of each sub-command, follows the lifecycle of
\* a command: created once, taken, given one outcome and then only cleared.
CommandView ==
  [c \in Cmds |->
     LET st == retained[c].status
     IN CASE st = "cleared" -> [status |-> "none", version |-> NoValue]
          [] st = "init" -> [status |-> "init", version |-> NoValue]
          [] st \in Finished -> [status |-> st, version |-> OpOf[c]]
          [] st \notin {"cleared", "init"} \cup Finished ->
               [status |-> "executing", version |-> OpOf[c]]]
Lifecycle ==
  INSTANCE CommandLifecycle WITH command <- CommandView, Rules <- Ops, NoRule <- NoValue
ImplementsLifecycle == Lifecycle!Spec

\* A command which is requested or in progress is eventually finished: the actor
\* never sleeps on a command while no one is going to resume it.
CommandsComplete ==
  \A c \in Roots :
    (retained[c].status \notin {"cleared"} \cup Finished) ~> (retained[c].status \in Finished)

=============================================================================
