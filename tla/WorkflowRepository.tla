-------------------------- MODULE WorkflowRepository --------------------------
(***************************************************************************)
(* The store of operation workflows kept by tedge-agent, and the life of   *)
(* the commands that use them.                                             *)
(*                                                                         *)
(* WorkflowRepository (operation_workflows/persist.rs) is a facade to      *)
(* WorkflowSupervisor (workflow/supervisor.rs).  The user edits the TOML   *)
(* definitions at any time; a command must be ruled until its end by the   *)
(* definition it was started with, across edits and agent restarts.  So    *)
(* the agent keeps, per operation, the current version and the versions in *)
(* use, copies on disk the definitions in use, and counts their users.     *)
(*                                                                         *)
(* The states a command goes through between init and its outcome are one  *)
(* status here, "executing"; module WorkflowEngine details them.           *)
(***************************************************************************)
EXTENDS Naturals, Sequences, FiniteSets

CONSTANTS
  Ops,              \* operation names
  Versions,         \* well-formed definitions, each identified by its digest
  OpOf,             \* the operation a definition is for
  Builtins,         \* the operations with a built-in workflow
  Files,            \* paths of the user-defined workflow directory
  FileOf,           \* the path <operation>.toml
  Cmds,             \* command topics
  CmdOp,            \* the operation of a command topic
  Legacy,           \* commands persisted by an agent unaware of versions
  Builtin,          \* the version "builtin"
  None,             \* no value
  Absent,           \* content of a path without file
  Garbage,          \* content that is not a workflow definition
  MaxCrashes,       \* bound on agent crashes
  MaxEdits,         \* bound on edits of the definitions
  MaxRedeliveries   \* bound on redeliveries of a retained message

ASSUME RepositoryAssumptions ==
  /\ OpOf \in [Versions -> Ops]
  /\ Builtins \subseteq Ops
  /\ FileOf \in [Ops -> Files]
  /\ CmdOp \in [Cmds -> Ops]
  /\ Legacy \subseteq Cmds
  /\ Builtin \notin Versions /\ None \notin Versions /\ None # Builtin
  /\ None \notin Files
  /\ Absent \notin Versions /\ Garbage \notin Versions /\ Absent # Garbage
  /\ MaxCrashes \in Nat /\ MaxEdits \in Nat /\ MaxRedeliveries \in Nat
  /\ IsFiniteSet(Versions) /\ IsFiniteSet(Cmds)

VARIABLES
  userDir,      \* on disk: /etc/tedge/operations
  copyDir,      \* on disk: workflows-in-use/<operation>-<version>.toml
  savedBoard,   \* on disk: the persisted command board
  retained,     \* on the broker: the retained message of each command topic
  announced,    \* on the broker: is the capability of an operation retained?
  inbox,        \* on the broker: per topic, what the agent has still to process
  fsEvents,     \* file events the agent has still to process
  up,           \* is the agent running?
  definitions,  \* WorkflowRepository.definitions
  copies,       \* WorkflowRepository.in_use_copies
  current,      \* WorkflowVersions.current, per operation
  inUse,        \* WorkflowVersions.in_use, per operation
  board,        \* the command board
  live,         \* commands with a step to come in this run of the agent
  job,          \* what is left to do of the init request under processing
  requested,    \* the commands the requester has created so far
  crashes, edits, redeliveries,
  raced         \* has a file been deleted, broken, or edited while it was used?

diskVars   == <<copyDir, savedBoard>>
brokerVars == <<retained, announced, inbox>>
memVars    == <<up, definitions, copies, current, inUse, board, live, job>>
boundVars  == <<requested, crashes, edits, redeliveries, raced>>
vars == <<userDir, diskVars, brokerVars, fsEvents, memVars, boundVars>>

NoDef == [version |-> None, file |-> None]
NoCmd == [status |-> "none", version |-> None]
NoJob == [step |-> "idle", cmd |-> None, version |-> None]

AnyVersion == Versions \cup {Builtin, None}
Content    == Versions \cup {Absent, Garbage}
Finished   == {"successful", "failed"}
CmdState   == [status : {"none", "init", "executing"} \cup Finished,
               version : AnyVersion]
Message    == [status : {"init", "executing", "cleared"} \cup Finished,
               version : AnyVersion]

FsEvent    == [kind : {"modified", "deleted"}, file : Files]

TypeOK ==
  /\ userDir \in [Files -> Content]
  /\ copyDir \in [Versions -> Content]
  /\ savedBoard \in [Cmds -> CmdState]
  /\ retained \in [Cmds -> CmdState]
  /\ announced \in [Ops -> BOOLEAN]
  /\ inbox \in [Cmds -> Seq(Message)]
  /\ fsEvents \in Seq(FsEvent)
  /\ up \in BOOLEAN
  /\ definitions \in [Ops -> [version : Versions, file : Files] \cup {NoDef}]
  /\ copies \in [Versions -> Nat]
  /\ current \in [Ops -> Versions \cup {None}]
  /\ inUse \in [Ops -> SUBSET (Versions \cup {Builtin})]
  /\ board \in [Cmds -> CmdState]
  /\ live \subseteq Cmds
  /\ job \in [step : {"persist", "start"}, cmd : Cmds,
              version : Versions \cup {Builtin}] \cup {NoJob}
  /\ requested \subseteq Cmds
  /\ crashes \in Nat /\ edits \in Nat /\ redeliveries \in Nat
  /\ raced \in BOOLEAN

-----------------------------------------------------------------------------
(* Operations on the tables of workflows *)

\* load_operation_workflow() with a UserDefined source.
WithDefinition(defs, v, f) ==
  [defs EXCEPT ![OpOf[v]] = [version |-> v, file |-> f]]
WithCurrent(cur, v) == [cur EXCEPT ![OpOf[v]] = v]

\* The version given to a new command: the current one, else the built-in one.
\* None when the operation is unknown or deprecated.
UseCurrentVersion(cur, use, op) ==
  IF cur[op] # None THEN cur[op]
  ELSE IF Builtin \in use[op] THEN Builtin ELSE None

\* An operation with neither a current version nor a version in use has no
\* entry in the supervisor's table.
Registered(op) == current[op] # None \/ inUse[op] # {}

\* get_latest_version(): the path where the definition of op is expected, and
\* whether it holds another version than the one known.
LatestPath(op) ==
  IF definitions[op].version = None THEN FileOf[op] ELSE definitions[op].file
HasLatest(op) ==
  /\ userDir[LatestPath(op)] \in Versions
  /\ userDir[LatestPath(op)] # definitions[op].version

\* load_latest_version()
LatestDefinitions(op) ==
  IF HasLatest(op)
  THEN WithDefinition(definitions, userDir[LatestPath(op)], LatestPath(op))
  ELSE definitions
LatestCurrent_Forgotten(op) == current
LatestCurrent(op) ==
  IF HasLatest(op) THEN WithCurrent(current, userDir[LatestPath(op)]) ELSE current

Echo_NoInit(m) == IF m.status \in Finished \cup {"cleared"} THEN <<m>> ELSE <<>>

\* Only these messages have an effect when the agent receives them: it ignores
\* its own intermediate updates.
Echo(m) == IF m.status = "executing" \/ m.status = "none" THEN <<>> ELSE <<m>>

-----------------------------------------------------------------------------
(* The requester of commands, in practice the mapper *)

Request(c) ==
  /\ c \notin requested
  /\ requested' = requested \cup {c}
  /\ retained' = [retained EXCEPT ![c] = [status |-> "init", version |-> None]]
  /\ inbox' = [inbox EXCEPT ![c] = Append(@, [status |-> "init", version |-> None])]
  /\ UNCHANGED <<userDir, diskVars, announced, fsEvents, memVars,
                 crashes, edits, redeliveries, raced>>

\* The requester clears a command it has seen successful or failed.
ClearRequest(c) ==
  /\ retained[c].status \in Finished
  /\ retained' = [retained EXCEPT ![c] = NoCmd]
  /\ inbox' = [inbox EXCEPT ![c] = Append(@, [status |-> "cleared", version |-> None])]
  /\ UNCHANGED <<userDir, diskVars, announced, fsEvents, memVars, boundVars>>

\* The broker sends a retained message again when the agent has to renew its
\* subscriptions after a connection loss.
Redeliver(c) ==
  /\ up /\ redeliveries < MaxRedeliveries
  /\ retained[c].status # "none"
  /\ redeliveries' = redeliveries + 1
  /\ inbox' = [inbox EXCEPT ![c] = @ \o Echo(retained[c])]
  /\ UNCHANGED <<userDir, diskVars, retained, announced, fsEvents, memVars,
                 requested, crashes, edits, raced>>

-----------------------------------------------------------------------------
(* The user edits the workflow definitions *)

Notify(kind, f) ==
  fsEvents' = IF up THEN Append(fsEvents, [kind |-> kind, file |-> f]) ELSE fsEvents

\* An orderly edit: a definition is added, or updated, while no request is
\* between the read of a file and its copy.
Orderly(old, new) ==
  /\ job = NoJob /\ new \in Versions
  /\ old = Absent \/ (old \in Versions /\ OpOf[old] = OpOf[new])

WriteFile(f, content) ==
  /\ edits < MaxEdits /\ content \in Content \ {Absent, userDir[f]}
  /\ userDir' = [userDir EXCEPT ![f] = content]
  /\ Notify("modified", f)
  /\ edits' = edits + 1
  /\ raced' = (raced \/ ~Orderly(userDir[f], content))
  /\ UNCHANGED <<diskVars, brokerVars, memVars, requested, crashes, redeliveries>>

DeleteFile(f) ==
  /\ edits < MaxEdits /\ userDir[f] # Absent
  /\ userDir' = [userDir EXCEPT ![f] = Absent]
  /\ Notify("deleted", f)
  /\ edits' = edits + 1 /\ raced' = TRUE
  /\ UNCHANGED <<diskVars, brokerVars, memVars, requested, crashes, redeliveries>>

-----------------------------------------------------------------------------
(* update_operation_workflows(): the agent handles a file event *)

Idle == up /\ job = NoJob

\* A Modified event: the file is loaded again, unless it is unreadable or has
\* been deleted meantime, and the capability is announced.
OnModified ==
  /\ Idle /\ fsEvents # <<>> /\ Head(fsEvents).kind = "modified"
  /\ fsEvents' = Tail(fsEvents)
  /\ LET f == Head(fsEvents).file
         v == userDir[f]
     IN IF v \in Versions
        THEN /\ definitions' = WithDefinition(definitions, v, f)
             /\ current' = WithCurrent(current, v)
             /\ announced' = [announced EXCEPT ![OpOf[v]] = TRUE]
        ELSE UNCHANGED <<definitions, current, announced>>
  /\ UNCHANGED <<userDir, diskVars, retained, inbox, up, copies, inUse, board,
                 live, job, boundVars>>

\* WorkflowVersions.remove() then the removal of an empty entry, as done by
\* unregister_custom_workflow().
RemainingInUse_Eager(op, v) == inUse[op] \ {v}
RemainingInUse(op, v) ==
  IF current[op] = v \/ v = Builtin THEN inUse[op] ELSE inUse[op] \ {v}
RemainingCurrent(op, v) ==
  IF current[op] = v \/ RemainingInUse(op, v) = {} THEN None ELSE current[op]
BuiltinRestored_Always(op, v) == TRUE
BuiltinRestored(op, v) == Builtin \in RemainingInUse(op, v)

\* A FileDeleted event: among the operations defined by this path, one is
\* removed.  Which one depends on the iteration order of a hash map.
OnDeleted ==
  /\ Idle /\ fsEvents # <<>> /\ Head(fsEvents).kind = "deleted"
  /\ fsEvents' = Tail(fsEvents)
  /\ LET defined == {op \in Ops : definitions[op].file = Head(fsEvents).file}
     IN \/ /\ defined = {}
           /\ UNCHANGED <<definitions, current, inUse, announced>>
        \/ \E op \in defined :
             LET v == definitions[op].version
             IN /\ definitions' = [definitions EXCEPT ![op] = NoDef]
                /\ current' = [current EXCEPT ![op] = RemainingCurrent(op, v)]
                /\ inUse' = [inUse EXCEPT ![op] = RemainingInUse(op, v)]
                /\ announced' = [announced EXCEPT ![op] = @ /\ BuiltinRestored(op, v)]
  /\ UNCHANGED <<userDir, diskVars, retained, inbox, up, copies, board, live,
                 job, boundVars>>

-----------------------------------------------------------------------------
(* process_mqtt_message(): the agent handles a message on a command topic *)

Receive(c, statuses) ==
  /\ Idle /\ inbox[c] # <<>> /\ Head(inbox[c]).status \in statuses
  /\ inbox' = [inbox EXCEPT ![c] = Tail(@)]

\* CommandBoard.insert()
Accepts_Any(c, new) == TRUE
Accepts(c, new) == board[c] \in {NoCmd, new}

\* A new request takes the latest version found on disk.  It is ignored when
\* the operation is unknown or deprecated, and rejected when the command is
\* already on the board in another state.
OnInit(c) ==
  LET op  == CmdOp[c]
      v   == UseCurrentVersion(LatestCurrent(op), inUse, op)
      new == [status |-> "init", version |-> v]
      accepted == v # None /\ Accepts(c, new)
  IN /\ Receive(c, {"init"})
     /\ definitions' = LatestDefinitions(op)
     /\ current' = LatestCurrent(op)
     /\ inUse' = IF v = None THEN inUse ELSE [inUse EXCEPT ![op] = @ \cup {v}]
     /\ board' = IF accepted THEN [board EXCEPT ![c] = new] ELSE board
     /\ job' = IF accepted
               THEN [step |-> "persist", cmd |-> c, version |-> v] ELSE NoJob
     /\ UNCHANGED <<userDir, diskVars, retained, announced, fsEvents, up, copies,
                    live, boundVars>>

\* persist_workflow_definition() then persist_command_board().  The file is
\* read a second time, to be copied.
CountedUse_Once(v, copied) == IF copied THEN 1 ELSE copies[v]
CountedUse(v, copied) == IF copied \/ copies[v] > 0 THEN copies[v] + 1 ELSE 0

PersistDefinition ==
  LET v == job.version
      def == definitions[CmdOp[job.cmd]]
      copied == /\ v # Builtin /\ copies[v] = 0
                /\ def.version # None /\ userDir[def.file] # Absent
  IN /\ up /\ job.step = "persist"
     /\ copyDir' = IF copied THEN [copyDir EXCEPT ![v] = userDir[def.file]] ELSE copyDir
     /\ copies' = IF v = Builtin THEN copies
                  ELSE [copies EXCEPT ![v] = CountedUse(v, copied)]
     /\ savedBoard' = board
     /\ job' = [job EXCEPT !.step = "start"]
     /\ UNCHANGED <<userDir, brokerVars, fsEvents, up, definitions, current, inUse,
                    board, live, boundVars>>

\* publish_command_state(): the board, its persisted copy, the retained message
\* and the agent's own copy of the message.
Publish(c, state) ==
  /\ board' = [board EXCEPT ![c] = state]
  /\ savedBoard' = board'
  /\ retained' = [retained EXCEPT ![c] = state]
  /\ inbox' = [inbox EXCEPT ![c] = @ \o Echo(state)]

\* process_command_update() moves the new command out of its init state.
StartCommand ==
  /\ up /\ job.step = "start"
  /\ Publish(job.cmd, [status |-> "executing", version |-> job.version])
  /\ live' = live \cup {job.cmd}
  /\ job' = NoJob
  /\ UNCHANGED <<userDir, copyDir, announced, fsEvents, up, definitions, copies,
                 current, inUse, boundVars>>

\* A later process_command_update() brings the command to its outcome, provided
\* get_action() finds the version of the command.
FinishCommand(c, outcome) ==
  /\ Idle /\ c \in live
  /\ board[c].version \in inUse[CmdOp[c]]
  /\ Publish(c, [status |-> outcome, version |-> board[c].version])
  /\ live' = live \ {c}
  /\ UNCHANGED <<userDir, copyDir, announced, fsEvents, up, definitions, copies,
                 current, inUse, job, boundVars>>

\* release_in_use_copy(), on any message saying that a command is finished.
LastUse(v) == copies[v] <= 1
ReleasedCount(v) == IF LastUse(v) THEN 0 ELSE copies[v] - 1

OnFinished(c) ==
  LET v == Head(inbox[c]).version
  IN /\ Receive(c, Finished)
     /\ IF v \in {Builtin, None}
        THEN UNCHANGED <<copies, copyDir>>
        ELSE /\ copies' = [copies EXCEPT ![v] = ReleasedCount(v)]
             /\ copyDir' = IF LastUse(v) THEN [copyDir EXCEPT ![v] = Absent] ELSE copyDir
     /\ UNCHANGED <<userDir, savedBoard, retained, announced, fsEvents, up,
                    definitions, current, inUse, board, live, job, boundVars>>

\* The command is removed from the board, unless its operation is unknown.
OnCleared(c) ==
  /\ Receive(c, {"cleared"})
  /\ IF Registered(CmdOp[c])
     THEN /\ board' = [board EXCEPT ![c] = NoCmd]
          /\ savedBoard' = board'
          /\ live' = live \ {c}
     ELSE UNCHANGED <<board, savedBoard, live>>
  /\ UNCHANGED <<userDir, copyDir, retained, announced, fsEvents, up, definitions,
                 copies, current, inUse, job, boundVars>>

-----------------------------------------------------------------------------
(* Crash and restart of the agent *)

\* All the state in memory is lost, and the messages received but not processed:
\* the session being persistent, the broker keeps those not acknowledged yet.
Suffixes(s) == {SubSeq(s, i, Len(s)) : i \in 1..(Len(s) + 1)}

Crash ==
  /\ up /\ crashes < MaxCrashes
  /\ crashes' = crashes + 1
  /\ up' = FALSE
  /\ definitions' = [op \in Ops |-> NoDef]
  /\ copies' = [v \in Versions |-> 0]
  /\ current' = [op \in Ops |-> None]
  /\ inUse' = [op \in Ops |-> {}]
  /\ board' = [c \in Cmds |-> NoCmd]
  /\ live' = {} /\ job' = NoJob /\ fsEvents' = <<>>
  /\ inbox' \in {f \in [Cmds -> UNION {Suffixes(inbox[c]) : c \in Cmds}] :
                  \A c \in Cmds : f[c] \in Suffixes(inbox[c])}
  /\ UNCHANGED <<userDir, diskVars, retained, announced, requested, edits, redeliveries, raced>>

\* load(): which file defines each operation.  When several do, the last one
\* read wins.
Sources ==
  {src \in [Ops -> Files \cup {None}] :
     \A op \in Ops :
       LET defining == {f \in Files : userDir[f] \in Versions /\ OpOf[userDir[f]] = op}
       IN IF defining = {} THEN src[op] = None ELSE src[op] \in defining}

\* load(): the copies found in the state directory, then the built-in workflows.
CopyFiles(w) == {v \in Versions : copyDir[v] = w}
LoadedInUse ==
  [op \in Ops |-> {w \in Versions : OpOf[w] = op /\ CopyFiles(w) # {}}
                    \cup IF op \in Builtins THEN {Builtin} ELSE {}]

LoadedDefinitions(src) ==
  [op \in Ops |-> IF src[op] = None THEN NoDef
                  ELSE [version |-> userDir[src[op]], file |-> src[op]]]
LoadedCurrent(src) == [op \in Ops |-> LoadedDefinitions(src)[op].version]

\* load_pending_commands(): a persisted command without a version is given the
\* current one, which is then in use.
Unversioned(c) == savedBoard[c].status # "none" /\ savedBoard[c].version = None
AdoptedVersion(src, c) ==
  IF Unversioned(c) THEN UseCurrentVersion(LoadedCurrent(src), LoadedInUse, CmdOp[c])
  ELSE savedBoard[c].version
Pending(src) ==
  [c \in Cmds |-> [status |-> savedBoard[c].status, version |-> AdoptedVersion(src, c)]]
Adopters(src, v) == {c \in Cmds : Unversioned(c) /\ AdoptedVersion(src, c) = v}
InUseOnStart(src) ==
  [op \in Ops |-> LoadedInUse[op] \cup
                  {v \in Versions \cup {Builtin} :
                     \E c \in Adopters(src, v) : CmdOp[c] = op}]

\* resume_command(): a command whose version is not found is failed, although it
\* stays as it is on the board; the others are published as they were persisted.
Found(src, c) == AdoptedVersion(src, c) \in InUseOnStart(src)[CmdOp[c]]
Resumed(src, c) ==
  IF savedBoard[c].status = "none" \/ Found(src, c) THEN Pending(src)[c]
  ELSE [Pending(src)[c] EXCEPT !.status = "failed"]

\* A command found in its init state proceeds at once.
Started(src, c) == savedBoard[c].status = "init" /\ Found(src, c)
BoardOnStart(src) ==
  [c \in Cmds |-> IF Started(src, c) THEN [Pending(src)[c] EXCEPT !.status = "executing"]
                  ELSE Pending(src)[c]]

Restart ==
  /\ ~up
  /\ up' = TRUE
  /\ \E src \in Sources :
       /\ definitions' = LoadedDefinitions(src)
       /\ current' = LoadedCurrent(src)
       /\ inUse' = InUseOnStart(src)
       /\ copyDir' = [v \in Versions |-> IF Adopters(src, v) # {} /\ CopyFiles(v) = {}
                                         THEN v ELSE copyDir[v]]
       /\ copies' = [v \in Versions |-> Cardinality(CopyFiles(v))
                                          + Cardinality(Adopters(src, v))]
       /\ board' = BoardOnStart(src)
       /\ savedBoard' = IF \E c \in Cmds : Started(src, c) THEN board' ELSE savedBoard
       /\ live' = {c \in Cmds : Found(src, c) /\ board'[c].status = "executing"}
       /\ retained' = [c \in Cmds |->
                         IF savedBoard[c].status = "none" THEN retained[c]
                         ELSE IF Started(src, c) THEN board'[c] ELSE Resumed(src, c)]
       /\ inbox' = [c \in Cmds |-> inbox[c] \o Echo(retained[c]) \o Echo(Resumed(src, c))]
       /\ announced' = [op \in Ops |-> announced[op] \/ current'[op] # None
                                         \/ op \in Builtins]
  /\ job' = NoJob /\ fsEvents' = <<>>
  /\ UNCHANGED <<userDir, boundVars>>

-----------------------------------------------------------------------------

Init ==
  /\ userDir \in [Files -> Versions \cup {Absent}]
  /\ copyDir = [v \in Versions |-> Absent]
  /\ savedBoard = [c \in Cmds |-> IF c \in Legacy
                                  THEN [status |-> "executing", version |-> None]
                                  ELSE NoCmd]
  /\ retained = savedBoard
  /\ announced = [op \in Ops |-> FALSE]
  /\ inbox = [c \in Cmds |-> <<>>]
  /\ fsEvents = <<>>
  /\ up = FALSE
  /\ definitions = [op \in Ops |-> NoDef]
  /\ copies = [v \in Versions |-> 0]
  /\ current = [op \in Ops |-> None]
  /\ inUse = [op \in Ops |-> {}]
  /\ board = [c \in Cmds |-> NoCmd]
  /\ live = {} /\ job = NoJob
  /\ requested = Legacy
  /\ crashes = 0 /\ edits = 0 /\ redeliveries = 0 /\ raced = FALSE

Next ==
  \/ \E c \in Cmds : Request(c) \/ ClearRequest(c) \/ Redeliver(c)
  \/ \E f \in Files : DeleteFile(f) \/ \E content \in Content : WriteFile(f, content)
  \/ OnModified \/ OnDeleted
  \/ \E c \in Cmds : OnInit(c) \/ OnFinished(c) \/ OnCleared(c)
  \/ PersistDefinition \/ StartCommand
  \/ \E c \in Cmds, outcome \in Finished : FinishCommand(c, outcome)
  \/ Crash \/ Restart

Spec == Init /\ [][Next]_vars

\* The agent restarts after a crash (it is a service) and serves all its inputs
\* (its mailbox is a single queue).  Nothing is assumed of the user.
Fairness ==
  /\ WF_vars(Restart) /\ WF_vars(PersistDefinition) /\ WF_vars(StartCommand)
  /\ \A c \in Cmds :
       /\ WF_vars(OnInit(c)) /\ WF_vars(OnFinished(c)) /\ WF_vars(OnCleared(c))
       /\ WF_vars(\E outcome \in Finished : FinishCommand(c, outcome))

FairSpec == Spec /\ Fairness

-----------------------------------------------------------------------------
(* Properties that hold whatever the user, the broker and the crashes do *)

\* The table of definitions, used to look for changes and to copy files, and
\* the supervisor's table, used to run commands, are updated apart; still they
\* always agree on the current version of an operation.
CurrentMatchesDefinition ==
  \A op \in Ops : definitions[op].version = current[op]

\* A command with a step to come finds the definition it was started with, so
\* FinishCommand is never prevented: updating or deleting a workflow never takes
\* away a version from the commands using it.
LiveVersionLoaded ==
  \A c \in live : board[c].status = "executing"
                    /\ board[c].version \in inUse[CmdOp[c]]

\* A command on the board never moves to another version of its workflow, be it
\* edited, deleted, or the init request of the command received twice.
VersionPinned ==
  [][\A c \in Cmds : board[c].version # None /\ board'[c].status # "none"
                        => board'[c].version = board[c].version]_vars

\* Every request for a supported operation gets an outcome, even when the agent
\* crashes between any two of its steps.
RequestAnswered ==
  \A c \in Cmds : CmdOp[c] \in Builtins =>
    (retained[c].status = "init" ~> retained[c].status \in Finished \cup {"none"})

-----------------------------------------------------------------------------
(* Properties of the copies on disk of the definitions in use *)

Running(c) == c \in live \/ (job.step = "start" /\ job.cmd = c)
Version(c) == board[c].version

\* The definition of a running command can be found again after a crash: "The
\* point is to be sure the command execution is ruled by its initial workflow
\* unchanged even if the user pushes a new version meantime".
CopyWhileRunning ==
  \A c \in Cmds : up /\ Running(c) /\ Version(c) \in Versions
                     => copyDir[Version(c)] # Absent

\* The copy of a definition is a copy of that definition and of no other.
CopyFaithful == \A v \in Versions : copyDir[v] \in {v, Absent}

\* No copy is left behind once all the commands are done: "When all the commands
\* using a given version are finalized, these copies are removed".
NoCopyLeak ==
  Idle /\ live = {} /\ (\A c \in Cmds : inbox[c] = <<>>)
    => \A v \in Versions : copyDir[v] = Absent /\ copies[v] = 0

\* The copies kept on disk are exactly those the running commands need: present,
\* faithful, and removed once unused; provided the agent has not crashed, no
\* message has been delivered twice, and the edits have been orderly.
CopiesTrackUse ==
  crashes = 0 /\ redeliveries = 0 /\ ~raced
    => CopyWhileRunning /\ CopyFaithful /\ NoCopyLeak

\* A capability announced over MQTT is honoured: a new command for this operation
\* is given a workflow.  The announcements are withdrawn by the file events, that
\* race with the edits of the files and the requests loading them again.
CapabilityHonoured ==
  up => \A op \in Ops : announced[op] => UseCurrentVersion(current, inUse, op) # None

-----------------------------------------------------------------------------
(* What the requester observes on the command topics *)

\* The life of the commands, as seen on the command topics, is the one
\* CommandLifecycle promises.
Lifecycle ==
  INSTANCE CommandLifecycle
    WITH Rules <- Versions \cup {Builtin}, NoRule <- None, command <- retained
ImplementsLifecycle == Lifecycle!Spec

=============================================================================
