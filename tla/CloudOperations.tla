--------------------------- MODULE CloudOperations ---------------------------
(* The operations of Cumulocity, from the cloud to the local commands and back *)
(* (c8y_mapper_ext: the device control messages, the active commands of the    *)
(* converter, the operation handler and the handlers of each operation).       *)
(*                                                                             *)
(* The mapper turns an operation of the cloud into a command on a local topic, *)
(* follows its status, reports it to the cloud and clears the command. The     *)
(* messages of a command are handled one after the other by background tasks.  *)
(* The cloud and the agent, which processes the commands, are external.        *)
EXTENDS SequencesExt

CONSTANTS
  Ops,          \* the operations created in the cloud, named as their commands
  Mixes,        \* the mixes of operations considered: the kind of each one
  Cleared,      \* no command on a topic, an empty payload
  Batched,      \* whether the cloud sends its pending operations in one message
  Overlapping,  \* whether the cloud sends an operation again while the mapper is
                \* making a command of it, or its reports are on their way
  MaxCrashes    \* bound on the crashes of the mapper

Final == {"successful", "failed"}

Files == {"config_snapshot", "log_upload"}

\* "invalid": with an invalid parameter; "dropped": of a feature that is not enabled,
\* for an unknown device, or a profile without a name.
Kinds == Files \cup {"config_update", "firmware_update", "software_update", "restart",
                     "device_profile", "custom", "invalid", "dropped"}

ASSUME OperationAssumption ==
  /\ IsFiniteSet(Ops) /\ Mixes \subseteq [Ops -> Kinds]
  /\ Cleared \notin {"none", "init", "executing"} \cup Final
  /\ Batched \in BOOLEAN /\ Overlapping \in BOOLEAN /\ MaxCrashes \in Nat

VARIABLES
  kind,      \* what each operation is
  cloud,     \* the status of each operation in the cloud
  uplink,    \* the messages on their way to the cloud
  topic,     \* the status on the topic of each command
  ran,       \* the outcome of each command given by the agent, if any
  stored,    \* the operations whose file the cloud has got
  listed,    \* the operations after which the software has been listed again
  shown,     \* what the cloud is shown of the configuration, firmware or profile
             \* each operation is about: "target" or "applied", if anything
  up,        \* whether the mapper is running
  incoming,  \* the messages received by the mapper, or awaiting it
  active,    \* active_commands of the converter
  running,   \* the last status of each command in running_operations, if any
  tasks,     \* the statuses of each command being handled, the oldest running
  out,       \* the messages to be published by the mapper
  crashes

mapperVars == <<active, running, tasks>>
effectVars == <<listed, shown>>
operationVars ==
  <<kind, cloud, uplink, topic, ran, stored, effectVars, up, incoming, mapperVars, out, crashes>>

None == "none"

Operations(s) == [ops |-> s]                     \* from the cloud
Command(c, s) == [cmd |-> c, status |-> s]       \* on a local topic
Status(o, s) == [op |-> o, status |-> s]         \* to the cloud
PendingRequest == [op |-> None]
ListRequest(o) == [list |-> o]                   \* a new software_list command
Shows(o, x) == [of |-> o, what |-> x]            \* a fragment of the cloud, or a twin

OperationsInit ==
  /\ kind \in Mixes
  /\ cloud = [o \in Ops |-> None] /\ uplink = <<>>
  /\ topic = [c \in Ops |-> Cleared] /\ ran = [c \in Ops |-> None]
  /\ stored = {} /\ listed = {} /\ shown = [o \in Ops |-> None] /\ up = TRUE /\ incoming = <<>>
  /\ active = {} /\ running = [c \in Ops |-> None] /\ tasks = [c \in Ops |-> <<>>]
  /\ out = <<>> /\ crashes = 0

------------------------------------------------------------------------------
(* The cloud and the agent. (external)                                         *)

\* An operation is created and sent to the device, or kept until it asks for it.
CreateOperation(o) ==
  /\ cloud[o] = None
  /\ cloud' = [cloud EXCEPT ![o] = "pending"]
  /\ \/ incoming' = Append(incoming, Operations(<<o>>))
     \/ ~up /\ UNCHANGED incoming
  /\ UNCHANGED <<kind, uplink, topic, ran, stored, effectVars, up, mapperVars, out, crashes>>

\* The mapper is still to handle an operation or to see the command made of it, or
\* the cloud is still to receive what the mapper has reported of it.
Unseen(o) ==
  \/ \E i \in DOMAIN incoming : "ops" \in DOMAIN incoming[i] /\ Contains(incoming[i].ops, o)
  \/ \E s \in {out, uplink} : \E i \in DOMAIN s : o \in {s[i][f] : f \in DOMAIN s[i]}
  \/ topic[o] # Cleared /\ o \notin active

\* The cloud receives a status, or a request for its pending operations.
CloudReceives ==
  /\ uplink # <<>>
  /\ uplink' = Tail(uplink)
  /\ LET m == Head(uplink)
         pending == {o \in Ops : cloud[o] = "pending" /\ (Overlapping \/ ~Unseen(o))}
     IN  IF m = PendingRequest
         THEN /\ incoming' = IF pending = {} THEN incoming
                             ELSE IF Batched THEN Append(incoming, Operations(SetToSeq(pending)))
                             ELSE incoming \o SetToSeq({Operations(<<o>>) : o \in pending})
              /\ UNCHANGED cloud
         ELSE /\ cloud' = [cloud EXCEPT ![m.op] = m.status]
              /\ UNCHANGED incoming
  /\ UNCHANGED <<kind, topic, ran, stored, effectVars, up, mapperVars, out, crashes>>

\* The agent takes a command, or gives its outcome.
AgentStep(c) ==
  /\ \E s \in {"executing"} \cup Final :
       /\ IF s = "executing" THEN topic[c] = "init" ELSE topic[c] = "executing"
       /\ topic' = [topic EXCEPT ![c] = s]
       /\ ran' = IF s \in Final THEN [ran EXCEPT ![c] = s] ELSE ran
       /\ incoming' = Append(incoming, Command(c, s))
  /\ UNCHANGED <<kind, cloud, uplink, stored, effectVars, up, mapperVars, out, crashes>>

------------------------------------------------------------------------------
(* The converter.                                                              *)

\* What becomes of an operation: a command, a failure reported at once, or nothing.
Converted(o) ==
  IF kind[o] = "invalid" THEN <<Status(o, "executing"), Status(o, "failed")>>
  ELSE IF kind[o] = "dropped" THEN <<>>
  ELSE <<Command(o, "init")>>

\* parse_c8y_devicecontrol_topic: all the operations of a message are dropped if
\* one of them is already active.
DeviceControl_Any(ops) == FlattenSeq([i \in DOMAIN ops |-> Converted(ops[i])])
DeviceControl(ops) ==
  IF \E i \in DOMAIN ops : ops[i] \in active THEN <<>>
  ELSE FlattenSeq([i \in DOMAIN ops |-> Converted(ops[i])])

HandleOperations ==
  /\ up /\ incoming # <<>> /\ "ops" \in DOMAIN Head(incoming)
  /\ incoming' = Tail(incoming)
  /\ out' = out \o DeviceControl(Head(incoming).ops)
  /\ UNCHANGED <<kind, cloud, uplink, topic, ran, stored, effectVars, up, mapperVars, crashes>>

\* is_operation_status_transition_valid.
TransitionValid(previous, next) == previous # next /\ previous \notin Final

\* OperationHandler::handle, for a message that does not clear the command: a
\* task is spawned, which awaits the previous one of this command.
Handle(c, status) ==
  LET handled == running[c] = None \/ TransitionValid(running[c], status)
  IN  /\ running' = IF handled THEN [running EXCEPT ![c] = status] ELSE running
      /\ tasks' = IF handled THEN [tasks EXCEPT ![c] = Append(@, status)] ELSE tasks

\* A message on the topic of a command. The converter keeps a cleared one for
\* itself: the handler is not told.
HandleCommand ==
  /\ up /\ incoming # <<>> /\ "cmd" \in DOMAIN Head(incoming)
  /\ incoming' = Tail(incoming)
  /\ LET m == Head(incoming)
     IN  IF m.status = Cleared
         THEN active' = active \ {m.cmd} /\ UNCHANGED <<running, tasks>>
         ELSE active' = active \cup {m.cmd} /\ Handle(m.cmd, m.status)
  /\ UNCHANGED <<kind, cloud, uplink, topic, ran, stored, effectVars, up, out, crashes>>

------------------------------------------------------------------------------
(* The tasks.                                                                  *)

\* The handlers of the operations: what each one publishes given the outcome of
\* the command, ok telling whether what it does by itself works: the transfer of a
\* file from the agent to the cloud, the conversion of the output of a custom one.
Failed(c) == <<Status(c, "failed")>>
Succeeded(c) == <<Status(c, "successful")>>
Uploaded(c, ok) == IF ok THEN Succeeded(c) ELSE Failed(c)

ConfigSnapshot(c, status, ok) == IF status = "successful" THEN Uploaded(c, ok) ELSE Failed(c)
LogUpload(c, status, ok) == IF status = "successful" THEN Uploaded(c, ok) ELSE Failed(c)
ConfigUpdate(c, status) ==
  IF status = "successful" THEN <<Shows(c, "applied")>> \o Succeeded(c) ELSE Failed(c)
FirmwareUpdate(c, status) ==
  IF status = "successful" THEN Succeeded(c) \o <<Shows(c, "applied")>> ELSE Failed(c)
SoftwareUpdate(c, status) == <<Status(c, status), ListRequest(c)>>
DeviceRestart(c, status) == <<Status(c, status)>>
CustomOperation(c, status, ok) ==
  IF status = "successful" /\ ok THEN Succeeded(c) ELSE Failed(c)

\* The profile is about the firmware, the configuration and the software.
DeviceProfile(c, status) ==
  IF status = "successful"
  THEN <<ListRequest(c), Shows(c, "applied")>> \o Succeeded(c)
  ELSE <<ListRequest(c)>> \o Failed(c)

Reports_Unchecked(c, status, ok) == <<Status(c, status)>>
Reports(c, status, ok) ==
  CASE kind[c] = "config_snapshot" -> ConfigSnapshot(c, status, ok)
    [] kind[c] = "log_upload"      -> LogUpload(c, status, ok)
    [] kind[c] = "config_update"   -> ConfigUpdate(c, status)
    [] kind[c] = "firmware_update" -> FirmwareUpdate(c, status)
    [] kind[c] = "software_update" -> SoftwareUpdate(c, status)
    [] kind[c] = "restart"         -> DeviceRestart(c, status)
    [] kind[c] = "device_profile"  -> DeviceProfile(c, status)
    [] kind[c] = "custom"          -> CustomOperation(c, status, ok)

\* A profile is shown as a target as soon as it is executing.
Executing(c) ==
  <<Status(c, "executing")>> \o
    (IF kind[c] = "device_profile" THEN <<Shows(c, "target")>> ELSE <<>>)

\* The command is cleared once its outcome has been reported.
Finished_Cleared(c, reports) == <<Command(c, Cleared)>> \o reports
Finished(c, reports) == reports \o <<Command(c, Cleared)>>

\* OperationContext::update.
Outcome(c, status, ok) ==
  CASE status = "executing" -> Executing(c)
    [] status \in Final -> Finished(c, Reports(c, status, ok))
    [] OTHER -> <<>>

\* Which task of a command runs: the oldest, the next ones awaiting its end.
Runs_Any(c) == DOMAIN tasks[c]
Runs(c) == DOMAIN tasks[c] \cap {1}

TaskRuns(c) ==
  /\ up
  /\ \E i \in Runs(c) : \E ok \in BOOLEAN :
       /\ out' = out \o Outcome(c, tasks[c][i], ok)
       /\ tasks' = [tasks EXCEPT ![c] = RemoveAt(@, i)]
       /\ stored' = IF ok /\ kind[c] \in Files /\ tasks[c][i] = "successful"
                    THEN stored \cup {c} ELSE stored
  /\ UNCHANGED <<kind, cloud, uplink, topic, ran, effectVars, up, incoming, active, running, crashes>>

\* The mapper publishes a message: for the cloud, through the bridge, or on the
\* topic of a command, which it is also told of.
Publish ==
  /\ up /\ out # <<>>
  /\ out' = Tail(out)
  /\ LET m == Head(out)
     IN  /\ topic' = IF "cmd" \in DOMAIN m THEN [topic EXCEPT ![m.cmd] = m.status] ELSE topic
         /\ incoming' = IF "cmd" \in DOMAIN m THEN Append(incoming, m) ELSE incoming
         /\ uplink' = IF "op" \in DOMAIN m THEN Append(uplink, m) ELSE uplink
         /\ listed' = IF "list" \in DOMAIN m THEN listed \cup {m.list} ELSE listed
         /\ shown' = IF "of" \in DOMAIN m THEN [shown EXCEPT ![m.of] = m.what] ELSE shown
  /\ UNCHANGED <<kind, cloud, ran, stored, up, mapperVars, crashes>>

------------------------------------------------------------------------------
(* Crash and restart of the mapper: nothing it holds is persisted; it is sent  *)
(* the commands on their topics, and asks the cloud for what is pending.       *)

Crash ==
  /\ up /\ crashes < MaxCrashes
  /\ up' = FALSE /\ crashes' = crashes + 1
  /\ incoming' = <<>> /\ out' = <<>>
  /\ active' = {} /\ running' = [c \in Ops |-> None] /\ tasks' = [c \in Ops |-> <<>>]
  /\ UNCHANGED <<kind, cloud, uplink, topic, ran, stored, effectVars>>

Restart_NotAsking ==
  /\ ~up
  /\ up' = TRUE
  /\ incoming' = incoming \o SetToSeq({Command(c, topic[c]) : c \in {d \in Ops : topic[d] # Cleared}})
  /\ UNCHANGED <<kind, cloud, uplink, topic, ran, stored, effectVars, mapperVars, out, crashes>>

Restart ==
  /\ ~up
  /\ up' = TRUE
  /\ incoming' = incoming \o SetToSeq({Command(c, topic[c]) : c \in {d \in Ops : topic[d] # Cleared}})
  /\ out' = <<PendingRequest>>
  /\ UNCHANGED <<kind, cloud, uplink, topic, ran, stored, effectVars, mapperVars, crashes>>

------------------------------------------------------------------------------

OperationSteps ==
  \/ CloudReceives \/ HandleOperations \/ HandleCommand \/ Publish \/ Restart
  \/ \E c \in Ops : AgentStep(c) \/ TaskRuns(c)

OperationsNext == OperationSteps \/ Crash \/ \E o \in Ops : CreateOperation(o)

OperationsSpec == OperationsInit /\ [][OperationsNext]_operationVars

\* The cloud, the agent, the mapper and its tasks run on; a stopped mapper is
\* started again.
FairOperationsSpec == OperationsSpec /\ WF_operationVars(OperationSteps)

\* What a requester of commands may do (see CommandLifecycle), the definition
\* ruling a command being of no concern here.
Requester == INSTANCE CommandLifecycle WITH
  Cmds <- Ops, Rules <- {"any"}, NoRule <- None,
  command <- [c \in Ops |->
                [status |-> IF topic[c] = Cleared THEN "none" ELSE topic[c],
                 version |-> IF topic[c] \in {Cleared, "init"} THEN None ELSE "any"]]

------------------------------------------------------------------------------

\* The state is well formed.
OperationsTypeOK ==
  /\ kind \in Mixes /\ shown \in [Ops -> {None, "target", "applied"}]
  /\ cloud \in [Ops -> {None, "pending", "executing"} \cup Final]
  /\ topic \in [Ops -> {Cleared, "init", "executing"} \cup Final]
  /\ ran \in [Ops -> {None} \cup Final] /\ stored \subseteq Ops /\ listed \subseteq Ops
  /\ up \in BOOLEAN /\ active \subseteq Ops
  /\ running \in [Ops -> {None, "init", "executing"} \cup Final]
  /\ tasks \in [Ops -> Seq({"init", "executing"} \cup Final)]
  /\ crashes \in 0 .. MaxCrashes

\* The cloud is told of a success only if the agent has succeeded and the file
\* the operation is about, if any, has reached the cloud (get_smartrest_response
\* _for_upload_result); of a failure only if something has failed; and it is shown
\* as applied only what has been.
CloudAgrees ==
  \A o \in Ops :
    /\ cloud[o] = "successful" => ran[o] = "successful" /\ (kind[o] \in Files => o \in stored)
    /\ cloud[o] = "failed" => ran[o] = "failed" \/ kind[o] \in Files \cup {"custom", "invalid"}
    /\ shown[o] = "applied" => ran[o] = "successful"

\* A command is cleared only once its outcome is with the cloud or on its way
\* there, and so are the installed software, firmware or configuration: a crash of
\* the mapper between two messages never makes it forget what it owes (update in
\* OperationContext clears last).
ReportedBeforeCleared ==
  \A o \in Ops : ran[o] # None /\ topic[o] = Cleared =>
    /\ \/ cloud[o] \in Final
       \/ \E i \in DOMAIN uplink : uplink[i].op = o /\ uplink[i].status \in Final
    /\ kind[o] \in {"software_update", "device_profile"} => o \in listed
    /\ kind[o] \in {"config_update", "firmware_update", "device_profile"}
         /\ ran[o] = "successful" => shown[o] = "applied"

\* The cloud is never told that an operation is executing once it has been told
\* of its outcome, nor of another outcome, the ones retried by a new task after a
\* crash excepted; nor is an applied profile shown as a target again.
NotReversed ==
  [][\A o \in Ops :
       /\ cloud[o] \in Final =>
            \/ cloud'[o] = cloud[o]
            \/ kind[o] \in Files \cup {"custom"} /\ cloud'[o] \in Final
       /\ shown[o] = "applied" => shown'[o] = "applied"]_operationVars

\* The mapper keeps to the life cycle of commands: it creates one only on a free
\* topic, and clears it only once it has an outcome (active_commands).
RequesterBehaves == Requester!Spec

\* Every operation made a command comes to an outcome in the cloud, and nothing
\* is left on the topic of its command, the mapper crashing at any time (the
\* commands are retained, the operations resent while pending). An invalid one may
\* be left executing by a crash between the two messages that report it.
EveryOperationEnds ==
  \A o \in Ops :
    cloud[o] = "pending" /\ kind[o] \notin {"invalid", "dropped"} ~> cloud[o] \in Final /\ topic[o] = Cleared

=============================================================================
