--------------------------- MODULE FirmwareManager ---------------------------
(* The firmware updates of child devices (c8y_firmware_manager): the actor,    *)
(* which receives the operations of the cloud and the responses of the child   *)
(* devices, and the workers it spawns, one for each operation, which download  *)
(* the firmware, ask the child device to install it and await its responses.   *)
(*                                                                             *)
(* An operation being processed is recorded in a status file. The cloud is     *)
(* told of a status by the name of the operation, not by its identity: it      *)
(* starts the oldest pending one of the child device, ends the oldest          *)
(* executing one. The cloud and the child devices are external.                *)
EXTENDS Selections, SequencesExt

CONSTANTS
  Requests,         \* the operations created in the cloud, each with a firmware
  Child,            \* the child device of each
  MaxIds,           \* bound on the operations received: the identifiers to draw
  MaxRedeliveries,  \* bound on the times the cloud is asked for what is pending
  MaxCrashes        \* bound on the crashes of the manager

None == "none"
Ids == 1 .. MaxIds
Final == {"successful", "failed"}

ASSUME FirmwareAssumption ==
  /\ None \notin Requests /\ DOMAIN Child = Requests
  /\ MaxIds \in Nat /\ MaxRedeliveries \in Nat /\ MaxCrashes \in Nat

VARIABLES
  cloud,      \* the operations in the cloud, the oldest first: request and status
  device,     \* what each child device does with a request, by identifier
  installed,  \* the requests a child device has installed the firmware of
  reported,   \* the requests whose firmware is installed according to the cloud
  inbox,      \* the messages received by the actor
  out,        \* the messages to be published
  active,     \* active_child_ops: the operations with a worker
  executing,  \* the flag of the actor's own worker
  worker,     \* the worker of each operation
  files,      \* the status file of each operation: its request, if any
  drawn,      \* how many identifiers have been drawn
  redeliveries, crashes

actorVars == <<active, executing, drawn>>
vars == <<cloud, device, installed, reported, inbox, out, actorVars, worker, files,
          redeliveries, crashes>>

Operation(r) == [request |-> r]                           \* from the cloud
Response(i, s) == [id |-> i, status |-> s]                \* from a child device
Outcome(i, ok) == [ended |-> i, ok |-> ok]                \* from a worker
Status(c, s) == [child |-> c, status |-> s]               \* to the cloud
Installed(r) == [firmware |-> r]
Ask(i) == [ask |-> i]                                     \* to a child device

\* A worker: its step, the request, the last status of the child device - the cloud
\* has been told that the operation is executing, if any - and the next responses.
WorkerAt(step, r) == [step |-> step, request |-> r, status |-> None, responses |-> <<>>]
NoWorker == WorkerAt(None, None)

Init ==
  /\ cloud = <<>> /\ device = [i \in Ids |-> "idle"]
  /\ installed = {} /\ reported = {} /\ inbox = <<>> /\ out = <<>>
  /\ active = {} /\ executing = FALSE /\ drawn = 0
  /\ worker = [i \in Ids |-> NoWorker] /\ files = [i \in Ids |-> None]
  /\ redeliveries = 0 /\ crashes = 0

------------------------------------------------------------------------------
(* The cloud and the child devices. (external)                                 *)

\* There are identifiers left for n more operations.
Room(n) == drawn + Len(SelectSeq(inbox, LAMBDA m : "request" \in DOMAIN m)) + n <= MaxIds

CreateOperation(r) ==
  /\ Room(1)
  /\ \A k \in DOMAIN cloud : cloud[k].request # r
  /\ cloud' = Append(cloud, [request |-> r, status |-> "pending"])
  /\ inbox' = Append(inbox, Operation(r))
  /\ UNCHANGED <<device, installed, reported, out, actorVars, worker, files,
                 redeliveries, crashes>>

Pending == Selected(cloud, {k \in DOMAIN cloud : cloud[k].status = "pending"})
Resent == [k \in DOMAIN Pending |-> Operation(Pending[k].request)]

\* The cloud is asked again for what is pending, by another service.
Redeliver ==
  /\ redeliveries < MaxRedeliveries
  /\ redeliveries' = redeliveries + 1
  /\ Pending # <<>> /\ Room(Len(Pending))
  /\ inbox' = inbox \o Resent
  /\ UNCHANGED <<cloud, device, installed, reported, out, actorVars, worker, files, crashes>>

\* The operation of a child device a status is for, if there is one.
Concerned(m) ==
  {k \in DOMAIN cloud :
     /\ Child[cloud[k].request] = m.child
     /\ cloud[k].status = IF m.status = "executing" THEN "pending" ELSE "executing"}

CloudReceives(m) ==
  IF "firmware" \in DOMAIN m
  THEN reported' = reported \cup {m.firmware} /\ UNCHANGED cloud
  ELSE /\ cloud' = [k \in DOMAIN cloud |->
                      IF k \in Concerned(m) /\ \A j \in Concerned(m) : k <= j
                      THEN [cloud[k] EXCEPT !.status = m.status] ELSE cloud[k]]
       /\ UNCHANGED reported

\* A child device tells that it proceeds, or the outcome, once for each request.
ChildResponds(i) ==
  /\ \E s \in {"executing"} \cup Final :
       /\ device[i] = "asked" \/ (device[i] = "executing" /\ s # "executing")
       /\ device' = [device EXCEPT ![i] = IF s = "executing" THEN s ELSE "idle"]
       /\ installed' = IF s = "successful" THEN installed \cup {worker[i].request} ELSE installed
       /\ inbox' = Append(inbox, Response(i, s))
  /\ UNCHANGED <<cloud, reported, out, actorVars, worker, files, redeliveries, crashes>>

------------------------------------------------------------------------------
(* The actor.                                                                  *)

\* publish_c8y_successful_message, publish_c8y_failed_message: preceded by an
\* executing one if none has been sent by this worker.
Publishing(flag, c, s) ==
  (IF flag THEN <<>> ELSE <<Status(c, "executing")>>) \o <<Status(c, s)>>

\* validate_same_request_in_progress: the status files of the same request.
SameInProgress(r) == {i \in Ids : files[i] = r}

\* handle_firmware_download_request: an operation recorded as in progress is sent
\* again to the child device, another gets a worker.
HandleOperation ==
  /\ inbox # <<>> /\ "request" \in DOMAIN Head(inbox)
  /\ inbox' = Tail(inbox)
  /\ LET r == Head(inbox).request
     IN  \/ /\ \E i \in SameInProgress(r) : out' = Append(out, Ask(i))
            /\ UNCHANGED <<active, drawn, worker>>
         \/ /\ SameInProgress(r) = {} /\ drawn < MaxIds
            /\ drawn' = drawn + 1
            /\ active' = active \cup {drawn + 1}
            /\ worker' = [worker EXCEPT ![drawn + 1] = WorkerAt("downloading", r)]
            /\ UNCHANGED out
  /\ UNCHANGED <<cloud, device, installed, reported, executing, files, redeliveries, crashes>>

\* fail_operation_in_cloud.
Fail(i) ==
  /\ files' = [files EXCEPT ![i] = None]
  /\ out' = out \o Publishing(executing, Child[worker[i].request], "failed")
  /\ executing' = TRUE

\* handle_child_device_firmware_operation_response: forwarded to the worker, an
\* operation without one being ignored. The worker may be over: a failure.
HandleResponse ==
  /\ inbox # <<>> /\ "status" \in DOMAIN Head(inbox)
  /\ inbox' = Tail(inbox)
  /\ LET i == Head(inbox).id
     IN  \/ i \notin active /\ UNCHANGED <<worker, files, out, executing>>
         \/ /\ i \in active /\ worker[i].step # "over"
            /\ worker' = [worker EXCEPT ![i].responses = Append(@, Head(inbox).status)]
            /\ UNCHANGED <<files, out, executing>>
         \/ i \in active /\ worker[i].step = "over" /\ Fail(i) /\ UNCHANGED worker
  /\ UNCHANGED <<cloud, device, installed, reported, active, drawn, redeliveries, crashes>>

\* The outcome of a worker: published, be it that the worker has done it already.
HandleOutcome ==
  /\ inbox # <<>> /\ "ended" \in DOMAIN Head(inbox)
  /\ inbox' = Tail(inbox)
  /\ LET i == Head(inbox).ended
     IN  /\ active' = active \ {i}
         /\ IF Head(inbox).ok
            THEN /\ out' = out \o Publishing(executing, Child[worker[i].request], "successful")
                 /\ executing' = TRUE /\ UNCHANGED files
            ELSE Fail(i)
  /\ UNCHANGED <<cloud, device, installed, reported, drawn, worker, redeliveries, crashes>>

------------------------------------------------------------------------------
(* The workers.                                                                *)

At(i, step) == worker[i].step = step
WorkerOnly == UNCHANGED <<cloud, device, installed, reported, actorVars, redeliveries, crashes>>

\* A worker is over: its outcome is sent to the actor.
Over(i, ok) ==
  /\ worker' = [worker EXCEPT ![i] = WorkerAt("over", worker[i].request)]
  /\ inbox' = Append(inbox, Outcome(i, ok))

\* handle_firmware_download_request_child_device: the file is in the cache or is
\* downloaded, and the operation is recorded. A failed download ends the worker.
Download_NotRecorded(i) ==
  /\ At(i, "downloading")
  /\ \/ worker' = [worker EXCEPT ![i].step = "recorded"] /\ UNCHANGED inbox
     \/ Over(i, FALSE)
  /\ UNCHANGED <<out, files>> /\ WorkerOnly
Download(i) ==
  /\ At(i, "downloading")
  /\ \/ /\ worker' = [worker EXCEPT ![i].step = "recorded"]
        /\ files' = [files EXCEPT ![i] = worker[i].request]
        /\ UNCHANGED inbox
     \/ Over(i, FALSE) /\ UNCHANGED files
  /\ UNCHANGED out /\ WorkerOnly

\* publish_firmware_update_request.
AskChild(i) ==
  /\ At(i, "recorded")
  /\ worker' = [worker EXCEPT ![i].step = "waiting"]
  /\ out' = Append(out, Ask(i))
  /\ UNCHANGED <<inbox, files>> /\ WorkerOnly

\* What a worker publishes when told of a status by the child device.
Messages(i, s) ==
  LET c == Child[worker[i].request]
  IN  (IF worker[i].status = None THEN <<Status(c, "executing")>> ELSE <<>>)
        \o CASE s = "successful" -> <<Installed(files[i]), Status(c, s)>>
             [] s = "failed" -> <<Status(c, s)>>
             [] OTHER -> <<>>

\* handle_child_device_firmware_update_response: the worker goes on while the
\* child device does. (A success whose status file is gone would be an error: see
\* AskedIsRecorded.)
WorkerReports(i) ==
  /\ At(i, "waiting") /\ worker[i].responses # <<>>
  /\ LET s == Head(worker[i].responses)
     IN  /\ s = "successful" => files[i] # None
         /\ out' = out \o Messages(i, s)
         /\ worker' = [worker EXCEPT ![i] =
              [step |-> IF s = "executing" THEN "waiting" ELSE "reported",
               request |-> worker[i].request, status |-> s,
               responses |-> Tail(worker[i].responses)]]
  /\ UNCHANGED <<inbox, files>> /\ WorkerOnly

\* The status file is removed last.
WorkerEnds(i) ==
  /\ At(i, "reported")
  /\ files' = [files EXCEPT ![i] = None]
  /\ Over(i, TRUE)
  /\ UNCHANGED out /\ WorkerOnly

\* The child device has not responded in time.
WorkerTimeout_Ok(i) ==
  /\ At(i, "waiting") /\ worker[i].responses = <<>>
  /\ Over(i, TRUE)
  /\ UNCHANGED <<out, files>> /\ WorkerOnly
WorkerTimeout(i) ==
  /\ At(i, "waiting") /\ worker[i].responses = <<>>
  /\ Over(i, FALSE)
  /\ UNCHANGED <<out, files>> /\ WorkerOnly

------------------------------------------------------------------------------
(* The publications, and the crashes of the manager.                           *)

Publish ==
  /\ out # <<>>
  /\ out' = Tail(out)
  /\ LET m == Head(out)
     IN  IF "ask" \in DOMAIN m
         THEN device' = [device EXCEPT ![m.ask] = "asked"] /\ UNCHANGED <<cloud, reported>>
         ELSE CloudReceives(m) /\ UNCHANGED device
  /\ UNCHANGED <<installed, inbox, actorVars, worker, files, redeliveries, crashes>>

\* After a restart, what is recorded is sent again to the child devices, and the
\* cloud asked for what is pending. The workers are not started again.
Restart ==
  /\ crashes < MaxCrashes /\ drawn + Len(Pending) <= MaxIds
  /\ crashes' = crashes + 1
  /\ active' = {} /\ executing' = FALSE
  /\ worker' = [i \in Ids |-> WorkerAt(None, worker[i].request)]
  /\ out' = SetToSeq({Ask(i) : i \in {j \in Ids : files[j] # None}})
  /\ inbox' = Resent
  /\ UNCHANGED <<cloud, device, installed, reported, files, drawn, redeliveries>>

------------------------------------------------------------------------------

Worker(i) == Download(i) \/ AskChild(i) \/ WorkerReports(i) \/ WorkerEnds(i) \/ WorkerTimeout(i)
Actor == HandleOperation \/ HandleResponse \/ HandleOutcome

Next ==
  \/ \E r \in Requests : CreateOperation(r)
  \/ Redeliver \/ Actor \/ Publish \/ Restart
  \/ \E i \in Ids : Worker(i) \/ ChildResponds(i)

Spec == Init /\ [][Next]_vars

------------------------------------------------------------------------------

\* The state is well formed.
TypeOK ==
  /\ \A k \in DOMAIN cloud : cloud[k].request \in Requests
  /\ device \in [Ids -> {"idle", "asked", "executing"}]
  /\ installed \subseteq Requests /\ reported \subseteq Requests
  /\ active \subseteq Ids /\ executing \in BOOLEAN /\ drawn \in 0 .. MaxIds
  /\ files \in [Ids -> Requests \cup {None}]

\* The cloud is told that a firmware is installed, or that its operation has
\* succeeded, only if the child device has installed it.
Truthful ==
  /\ reported \subseteq installed
  /\ \A k \in DOMAIN cloud : cloud[k].status = "successful" => cloud[k].request \in installed

\* A child device is asked only what is recorded, so that what it has been asked
\* is sent again after a crash, until its worker has reported the outcome.
AskedIsRecorded ==
  \A i \in Ids : At(i, "waiting") => files[i] = worker[i].request

\* No status file is left without a worker that will remove it, crashes excepted.
\* A left file makes the manager take the next operation for the same firmware
\* for one in progress: it would have no worker, and never end.
NoFileLeft ==
  \A i \in Ids : files[i] # None /\ i \notin active => crashes > 0

\* The status files on disk are those of the requests the children work on.
FilesTrackWork == AskedIsRecorded /\ NoFileLeft
=============================================================================
