----------------------- MODULE WorkflowRepositoryProofs -----------------------
(* For any set of operations, versions, files and commands, and any number of   *)
(* edits and redeliveries: the agreement of the two tables of workflows, that a *)
(* command keeps its version, and that the copies on disk follow their use;     *)
(* without a crash, that announced operations have a workflow, and that the     *)
(* topics of the commands follow CommandLifecycle.                              *)
EXTENDS WorkflowRepository, FiniteSetTheorems, SequenceTheorems, TLAPS

\* The request under processing is on the board with the version it was given,
\* and this version is loaded.
JobOnBoard ==
  job # NoJob =>
    /\ up
    /\ board[job.cmd] = [status |-> "init", version |-> job.version]
    /\ job.version \in inUse[CmdOp[job.cmd]]

\* A stopped agent has nothing in memory.
NothingWhenDown == ~up => board = [c \in Cmds |-> NoCmd]

IndInv ==
  /\ TypeOK
  /\ CurrentMatchesDefinition
  /\ LiveVersionLoaded
  /\ JobOnBoard
  /\ NothingWhenDown

-----------------------------------------------------------------------------
(* Sequences and operators on the tables of workflows *)

LEMMA HeadAndTail ==
  ASSUME NEW S, NEW q \in Seq(S), q # <<>>
  PROVE  Head(q) \in S /\ Tail(q) \in Seq(S)
  OBVIOUS

\* Loading a definition keeps both tables well-typed and in agreement.
LEMMA LoadedDefinition ==
  ASSUME NEW v \in Versions, NEW f \in Files, TypeOK, CurrentMatchesDefinition
  PROVE  /\ WithDefinition(definitions, v, f)
              \in [Ops -> [version : Versions, file : Files] \cup {NoDef}]
         /\ WithCurrent(current, v) \in [Ops -> Versions \cup {None}]
         /\ \A op \in Ops : WithDefinition(definitions, v, f)[op].version
                              = WithCurrent(current, v)[op]
  BY RepositoryAssumptions
  DEF TypeOK, CurrentMatchesDefinition, WithDefinition, WithCurrent

\* A suffix of a sequence is a sequence of the same elements.
LEMMA SuffixType ==
  ASSUME NEW S, NEW q \in Seq(S)
  PROVE  Suffixes(q) \subseteq Seq(S)
<1> SUFFICES ASSUME NEW i \in 1..(Len(q) + 1) PROVE SubSeq(q, i, Len(q)) \in Seq(S)
  BY DEF Suffixes
<1>1. Len(q) \in Nat /\ i \in Nat /\ i >= 1
  OBVIOUS
<1>2. \A j \in i..Len(q) : q[j] \in S
  BY <1>1
<1> QED
  BY <1>1, <1>2, SubSeqProperties

\* So does load_latest_version(), whatever is found on disk.
LEMMA LoadedLatest ==
  ASSUME NEW op \in Ops, TypeOK, CurrentMatchesDefinition
  PROVE  /\ LatestDefinitions(op)
              \in [Ops -> [version : Versions, file : Files] \cup {NoDef}]
         /\ LatestCurrent(op) \in [Ops -> Versions \cup {None}]
         /\ \A o \in Ops : LatestDefinitions(op)[o].version = LatestCurrent(op)[o]
<1>1. LatestPath(op) \in Files
  BY RepositoryAssumptions DEF TypeOK, LatestPath, NoDef
<1>2. CASE HasLatest(op)
  <2>1. userDir[LatestPath(op)] \in Versions
    BY <1>2 DEF HasLatest
  <2> QED
    BY <1>1, <1>2, <2>1, LoadedDefinition DEF LatestDefinitions, LatestCurrent
<1>3. CASE ~HasLatest(op)
  BY <1>3 DEF LatestDefinitions, LatestCurrent, TypeOK, CurrentMatchesDefinition
<1> QED
  BY <1>2, <1>3

\* use_current_version() returns a version, if any.
LEMMA UsedVersion ==
  ASSUME NEW op \in Ops, NEW cur \in [Ops -> Versions \cup {None}],
         NEW use \in [Ops -> SUBSET (Versions \cup {Builtin})]
  PROVE  UseCurrentVersion(cur, use, op) \in Versions \cup {Builtin, None}
  BY DEF UseCurrentVersion

\* What publish_command_state() echoes to the agent is a message.
LEMMA EchoType ==
  ASSUME NEW m \in CmdState
  PROVE  Echo(m) \in Seq(Message)
<1>1. CASE m.status = "executing" \/ m.status = "none"
  BY <1>1 DEF Echo
<1>2. CASE ~(m.status = "executing" \/ m.status = "none")
  <2>1. m \in Message
    BY <1>2 DEF CmdState, Message, Finished
  <2> QED
    BY <1>2, <2>1 DEF Echo
<1> QED
  BY <1>1, <1>2

\* As long as the two tables agree, a deletion takes no version from its users.
LEMMA DeletionKeepsInUse ==
  ASSUME NEW op \in Ops, CurrentMatchesDefinition
  PROVE  /\ RemainingInUse(op, definitions[op].version) = inUse[op]
         /\ RemainingCurrent(op, definitions[op].version) = None
  BY DEF CurrentMatchesDefinition, RemainingInUse, RemainingCurrent

-----------------------------------------------------------------------------
(* The steps of the requester, the broker and the user: the memory of the  *)
(* agent is left alone.                                                    *)

LEMMA RequesterSteps ==
  ASSUME IndInv, NEW c \in Cmds, Request(c) \/ ClearRequest(c) \/ Redeliver(c)
  PROVE  IndInv'
<1> USE DEF IndInv
<1>1. retained[c] \in CmdState /\ inbox[c] \in Seq(Message)
  BY DEF TypeOK
<1>2. UNCHANGED memVars
  BY DEF Request, ClearRequest, Redeliver
<1>3. TypeOK'
  <2>1. CASE Request(c)
    <3>1. [status |-> "init", version |-> None] \in CmdState \cap Message
      BY DEF CmdState, Message, AnyVersion
    <3> QED
      BY <1>1, <2>1, <3>1 DEF TypeOK, Request, diskVars, memVars
  <2>2. CASE ClearRequest(c)
    <3>1. [status |-> "cleared", version |-> None] \in Message /\ NoCmd \in CmdState
      BY DEF CmdState, Message, AnyVersion, NoCmd
    <3> QED
      BY <1>1, <2>2, <3>1 DEF TypeOK, ClearRequest, diskVars, memVars, boundVars
  <2>3. CASE Redeliver(c)
    <3>1. Echo(retained[c]) \in Seq(Message)
      BY <1>1, EchoType
    <3> QED
      BY <1>1, <2>3, <3>1 DEF TypeOK, Redeliver, diskVars, memVars
  <2> QED
    BY <2>1, <2>2, <2>3
<1> QED
  BY <1>2, <1>3 DEF memVars, CurrentMatchesDefinition, LiveVersionLoaded,
                    JobOnBoard, NothingWhenDown

LEMMA UserSteps ==
  ASSUME IndInv, NEW f \in Files,
         DeleteFile(f) \/ \E content \in Content : WriteFile(f, content)
  PROVE  IndInv'
<1> USE DEF IndInv
<1>1. UNCHANGED memVars
  BY DEF DeleteFile, WriteFile
<1>2. TypeOK'
  <2>1. Absent \in Content /\ raced' \in BOOLEAN
    BY DEF Content, DeleteFile, WriteFile, TypeOK
  <2>2. fsEvents' \in Seq(FsEvent)
    <3>1. PICK e \in FsEvent : fsEvents' = IF up THEN Append(fsEvents, e) ELSE fsEvents
      BY DEF DeleteFile, WriteFile, Notify, FsEvent
    <3> QED
      BY <3>1 DEF TypeOK
  <2>3. userDir' \in [Files -> Content]
    BY <2>1 DEF TypeOK, DeleteFile, WriteFile
  <2> QED
    BY <2>1, <2>2, <2>3 DEF TypeOK, DeleteFile, WriteFile, diskVars, brokerVars, memVars
<1> QED
  BY <1>1, <1>2 DEF memVars, CurrentMatchesDefinition, LiveVersionLoaded,
                    JobOnBoard, NothingWhenDown

-----------------------------------------------------------------------------
(* The steps of the agent *)

LEMMA FileEventSteps ==
  ASSUME IndInv, OnModified \/ OnDeleted
  PROVE  IndInv'
<1> USE DEF IndInv
<1>1. CASE OnModified
  <2> DEFINE f == Head(fsEvents).file
  <2>1. f \in Files /\ Tail(fsEvents) \in Seq(FsEvent)
    <3>1. Head(fsEvents) \in FsEvent /\ Tail(fsEvents) \in Seq(FsEvent)
      BY <1>1, HeadAndTail DEF OnModified, TypeOK
    <3> QED
      BY <3>1 DEF FsEvent
  <2>2. CASE userDir[f] \in Versions
    <3>1. /\ definitions' = WithDefinition(definitions, userDir[f], f)
          /\ current' = WithCurrent(current, userDir[f])
          /\ announced' = [announced EXCEPT ![OpOf[userDir[f]]] = TRUE]
      BY <1>1, <2>2 DEF OnModified
    <3>2. /\ definitions' \in [Ops -> [version : Versions, file : Files] \cup {NoDef}]
          /\ current' \in [Ops -> Versions \cup {None}]
          /\ \A op \in Ops : definitions'[op].version = current'[op]
      BY <2>1, <2>2, <3>1, LoadedDefinition
    <3>3. announced' \in [Ops -> BOOLEAN]
      BY <2>2, <3>1, RepositoryAssumptions DEF TypeOK
    <3> QED
      BY <1>1, <2>1, <3>2, <3>3
      DEF OnModified, TypeOK, diskVars, boundVars, CurrentMatchesDefinition,
          LiveVersionLoaded, JobOnBoard, NothingWhenDown
  <2>3. CASE userDir[f] \notin Versions
    BY <1>1, <2>1, <2>3
    DEF OnModified, TypeOK, diskVars, boundVars, CurrentMatchesDefinition,
        LiveVersionLoaded, JobOnBoard, NothingWhenDown
  <2> QED
    BY <2>2, <2>3
<1>2. CASE OnDeleted
  <2>1. Tail(fsEvents) \in Seq(FsEvent)
    BY <1>2, HeadAndTail DEF OnDeleted, TypeOK
  <2>2. /\ definitions' \in [Ops -> [version : Versions, file : Files] \cup {NoDef}]
        /\ current' \in [Ops -> Versions \cup {None}]
        /\ inUse' = inUse
        /\ announced' \in [Ops -> BOOLEAN]
        /\ \A o \in Ops : definitions'[o].version = current'[o]
    <3>1. CASE UNCHANGED <<definitions, current, inUse, announced>>
      BY <3>1 DEF TypeOK, CurrentMatchesDefinition
    <3>2. CASE \E op \in Ops :
                 LET v == definitions[op].version
                 IN /\ definitions' = [definitions EXCEPT ![op] = NoDef]
                    /\ current' = [current EXCEPT ![op] = RemainingCurrent(op, v)]
                    /\ inUse' = [inUse EXCEPT ![op] = RemainingInUse(op, v)]
                    /\ announced' = [announced EXCEPT ![op] = @ /\ BuiltinRestored(op, v)]
      <4> PICK op \in Ops :
                 /\ definitions' = [definitions EXCEPT ![op] = NoDef]
                 /\ current' = [current EXCEPT ![op] =
                                  RemainingCurrent(op, definitions[op].version)]
                 /\ inUse' = [inUse EXCEPT ![op] =
                                  RemainingInUse(op, definitions[op].version)]
                 /\ announced' = [announced EXCEPT ![op] =
                                  @ /\ BuiltinRestored(op, definitions[op].version)]
        BY <3>2
      <4>1. announced' \in [Ops -> BOOLEAN]
        BY DEF TypeOK, BuiltinRestored
      <4>2. /\ inUse' = inUse
            /\ current' = [current EXCEPT ![op] = None]
        BY DeletionKeepsInUse DEF TypeOK
      <4> QED
        BY <4>1, <4>2 DEF TypeOK, CurrentMatchesDefinition, NoDef
    <3> QED
      BY <1>2, <3>1, <3>2 DEF OnDeleted
  <2> QED
    BY <1>2, <2>1, <2>2
    DEF OnDeleted, TypeOK, diskVars, boundVars, CurrentMatchesDefinition,
        LiveVersionLoaded, JobOnBoard, NothingWhenDown
<1> QED
  BY <1>1, <1>2

\* Taking a message leaves well-typed messages.
LEMMA Received ==
  ASSUME TypeOK, NEW c \in Cmds, NEW statuses, Receive(c, statuses)
  PROVE  inbox' \in [Cmds -> Seq(Message)] /\ Head(inbox[c]) \in Message
<1>1. inbox[c] \in Seq(Message) /\ inbox[c] # <<>>
  BY DEF TypeOK, Receive
<1>2. Head(inbox[c]) \in Message /\ Tail(inbox[c]) \in Seq(Message)
  BY <1>1, HeadAndTail
<1> QED
  BY <1>2 DEF TypeOK, Receive

LEMMA InitStep ==
  ASSUME IndInv, NEW c \in Cmds, OnInit(c)
  PROVE  IndInv'
<1> USE DEF IndInv
<1> DEFINE op == CmdOp[c]
           v  == UseCurrentVersion(LatestCurrent(op), inUse, op)
           new == [status |-> "init", version |-> v]
           accepted == v # None /\ Accepts(c, new)
<1>1. op \in Ops /\ Receive(c, {"init"}) /\ up /\ job = NoJob
  BY RepositoryAssumptions DEF OnInit, Receive, Idle
<1>2. /\ definitions' = LatestDefinitions(op)
      /\ current' = LatestCurrent(op)
      /\ inUse' = (IF v = None THEN inUse ELSE [inUse EXCEPT ![op] = @ \cup {v}])
      /\ board' = (IF accepted THEN [board EXCEPT ![c] = new] ELSE board)
      /\ job' = (IF accepted THEN [step |-> "persist", cmd |-> c, version |-> v]
                             ELSE NoJob)
      /\ UNCHANGED <<userDir, diskVars, retained, announced, fsEvents, up, copies,
                     live, boundVars>>
  BY DEF OnInit
<1>3. /\ definitions' \in [Ops -> [version : Versions, file : Files] \cup {NoDef}]
      /\ current' \in [Ops -> Versions \cup {None}]
      /\ \A o \in Ops : definitions'[o].version = current'[o]
  BY <1>1, <1>2, LoadedLatest
<1>4. v \in Versions \cup {Builtin, None}
  <2>1. LatestCurrent(op) \in [Ops -> Versions \cup {None}]
    BY <1>1, LoadedLatest
  <2> QED
    BY <1>1, <2>1, UsedVersion DEF TypeOK
<1>5. inbox' \in [Cmds -> Seq(Message)]
  BY <1>1, Received
<1>6. new \in CmdState
  BY <1>4 DEF CmdState, AnyVersion
<1> HIDE DEF v
<1>7. /\ inUse' \in [Ops -> SUBSET (Versions \cup {Builtin})]
      /\ \A o \in Ops : inUse[o] \subseteq inUse'[o]
      /\ v # None => v \in inUse'[op]
  BY <1>1, <1>2, <1>4 DEF TypeOK
<1>8. board' \in [Cmds -> CmdState]
  BY <1>2, <1>6 DEF TypeOK
<1>9. job' \in [step : {"persist", "start"}, cmd : Cmds,
                version : Versions \cup {Builtin}] \cup {NoJob}
  BY <1>2, <1>4
<1>10. TypeOK'
  BY <1>2, <1>3, <1>5, <1>7, <1>8, <1>9 DEF TypeOK, diskVars, boundVars
<1>11. LiveVersionLoaded'
  <2> SUFFICES ASSUME NEW d \in live
               PROVE  board'[d].status = "executing"
                        /\ board'[d].version \in inUse'[CmdOp[d]]
    BY <1>2 DEF LiveVersionLoaded
  <2>1. d \in Cmds /\ CmdOp[d] \in Ops /\ board[d].status = "executing"
        /\ board[d].version \in inUse[CmdOp[d]]
    BY RepositoryAssumptions DEF LiveVersionLoaded, TypeOK
  <2>2. board'[d] = board[d]
    BY <1>2, <2>1 DEF TypeOK, Accepts, NoCmd
  <2> QED
    BY <1>7, <2>1, <2>2
<1>12. JobOnBoard'
  <2>1. CASE accepted
    <3>1. board'[c] = new /\ job'.cmd = c /\ job'.version = v /\ up'
      BY <1>1, <1>2, <2>1 DEF TypeOK
    <3> QED
      BY <1>7, <2>1, <3>1 DEF JobOnBoard
  <2>2. CASE ~accepted
    BY <1>2, <2>2 DEF JobOnBoard, NoJob
  <2> QED
    BY <2>1, <2>2
<1> QED
  BY <1>1, <1>2, <1>3, <1>10, <1>11, <1>12 DEF CurrentMatchesDefinition, NothingWhenDown

LEMMA PersistStep ==
  ASSUME IndInv, PersistDefinition
  PROVE  IndInv'
<1> USE DEF IndInv
<1>1. job # NoJob /\ job \in [step : {"persist", "start"}, cmd : Cmds,
                              version : Versions \cup {Builtin}]
  BY DEF PersistDefinition, TypeOK, NoJob
<1>2. job' = [job EXCEPT !.step = "start"] /\ job'.cmd = job.cmd
      /\ job'.version = job.version
  BY <1>1 DEF PersistDefinition
<1>3. copies' \in [Versions -> Nat]
  BY <1>1, RepositoryAssumptions DEF PersistDefinition, TypeOK, CountedUse
<1>4. copyDir' \in [Versions -> Content]
  <2> DEFINE def == definitions[CmdOp[job.cmd]]
  <2>1. def \in [version : Versions, file : Files] \cup {NoDef}
    BY <1>1, RepositoryAssumptions DEF TypeOK
  <2>2. def.version # None => userDir[def.file] \in Content
    BY <2>1 DEF TypeOK, NoDef
  <2> QED
    BY <1>1, <2>2 DEF PersistDefinition, TypeOK
<1>5. TypeOK'
  BY <1>1, <1>2, <1>3, <1>4 DEF PersistDefinition, TypeOK, brokerVars, boundVars
<1> QED
  BY <1>1, <1>2, <1>5 DEF PersistDefinition, CurrentMatchesDefinition,
                          LiveVersionLoaded, JobOnBoard, NothingWhenDown

\* publish_command_state() keeps the types.
LEMMA Published ==
  ASSUME TypeOK, NEW c \in Cmds, NEW state \in CmdState, Publish(c, state)
  PROVE  /\ board' \in [Cmds -> CmdState] /\ savedBoard' \in [Cmds -> CmdState]
         /\ retained' \in [Cmds -> CmdState] /\ inbox' \in [Cmds -> Seq(Message)]
         /\ board'[c] = state /\ \A d \in Cmds \ {c} : board'[d] = board[d]
<1>1. inbox[c] \in Seq(Message) /\ Echo(state) \in Seq(Message)
  BY EchoType DEF TypeOK
<1>2. inbox[c] \o Echo(state) \in Seq(Message)
  BY <1>1
<1> QED
  BY <1>2 DEF Publish, TypeOK

LEMMA StartStep ==
  ASSUME IndInv, StartCommand
  PROVE  IndInv'
<1> USE DEF IndInv
<1> DEFINE state == [status |-> "executing", version |-> job.version]
<1>1. job # NoJob /\ job \in [step : {"persist", "start"}, cmd : Cmds,
                              version : Versions \cup {Builtin}]
  BY DEF StartCommand, TypeOK, NoJob
<1>2. job.cmd \in Cmds /\ state \in CmdState /\ Publish(job.cmd, state)
  BY <1>1 DEF StartCommand, CmdState, AnyVersion
<1>3. /\ board' \in [Cmds -> CmdState] /\ savedBoard' \in [Cmds -> CmdState]
      /\ retained' \in [Cmds -> CmdState] /\ inbox' \in [Cmds -> Seq(Message)]
      /\ board'[job.cmd] = state
      /\ \A d \in Cmds \ {job.cmd} : board'[d] = board[d]
  BY <1>2, Published
<1>4. TypeOK'
  BY <1>1, <1>3 DEF StartCommand, TypeOK, boundVars
<1>5. LiveVersionLoaded'
  <2> SUFFICES ASSUME NEW d \in live \cup {job.cmd}
               PROVE  board'[d].status = "executing"
                        /\ board'[d].version \in inUse[CmdOp[d]]
    BY DEF StartCommand, LiveVersionLoaded
  <2>1. CASE d = job.cmd
    BY <1>1, <1>3, <2>1 DEF JobOnBoard
  <2>2. CASE d # job.cmd
    BY <1>3, <2>2 DEF LiveVersionLoaded, TypeOK
  <2> QED
    BY <2>1, <2>2
<1> QED
  BY <1>4, <1>5 DEF StartCommand, CurrentMatchesDefinition, JobOnBoard, NothingWhenDown

LEMMA FinishStep ==
  ASSUME IndInv, NEW c \in Cmds, NEW outcome \in Finished, FinishCommand(c, outcome)
  PROVE  IndInv'
<1> USE DEF IndInv
<1> DEFINE state == [status |-> outcome, version |-> board[c].version]
<1>1. state \in CmdState /\ Publish(c, state) /\ up /\ job = NoJob /\ job' = job
  BY DEF FinishCommand, Idle, TypeOK, CmdState, Finished
<1>2. /\ board' \in [Cmds -> CmdState] /\ savedBoard' \in [Cmds -> CmdState]
      /\ retained' \in [Cmds -> CmdState] /\ inbox' \in [Cmds -> Seq(Message)]
      /\ \A d \in Cmds \ {c} : board'[d] = board[d]
  BY <1>1, Published
<1>3. TypeOK'
  BY <1>2 DEF FinishCommand, TypeOK, boundVars
<1>4. LiveVersionLoaded'
  BY <1>2 DEF FinishCommand, LiveVersionLoaded, TypeOK
<1> QED
  BY <1>1, <1>3, <1>4 DEF FinishCommand, CurrentMatchesDefinition, JobOnBoard,
                          NothingWhenDown

LEMMA FinishedMessageStep ==
  ASSUME IndInv, NEW c \in Cmds, OnFinished(c)
  PROVE  IndInv'
<1> USE DEF IndInv
<1> DEFINE v == Head(inbox[c]).version
<1>1. Receive(c, Finished)
  BY DEF OnFinished
<1>2. inbox' \in [Cmds -> Seq(Message)] /\ Head(inbox[c]) \in Message
  BY <1>1, Received
<1>3. copies' \in [Versions -> Nat] /\ copyDir' \in [Versions -> Content]
  <2>1. CASE v \in {Builtin, None}
    BY <2>1 DEF OnFinished, TypeOK
  <2>2. CASE v \notin {Builtin, None}
    <3>1. v \in Versions
      BY <1>2, <2>2 DEF Message, AnyVersion
    <3>2. ReleasedCount(v) \in Nat
      BY <3>1 DEF ReleasedCount, LastUse, TypeOK
    <3>3. copies' = [copies EXCEPT ![v] = ReleasedCount(v)]
          /\ copyDir' = (IF LastUse(v) THEN [copyDir EXCEPT ![v] = Absent] ELSE copyDir)
      BY <2>2 DEF OnFinished
    <3> QED
      BY <3>1, <3>2, <3>3 DEF TypeOK, Content
  <2> QED
    BY <2>1, <2>2
<1> QED
  BY <1>2, <1>3 DEF OnFinished, TypeOK, boundVars, CurrentMatchesDefinition,
                    LiveVersionLoaded, JobOnBoard, NothingWhenDown

LEMMA ClearedMessageStep ==
  ASSUME IndInv, NEW c \in Cmds, OnCleared(c)
  PROVE  IndInv'
<1> USE DEF IndInv
<1>1. Receive(c, {"cleared"}) /\ up /\ job = NoJob /\ job' = job
  BY DEF OnCleared, Receive, Idle
<1>2. inbox' \in [Cmds -> Seq(Message)]
  BY <1>1, Received
<1>3. /\ board' \in [Cmds -> CmdState] /\ savedBoard' \in [Cmds -> CmdState]
      /\ live' \subseteq live
      /\ \A d \in live' : board'[d] = board[d]
  <2>1. NoCmd \in CmdState
    BY DEF NoCmd, CmdState, AnyVersion
  <2>2. \/ board' = [board EXCEPT ![c] = NoCmd] /\ savedBoard' = board' /\ live' = live \ {c}
        \/ board' = board /\ savedBoard' = savedBoard /\ live' = live
    BY DEF OnCleared
  <2>3. /\ board \in [Cmds -> CmdState] /\ savedBoard \in [Cmds -> CmdState]
        /\ live \subseteq Cmds
    BY DEF TypeOK
  <2> QED
    BY <2>1, <2>2, <2>3
<1>4. TypeOK'
  BY <1>2, <1>3 DEF OnCleared, TypeOK, boundVars
<1> QED
  BY <1>1, <1>3, <1>4 DEF OnCleared, CurrentMatchesDefinition, LiveVersionLoaded,
                          JobOnBoard, NothingWhenDown

-----------------------------------------------------------------------------
(* Crash and restart *)

LEMMA CrashStep ==
  ASSUME IndInv, Crash
  PROVE  IndInv'
<1> USE DEF IndInv
<1>1. inbox' \in [Cmds -> Seq(Message)]
  <2>1. ASSUME NEW c \in Cmds PROVE Suffixes(inbox[c]) \subseteq Seq(Message)
    <3>1. inbox[c] \in Seq(Message)
      BY DEF TypeOK
    <3> QED
      BY <3>1, SuffixType
  <2> QED
    BY <2>1 DEF Crash
<1>2. NoCmd \in CmdState /\ fsEvents' \in Seq(FsEvent)
  BY DEF Crash, NoCmd, CmdState, AnyVersion
<1>3. /\ board' \in [Cmds -> CmdState]
      /\ definitions' \in [Ops -> [version : Versions, file : Files] \cup {NoDef}]
      /\ copies' \in [Versions -> Nat]
      /\ current' \in [Ops -> Versions \cup {None}]
      /\ inUse' \in [Ops -> SUBSET (Versions \cup {Builtin})]
  BY <1>2 DEF Crash
<1>4. up' \in BOOLEAN /\ live' \subseteq Cmds /\ job' = NoJob /\ crashes' \in Nat
  <2>1. up' \in BOOLEAN /\ live' \subseteq Cmds /\ job' = NoJob
    BY DEF Crash
  <2>2. crashes' = crashes + 1 /\ crashes \in Nat
    BY DEF Crash, TypeOK
  <2> QED
    BY <2>1, <2>2
<1>5. TypeOK'
  BY <1>1, <1>2, <1>3, <1>4 DEF Crash, TypeOK, diskVars
<1> QED
  BY <1>5 DEF Crash, CurrentMatchesDefinition, LiveVersionLoaded, JobOnBoard,
              NothingWhenDown, NoDef

\* What is read from the disk is well-typed.
LEMMA LoadedTables ==
  ASSUME TypeOK, NEW src \in Sources
  PROVE  /\ LoadedDefinitions(src)
              \in [Ops -> [version : Versions, file : Files] \cup {NoDef}]
         /\ LoadedCurrent(src) \in [Ops -> Versions \cup {None}]
         /\ InUseOnStart(src) \in [Ops -> SUBSET (Versions \cup {Builtin})]
         /\ LoadedInUse \in [Ops -> SUBSET (Versions \cup {Builtin})]
         /\ \A c \in Cmds : AdoptedVersion(src, c) \in AnyVersion
<1>1. \A op \in Ops : src[op] # None => src[op] \in Files /\ userDir[src[op]] \in Versions
  BY DEF Sources
<1>2. LoadedDefinitions(src) \in [Ops -> [version : Versions, file : Files] \cup {NoDef}]
  BY <1>1 DEF LoadedDefinitions
<1>3. LoadedCurrent(src) \in [Ops -> Versions \cup {None}]
  BY <1>2 DEF LoadedCurrent, NoDef
<1>4. LoadedInUse \in [Ops -> SUBSET (Versions \cup {Builtin})]
  BY DEF LoadedInUse
<1>5. InUseOnStart(src) \in [Ops -> SUBSET (Versions \cup {Builtin})]
  BY <1>4 DEF InUseOnStart
<1>6. ASSUME NEW c \in Cmds PROVE AdoptedVersion(src, c) \in AnyVersion
  <2>1. CmdOp[c] \in Ops /\ savedBoard[c].version \in AnyVersion
    BY RepositoryAssumptions DEF TypeOK, CmdState
  <2> QED
    BY <1>3, <1>4, <2>1, UsedVersion DEF AdoptedVersion, AnyVersion
<1> QED
  BY <1>2, <1>3, <1>4, <1>5, <1>6

LEMMA RestartStep ==
  ASSUME IndInv, Restart
  PROVE  IndInv'
<1> USE DEF IndInv
<1> PICK src \in Sources :
      /\ definitions' = LoadedDefinitions(src)
      /\ current' = LoadedCurrent(src)
      /\ inUse' = InUseOnStart(src)
      /\ copyDir' = [v \in Versions |-> IF Adopters(src, v) # {} /\ CopyFiles(v) = {}
                                        THEN v ELSE copyDir[v]]
      /\ copies' = [v \in Versions |-> Cardinality(CopyFiles(v))
                                         + Cardinality(Adopters(src, v))]
      /\ board' = BoardOnStart(src)
      /\ savedBoard' = (IF \E c \in Cmds : Started(src, c) THEN board' ELSE savedBoard)
      /\ live' = {c \in Cmds : Found(src, c) /\ board'[c].status = "executing"}
      /\ retained' = [c \in Cmds |->
                        IF savedBoard[c].status = "none" THEN retained[c]
                        ELSE IF Started(src, c) THEN board'[c] ELSE Resumed(src, c)]
      /\ inbox' = [c \in Cmds |-> inbox[c] \o Echo(retained[c]) \o Echo(Resumed(src, c))]
      /\ announced' = [op \in Ops |-> announced[op] \/ current'[op] # None
                                        \/ op \in Builtins]
  BY DEF Restart
<1>1. up' = TRUE /\ job' = NoJob /\ fsEvents' = <<>> /\ UNCHANGED <<userDir, boundVars>>
  BY DEF Restart
<1>2. /\ definitions' \in [Ops -> [version : Versions, file : Files] \cup {NoDef}]
      /\ current' \in [Ops -> Versions \cup {None}]
      /\ inUse' \in [Ops -> SUBSET (Versions \cup {Builtin})]
      /\ \A c \in Cmds : AdoptedVersion(src, c) \in AnyVersion
  BY LoadedTables
<1>3. \A c \in Cmds : /\ Pending(src)[c] \in CmdState
                      /\ BoardOnStart(src)[c] \in CmdState
                      /\ Resumed(src, c) \in CmdState
                      /\ BoardOnStart(src)[c].version = AdoptedVersion(src, c)
  BY <1>2 DEF Pending, BoardOnStart, Resumed, CmdState, TypeOK, Finished
<1>4. board' \in [Cmds -> CmdState] /\ savedBoard' \in [Cmds -> CmdState]
  <2>1. BoardOnStart(src) \in [Cmds -> CmdState]
    BY <1>3 DEF BoardOnStart
  <2> QED
    BY <2>1 DEF TypeOK
<1>5. retained' \in [Cmds -> CmdState]
  BY <1>3, <1>4 DEF TypeOK
<1>6. inbox' \in [Cmds -> Seq(Message)]
  <2>1. ASSUME NEW c \in Cmds
        PROVE  inbox[c] \o Echo(retained[c]) \o Echo(Resumed(src, c)) \in Seq(Message)
    <3>1. /\ inbox[c] \in Seq(Message) /\ Echo(retained[c]) \in Seq(Message)
          /\ Echo(Resumed(src, c)) \in Seq(Message)
      BY <1>3, EchoType DEF TypeOK
    <3> QED
      BY <3>1
  <2> QED
    BY <2>1
<1>7. copyDir' \in [Versions -> Content]
  BY DEF TypeOK, Content
<1>8. copies' \in [Versions -> Nat]
  <2>1. ASSUME NEW v \in Versions
        PROVE  Cardinality(CopyFiles(v)) \in Nat /\ Cardinality(Adopters(src, v)) \in Nat
    <3>1. IsFiniteSet(CopyFiles(v)) /\ IsFiniteSet(Adopters(src, v))
      BY FS_Subset, RepositoryAssumptions DEF CopyFiles, Adopters
    <3> QED
      BY <3>1, FS_CardinalityType
  <2> QED
    BY <2>1
<1>9. announced' \in [Ops -> BOOLEAN]
  BY DEF TypeOK
<1>10. TypeOK'
  <2>1. fsEvents' \in Seq(FsEvent) /\ live' \subseteq Cmds /\ up' \in BOOLEAN
    BY <1>1
  <2>2. userDir' \in [Files -> Content] /\ requested' \subseteq Cmds
        /\ crashes' \in Nat /\ edits' \in Nat /\ redeliveries' \in Nat
        /\ raced' \in BOOLEAN
    BY <1>1 DEF TypeOK, boundVars
  <2> QED
    BY <1>1, <1>2, <1>4, <1>5, <1>6, <1>7, <1>8, <1>9, <2>1, <2>2 DEF TypeOK
<1>11. CurrentMatchesDefinition'
  BY DEF CurrentMatchesDefinition, LoadedCurrent
<1>12. LiveVersionLoaded'
  BY <1>3 DEF LiveVersionLoaded, Found
<1> QED
  BY <1>1, <1>10, <1>11, <1>12 DEF JobOnBoard, NothingWhenDown

-----------------------------------------------------------------------------
(* The invariant *)

LEMMA InvInit ==
  ASSUME Init PROVE IndInv
<1>1. savedBoard \in [Cmds -> CmdState] /\ board \in [Cmds -> CmdState]
  BY DEF Init, CmdState, NoCmd, AnyVersion
<1>2. /\ inbox \in [Cmds -> Seq(Message)] /\ fsEvents \in Seq(FsEvent)
      /\ copies \in [Versions -> Nat]
      /\ userDir \in [Files -> Content] /\ copyDir \in [Versions -> Content]
  BY DEF Init, Content
<1>3. /\ up \in BOOLEAN /\ announced \in [Ops -> BOOLEAN]
      /\ requested \subseteq Cmds /\ live \subseteq Cmds
  BY RepositoryAssumptions DEF Init
<1>4. TypeOK
  BY <1>1, <1>2, <1>3 DEF Init, TypeOK
<1> QED
  BY <1>4 DEF Init, IndInv, CurrentMatchesDefinition, LiveVersionLoaded, JobOnBoard,
              NothingWhenDown, NoDef

LEMMA InvNext ==
  ASSUME IndInv, [Next]_vars
  PROVE  IndInv'
<1>1. CASE \E c \in Cmds : Request(c) \/ ClearRequest(c) \/ Redeliver(c)
  BY <1>1, RequesterSteps
<1>2. CASE \E f \in Files : DeleteFile(f) \/ \E content \in Content : WriteFile(f, content)
  BY <1>2, UserSteps
<1>3. CASE OnModified \/ OnDeleted
  BY <1>3, FileEventSteps
<1>4. CASE \E c \in Cmds : OnInit(c) \/ OnFinished(c) \/ OnCleared(c)
  BY <1>4, InitStep, FinishedMessageStep, ClearedMessageStep
<1>5. CASE PersistDefinition \/ StartCommand
  BY <1>5, PersistStep, StartStep
<1>6. CASE \E c \in Cmds, outcome \in Finished : FinishCommand(c, outcome)
  BY <1>6, FinishStep
<1>7. CASE Crash \/ Restart
  BY <1>7, CrashStep, RestartStep
<1>8. CASE UNCHANGED vars
  BY <1>8 DEF vars, diskVars, brokerVars, memVars, boundVars, IndInv, TypeOK,
              CurrentMatchesDefinition, LiveVersionLoaded, JobOnBoard, NothingWhenDown
<1> QED
  BY <1>1, <1>2, <1>3, <1>4, <1>5, <1>6, <1>7, <1>8 DEF Next

\* The inductive invariant holds in every state of the agent.
THEOREM Invariance == Spec => []IndInv
<1>1. Init => IndInv
  BY InvInit
<1>2. IndInv /\ [Next]_vars => IndInv'
  BY InvNext
<1> QED
  BY <1>1, <1>2, PTL DEF Spec

\* The state of the repository and of the supervisor is well-typed; the counts of
\* users in particular, unsigned in the code, never get below zero.
THEOREM TypeCorrect == Spec => []TypeOK
<1>1. IndInv => TypeOK
  BY DEF IndInv
<1> QED
  BY <1>1, Invariance, PTL

\* The repository's table of definitions and the supervisor's current versions
\* always agree, although they are updated apart by load(), file events, file
\* deletions and requests.
THEOREM TablesAgree == Spec => []CurrentMatchesDefinition
<1>1. IndInv => CurrentMatchesDefinition
  BY DEF IndInv
<1> QED
  BY <1>1, Invariance, PTL

\* No edit of the workflows, crash or message ever deprives a running command of
\* the definition it was started with.
THEOREM RunningCommandsKeepTheirWorkflow == Spec => []LiveVersionLoaded
<1>1. IndInv => LiveVersionLoaded
  BY DEF IndInv
<1> QED
  BY <1>1, Invariance, PTL

-----------------------------------------------------------------------------
(* A command keeps its version *)

LEMMA VersionKept ==
  ASSUME IndInv, [Next]_vars, NEW c \in Cmds,
         board[c].version # None, board'[c].status # "none"
  PROVE  board'[c].version = board[c].version
<1> USE DEF IndInv
<1>1. CASE board'[c] = board[c]
  BY <1>1
<1>2. ASSUME NEW d \in Cmds, OnInit(d) PROVE board'[c].version = board[c].version
  BY <1>2 DEF OnInit, Accepts, NoCmd, TypeOK
<1>3. CASE StartCommand
  <2>1. job # NoJob /\ job.cmd \in Cmds
    BY <1>3 DEF StartCommand, TypeOK, NoJob
  <2> QED
    BY <1>3, <2>1 DEF StartCommand, Publish, JobOnBoard, TypeOK
<1>4. ASSUME NEW d \in Cmds, NEW outcome \in Finished, FinishCommand(d, outcome)
      PROVE  board'[c].version = board[c].version
  BY <1>4 DEF FinishCommand, Publish, TypeOK
<1>5. ASSUME NEW d \in Cmds, OnCleared(d) PROVE board'[c] = board[c] \/ board'[c] = NoCmd
  BY <1>5 DEF OnCleared, TypeOK
<1>6. ASSUME Crash PROVE board'[c] = NoCmd
  BY <1>6 DEF Crash
<1>7. ASSUME Restart PROVE board[c] = NoCmd
  BY <1>7 DEF Restart, NothingWhenDown
<1>8. NoCmd.status = "none" /\ NoCmd.version = None
  BY DEF NoCmd
<1>9. board' = board \/ (\E d \in Cmds : OnInit(d) \/ OnCleared(d)) \/ StartCommand
      \/ (\E d \in Cmds, outcome \in Finished : FinishCommand(d, outcome))
      \/ Crash \/ Restart
  BY DEF Next, vars, memVars, Request, ClearRequest, Redeliver, WriteFile, DeleteFile,
         OnModified, OnDeleted, PersistDefinition, OnFinished
<1> QED
  BY <1>1, <1>2, <1>3, <1>4, <1>5, <1>6, <1>7, <1>8, <1>9

\* A command is ruled from its init state to its end by the version it was given
\* when created, whatever is edited, redelivered or lost meantime.
THEOREM CommandsKeepTheirVersion == Spec => VersionPinned
<1>1. IndInv /\ [Next]_vars =>
        [\A c \in Cmds : board[c].version # None /\ board'[c].status # "none"
                           => board'[c].version = board[c].version]_vars
  BY VersionKept
<1> QED
  BY <1>1, Invariance, PTL DEF Spec, VersionPinned

-----------------------------------------------------------------------------
(* Without a crash: the command topics                                     *)
(*                                                                         *)
(* Until its first start the agent has only what an earlier version of it  *)
(* has left: the commands persisted without a version.                     *)

LegacyCmd == [status |-> "executing", version |-> None]

FirstStart ==
  crashes = 0 /\ ~up =>
    /\ announced = [op \in Ops |-> FALSE]
    /\ copyDir = [v \in Versions |-> Absent]
    /\ savedBoard = [c \in Cmds |-> IF c \in Legacy THEN LegacyCmd ELSE NoCmd]
    /\ live = {}
    /\ \A c \in Cmds :
         /\ retained[c] = IF c \in Legacy THEN LegacyCmd
                          ELSE IF c \in requested
                               THEN [status |-> "init", version |-> None] ELSE NoCmd
         /\ c \in Legacy => inbox[c] = <<>>
         /\ \A i \in 1..Len(inbox[c]) : inbox[c][i].status = "init"

\* No step of the command is to come: it is finished, or it had no version and no
\* definition has been found for it on start.
Over(c) == board[c].status \in Finished \/ board[c] = LegacyCmd

\* What the topic says of a command, given what the board says.
TopicFollowsBoard(c) ==
  \/ board[c] = NoCmd /\ retained[c].status \in {"none", "init"}
  \/ board[c].status = "init" /\ retained[c].status = "init"
  \/ board[c].status = "executing" /\ board[c].version # None /\ retained[c] = board[c]
  \/ /\ Over(c)
     /\ \/ retained[c].status = "none"
        \/ retained[c].status \in Finished /\ retained[c].version = board[c].version

\* The messages the agent has still to process on the topic of a command come in
\* order: its requests, its outcome, and its clearing.
QueueInOrder(c) ==
  LET q == inbox[c]
  IN /\ board[c] = NoCmd /\ retained[c].status = "none" => q = <<>>
     /\ \A i \in 1..Len(q) :
          /\ q[i].status = "cleared" =>
               Over(c) /\ retained[c].status = "none" /\ i = Len(q)
          /\ q[i].status \in Finished =>
               /\ Over(c) /\ q[i].version = board[c].version
               /\ \A j \in (i+1)..Len(q) :
                    \/ q[j].status = "cleared"
                    \/ q[j].status \in Finished /\ redeliveries > 0

NotYetRequested ==
  \A c \in Cmds \ requested : inbox[c] = <<>> /\ retained[c] = NoCmd /\ board[c] = NoCmd

Topics ==
  crashes = 0 =>
    /\ NotYetRequested
    /\ up => \A c \in Cmds : TopicFollowsBoard(c) /\ QueueInOrder(c)

TopicInv == IndInv /\ FirstStart /\ Topics

-----------------------------------------------------------------------------
(* Without a crash, a redelivery nor a race: the copies on disk *)

Calm == crashes = 0 /\ redeliveries = 0 /\ ~raced

\* A known definition is still in its file, maybe in another version.
DefinitionsOnDisk ==
  \A op \in Ops : definitions[op].version # None =>
    /\ userDir[definitions[op].file] \in Versions
    /\ OpOf[userDir[definitions[op].file]] = op

\* The file which is about to be copied holds the version given to the command.
FileUnchanged ==
  job.step = "persist" /\ job.version \in Versions =>
    /\ definitions[CmdOp[job.cmd]].version = job.version
    /\ userDir[definitions[CmdOp[job.cmd]].file] = job.version

\* The commands counted by a copy: those running, and those whose outcome has still
\* to be processed by the agent.
OutcomeQueued(c) == \E i \in 1..Len(inbox[c]) : inbox[c][i].status \in Finished
Users(v) == {c \in Cmds : Version(c) = v /\ (Running(c) \/ OutcomeQueued(c))}

CopiesCountUsers ==
  \A v \in Versions :
    /\ copies[v] = Cardinality(Users(v))
    /\ copyDir[v] = IF Users(v) = {} THEN Absent ELSE v

CopiesInv == Calm => DefinitionsOnDisk /\ FileUnchanged /\ CopiesCountUsers

FullInv == TopicInv /\ CopiesInv

-----------------------------------------------------------------------------
(* Queues of messages *)

LEMMA TailAt ==
  ASSUME NEW S, NEW q \in Seq(S), q # <<>>
  PROVE  /\ Tail(q) \in Seq(S) /\ Len(q) \in Nat /\ Len(q) >= 1 /\ Head(q) = q[1]
         /\ Len(Tail(q)) = Len(q) - 1
         /\ \A i \in 1..Len(Tail(q)) : Tail(q)[i] = q[i + 1]
  OBVIOUS

LEMMA AppendAt ==
  ASSUME NEW S, NEW q \in Seq(S), NEW m \in S
  PROVE  /\ Append(q, m) \in Seq(S) /\ Len(q) \in Nat
         /\ Len(Append(q, m)) = Len(q) + 1
         /\ Append(q, m)[Len(q) + 1] = m
         /\ \A i \in 1..Len(q) : Append(q, m)[i] = q[i]
  OBVIOUS

\* An update published by the agent is received again unless it is intermediate.
LEMMA EchoAdded ==
  ASSUME NEW q \in Seq(Message), NEW m \in CmdState
  PROVE  \/ m.status \in {"executing", "none"} /\ q \o Echo(m) = q
         \/ /\ m.status \notin {"executing", "none"} /\ m \in Message
            /\ q \o Echo(m) = Append(q, m)
<1>1. CASE m.status \in {"executing", "none"}
  <2>1. Echo(m) = <<>>
    BY <1>1 DEF Echo
  <2> QED
    BY <1>1, <2>1
<1>2. CASE m.status \notin {"executing", "none"}
  <2>1. Echo(m) = <<m>> /\ m \in Message
    BY <1>2 DEF Echo, CmdState, Message, Finished
  <2>2. q \o <<m>> = Append(q, m)
    BY <2>1
  <2> QED
    BY <1>2, <2>1, <2>2
<1> QED
  BY <1>1, <1>2

-----------------------------------------------------------------------------
(* The topic of a command, step by step *)

LEMMA TopicUntouched ==
  ASSUME TypeOK, NEW c \in Cmds, TopicFollowsBoard(c), QueueInOrder(c),
         board'[c] = board[c], retained'[c] = retained[c], inbox'[c] = inbox[c],
         redeliveries' = redeliveries
  PROVE  TopicFollowsBoard(c)' /\ QueueInOrder(c)'
  BY DEF TopicFollowsBoard, QueueInOrder, Over

\* The agent takes a message and leaves the command as it is.
LEMMA MessageTaken ==
  ASSUME TypeOK, NEW c \in Cmds, TopicFollowsBoard(c), QueueInOrder(c),
         inbox[c] # <<>>, inbox'[c] = Tail(inbox[c]),
         board'[c] = board[c], retained'[c] = retained[c], redeliveries' = redeliveries
  PROVE  TopicFollowsBoard(c)' /\ QueueInOrder(c)'
<1> DEFINE q == inbox[c]
<1>1. /\ q \in Seq(Message) /\ Len(q) \in Nat /\ Len(q) >= 1
      /\ Len(Tail(q)) = Len(q) - 1
      /\ \A i \in 1..Len(Tail(q)) : Tail(q)[i] = q[i + 1]
  BY TailAt DEF TypeOK
<1>2. TopicFollowsBoard(c)' /\ (Over(c)' <=> Over(c))
  BY DEF TopicFollowsBoard, Over
<1>3. /\ board[c] = NoCmd /\ retained[c].status = "none" => q = <<>>
      /\ \A i \in 1..Len(q) :
          /\ q[i].status = "cleared" =>
               Over(c) /\ retained[c].status = "none" /\ i = Len(q)
          /\ q[i].status \in Finished =>
               /\ Over(c) /\ q[i].version = board[c].version
               /\ \A j \in (i+1)..Len(q) :
                    \/ q[j].status = "cleared"
                    \/ q[j].status \in Finished /\ redeliveries > 0
  BY DEF QueueInOrder
<1>4. QueueInOrder(c)'
  <2> DEFINE r == Tail(q)
  <2> HIDE DEF q
  <2> SUFFICES ASSUME NEW i \in 1..Len(r)
               PROVE  /\ r[i].status = "cleared" =>
                           Over(c) /\ retained[c].status = "none" /\ i = Len(r)
                      /\ r[i].status \in Finished =>
                           /\ Over(c) /\ r[i].version = board[c].version
                           /\ \A j \in (i+1)..Len(r) :
                                \/ r[j].status = "cleared"
                                \/ r[j].status \in Finished /\ redeliveries > 0
    BY <1>2, <1>3 DEF QueueInOrder, q
  <2>1. i \in Nat /\ i + 1 \in 1..Len(q) /\ r[i] = q[i + 1]
    BY <1>1
  <2>2. \A j \in (i+1)..Len(r) : j + 1 \in ((i+1)+1)..Len(q) /\ r[j] = q[j + 1]
    BY <1>1, <2>1
  <2>3. /\ r[i].status = "cleared" => Over(c) /\ retained[c].status = "none" /\ i + 1 = Len(q)
        /\ r[i].status \in Finished =>
             /\ Over(c) /\ r[i].version = board[c].version
             /\ \A j \in ((i+1)+1)..Len(q) :
                    \/ q[j].status = "cleared"
                    \/ q[j].status \in Finished /\ redeliveries > 0
    BY <1>3, <2>1
  <2> QED
    BY <1>1, <2>1, <2>2, <2>3
<1> QED
  BY <1>2, <1>4

\* As long as a command has steps to come, it has no outcome.
LEMMA NoOutcomeYet ==
  ASSUME NEW c \in Cmds, QueueInOrder(c), ~Over(c)
  PROVE  \A i \in 1..Len(inbox[c]) : inbox[c][i].status \notin Finished \cup {"cleared"}
  BY DEF QueueInOrder

\* Conversely, a queue with neither an outcome nor a clearing is in order.
LEMMA NoOutcomeInOrder ==
  ASSUME NEW c \in Cmds,
         (\A i \in 1..Len(inbox[c]) : inbox[c][i].status \notin Finished \cup {"cleared"})',
         (~(board[c] = NoCmd /\ retained[c].status = "none") \/ inbox[c] = <<>>)'
  PROVE  QueueInOrder(c)'
  BY DEF QueueInOrder

InitMsg == [status |-> "init", version |-> None]

LEMMA RequestTopics ==
  ASSUME TopicInv, NEW d \in Cmds, Request(d)
  PROVE  FirstStart' /\ Topics'
<1> USE DEF TopicInv, IndInv
<1>1. /\ d \notin requested /\ requested' = requested \cup {d}
      /\ retained' = [retained EXCEPT ![d] = InitMsg]
      /\ inbox' = [inbox EXCEPT ![d] = Append(@, InitMsg)]
      /\ UNCHANGED <<announced, copyDir, savedBoard, live, board, up, crashes, redeliveries>>
  BY DEF Request, diskVars, memVars, InitMsg
<1>2. /\ retained \in [Cmds -> CmdState] /\ inbox \in [Cmds -> Seq(Message)]
      /\ InitMsg \in Message
  BY DEF TypeOK, InitMsg, Message, AnyVersion
<1>3. /\ retained'[d] = InitMsg /\ inbox'[d] = Append(inbox[d], InitMsg)
      /\ \A c \in Cmds \ {d} : retained'[c] = retained[c] /\ inbox'[c] = inbox[c]
  BY <1>1, <1>2
<1>4. ASSUME crashes = 0
      PROVE  /\ inbox[d] = <<>> /\ board[d] = NoCmd /\ retained[d] = NoCmd
             /\ inbox'[d] = <<InitMsg>>
  <2>1. inbox[d] = <<>> /\ board[d] = NoCmd /\ retained[d] = NoCmd
    BY <1>1, <1>4 DEF Topics, NotYetRequested
  <2>2. Append(<<>>, InitMsg) = <<InitMsg>>
    BY <1>2
  <2> QED
    BY <1>3, <2>1, <2>2
<1>5. FirstStart'
  <2> SUFFICES ASSUME crashes = 0, ~up
               PROVE  \A c \in Cmds :
                         /\ retained'[c] = IF c \in Legacy THEN LegacyCmd
                                           ELSE IF c \in requested' THEN InitMsg ELSE NoCmd
                         /\ c \in Legacy => inbox'[c] = <<>>
                         /\ \A i \in 1..Len(inbox'[c]) : inbox'[c][i].status = "init"
    BY <1>1 DEF FirstStart, InitMsg
  <2>1. d \notin Legacy
    BY <1>4 DEF FirstStart, LegacyCmd, NoCmd
  <2>2. \A i \in 1..Len(inbox'[d]) : inbox'[d][i].status = "init"
    BY <1>4 DEF InitMsg
  <2> QED
    BY <1>1, <1>3, <2>1, <2>2 DEF FirstStart, InitMsg
<1>6. Topics'
  <2> SUFFICES ASSUME crashes = 0
               PROVE  NotYetRequested' /\ (up => \A c \in Cmds : (TopicFollowsBoard(c) /\ QueueInOrder(c))')
    BY <1>1 DEF Topics
  <2>1. NotYetRequested'
    BY <1>1, <1>3 DEF Topics, NotYetRequested
  <2>2. ASSUME up, NEW c \in Cmds PROVE (TopicFollowsBoard(c) /\ QueueInOrder(c))'
    <3>1. CASE c # d
      BY <1>1, <1>3, <2>2, <3>1, TopicUntouched DEF Topics
    <3>2. CASE c = d
      <4>1. \A i \in 1..Len(inbox'[c]) : inbox'[c][i].status \notin Finished \cup {"cleared"}
        BY <1>4, <3>2 DEF InitMsg, Finished
      <4>2. retained'[c].status = "init" /\ board'[c] = NoCmd
        BY <1>1, <1>3, <1>4, <3>2 DEF InitMsg
      <4> QED
        BY <4>1, <4>2, NoOutcomeInOrder DEF TopicFollowsBoard
    <3> QED
      BY <3>1, <3>2
  <2> QED
    BY <2>1, <2>2
<1> QED
  BY <1>5, <1>6

LEMMA ClearTopics ==
  ASSUME TopicInv, NEW d \in Cmds, ClearRequest(d)
  PROVE  FirstStart' /\ Topics'
<1> USE DEF TopicInv, IndInv
<1> DEFINE m == [status |-> "cleared", version |-> None]
<1>1. /\ retained[d].status \in Finished
      /\ retained' = [retained EXCEPT ![d] = NoCmd]
      /\ inbox' = [inbox EXCEPT ![d] = Append(@, m)]
      /\ UNCHANGED <<announced, copyDir, savedBoard, live, board, up, crashes,
                     redeliveries, requested>>
  BY DEF ClearRequest, diskVars, memVars, boundVars
<1>2. /\ retained \in [Cmds -> CmdState] /\ inbox \in [Cmds -> Seq(Message)]
      /\ m \in Message
  BY DEF TypeOK, Message, AnyVersion
<1>3. /\ retained'[d] = NoCmd /\ inbox'[d] = Append(inbox[d], m)
      /\ \A c \in Cmds \ {d} : retained'[c] = retained[c] /\ inbox'[c] = inbox[c]
  BY <1>1, <1>2
<1>4. retained[d].status \notin {"none", "init", "executing"}
  BY <1>1 DEF Finished
<1>5. crashes = 0 => up /\ d \in requested
  BY <1>4 DEF FirstStart, Topics, NotYetRequested, LegacyCmd, NoCmd
<1>6. FirstStart'
  BY <1>1, <1>5 DEF FirstStart
<1>7. Topics'
  <2> SUFFICES ASSUME crashes = 0
               PROVE  NotYetRequested' /\ (\A c \in Cmds : (TopicFollowsBoard(c) /\ QueueInOrder(c))')
    BY <1>1 DEF Topics
  <2>1. NotYetRequested'
    BY <1>1, <1>3, <1>5 DEF Topics, NotYetRequested
  <2>2. ASSUME NEW c \in Cmds, c # d PROVE (TopicFollowsBoard(c) /\ QueueInOrder(c))'
    BY <1>1, <1>3, <1>5, <2>2, TopicUntouched DEF Topics
  <2>3. (TopicFollowsBoard(d) /\ QueueInOrder(d))'
    <3> DEFINE q == inbox[d]
    <3>1. Over(d) /\ QueueInOrder(d)
      BY <1>4, <1>5 DEF Topics, TopicFollowsBoard, NoCmd, Over, LegacyCmd
    <3>2. Over(d)' /\ TopicFollowsBoard(d)' /\ board[d] # NoCmd
      BY <1>1, <1>3, <3>1 DEF Over, TopicFollowsBoard, NoCmd, LegacyCmd, Finished
    <3>3. /\ Len(q) \in Nat /\ Len(inbox'[d]) = Len(q) + 1 /\ inbox'[d][Len(q) + 1] = m
          /\ \A i \in 1..Len(q) : inbox'[d][i] = q[i]
      BY <1>2, <1>3, AppendAt
    <3>4. \A i \in 1..Len(q) :
            /\ q[i].status # "cleared"
            /\ q[i].status \in Finished =>
                 /\ q[i].version = board[d].version
                 /\ \A j \in (i+1)..Len(q) : q[j].status \in Finished /\ redeliveries > 0
      BY <1>4, <3>1 DEF QueueInOrder
    <3>5. m.status = "cleared" /\ m.status \notin Finished
      BY DEF Finished
    <3> HIDE DEF q, m
    <3>6. ASSUME NEW i \in 1..Len(inbox'[d])
          PROVE  /\ inbox'[d][i].status = "cleared" => i = Len(inbox'[d])
                 /\ inbox'[d][i].status \in Finished =>
                      /\ inbox'[d][i].version = board[d].version
                      /\ \A j \in (i+1)..Len(inbox'[d]) :
                           \/ inbox'[d][j].status = "cleared"
                           \/ inbox'[d][j].status \in Finished /\ redeliveries > 0
      <4>1. CASE i = Len(q) + 1
        BY <3>3, <3>5, <4>1
      <4>2. CASE i \in 1..Len(q)
        <5>1. \A j \in (i+1)..Len(inbox'[d]) : j = Len(q) + 1 \/ j \in (i+1)..Len(q)
          BY <3>3, <4>2
        <5>2. \A j \in (i+1)..Len(q) : j \in 1..Len(q)
          BY <4>2
        <5> QED
          BY <3>3, <3>4, <3>5, <4>2, <5>1, <5>2
      <4> QED
        BY <3>3, <4>1, <4>2
    <3> QED
      BY <1>1, <1>3, <3>2, <3>6 DEF QueueInOrder, NoCmd
  <2> QED
    BY <2>1, <2>2, <2>3
<1> QED
  BY <1>6, <1>7

LEMMA RedeliverTopics ==
  ASSUME TopicInv, NEW d \in Cmds, Redeliver(d)
  PROVE  FirstStart' /\ Topics'
<1> USE DEF TopicInv, IndInv
<1> DEFINE m == retained[d]
<1>1. /\ up /\ m.status # "none" /\ redeliveries' = redeliveries + 1
      /\ inbox' = [inbox EXCEPT ![d] = @ \o Echo(m)]
      /\ UNCHANGED <<announced, copyDir, savedBoard, live, board, up, crashes,
                     retained, requested>>
  BY DEF Redeliver, diskVars, memVars
<1>2. /\ m \in CmdState /\ inbox \in [Cmds -> Seq(Message)] /\ redeliveries \in Nat
      /\ redeliveries' \in Nat /\ redeliveries' > 0
  BY <1>1 DEF TypeOK
<1>3. /\ inbox'[d] = inbox[d] \o Echo(m)
      /\ \A c \in Cmds \ {d} : inbox'[c] = inbox[c]
  BY <1>1, <1>2
<1>4. FirstStart'
  BY <1>1 DEF FirstStart
<1>5. Topics'
  <2> SUFFICES ASSUME crashes = 0
               PROVE  NotYetRequested' /\ (\A c \in Cmds : (TopicFollowsBoard(c) /\ QueueInOrder(c))')
    BY <1>1 DEF Topics
  <2>0. \A c \in Cmds : TopicFollowsBoard(c) /\ QueueInOrder(c)
    BY <1>1 DEF Topics
  <2>1. NotYetRequested'
    BY <1>1, <1>3 DEF Topics, NotYetRequested, NoCmd
  <2>2. ASSUME NEW c \in Cmds, inbox'[c] = inbox[c]
        PROVE  (TopicFollowsBoard(c) /\ QueueInOrder(c))'
    <3>1. TopicFollowsBoard(c)' /\ (Over(c)' <=> Over(c))
      BY <1>1, <2>0 DEF TopicFollowsBoard, Over
    <3> QED
      BY <1>1, <1>2, <2>0, <2>2, <3>1 DEF QueueInOrder
  <2>3. (TopicFollowsBoard(d) /\ QueueInOrder(d))'
    <3> DEFINE q == inbox[d]
    <3>1. CASE q \o Echo(m) = q
      BY <1>3, <2>2, <3>1
    <3>2. CASE /\ m.status \notin {"executing", "none"} /\ m \in Message
               /\ q \o Echo(m) = Append(q, m)
      <4>1. /\ Len(q) \in Nat /\ Len(inbox'[d]) = Len(q) + 1 /\ inbox'[d][Len(q) + 1] = m
            /\ \A i \in 1..Len(q) : inbox'[d][i] = q[i]
        BY <1>2, <1>3, <3>2, AppendAt
      <4>2. TopicFollowsBoard(d)' /\ (Over(d)' <=> Over(d))
        BY <1>1, <2>0 DEF TopicFollowsBoard, Over
      <4>3. CASE m.status = "init"
        <5>1. ~Over(d)
          BY <2>0, <4>3 DEF TopicFollowsBoard, Over, LegacyCmd, Finished, NoCmd
        <5>2. \A i \in 1..Len(q) : q[i].status \notin Finished \cup {"cleared"}
          BY <2>0, <5>1, NoOutcomeYet
        <5>3. m.status \notin Finished \cup {"cleared"}
          BY <4>3 DEF Finished
        <5> HIDE DEF q, m
        <5>4. \A i \in 1..Len(inbox'[d]) : i = Len(q) + 1 \/ i \in 1..Len(q)
          BY <4>1
        <5>5. \A i \in 1..Len(inbox'[d]) : inbox'[d][i].status \notin Finished \cup {"cleared"}
          BY <4>1, <5>2, <5>3, <5>4
        <5> QED
          BY <1>1, <4>2, <4>3, <5>5, NoOutcomeInOrder DEF m
      <4>4. CASE m.status \in Finished
        <5>1. Over(d) /\ m.version = board[d].version
          BY <2>0, <4>4 DEF TopicFollowsBoard, Over, LegacyCmd, Finished, NoCmd
        <5>2. \A i \in 1..Len(q) :
                /\ q[i].status # "cleared"
                /\ q[i].status \in Finished =>
                     /\ q[i].version = board[d].version
                     /\ \A j \in (i+1)..Len(q) : q[j].status \in Finished
          BY <1>1, <2>0 DEF QueueInOrder
        <5>3. m.status # "cleared"
          BY <4>4 DEF Finished
        <5> HIDE DEF q, m
        <5>4. ASSUME NEW i \in 1..Len(inbox'[d])
              PROVE  /\ inbox'[d][i].status # "cleared"
                     /\ inbox'[d][i].status \in Finished =>
                          /\ inbox'[d][i].version = board[d].version
                          /\ \A j \in (i+1)..Len(inbox'[d]) : inbox'[d][j].status \in Finished
          <6>1. CASE i = Len(q) + 1
            BY <4>1, <4>4, <5>1, <5>3, <6>1
          <6>2. CASE i \in 1..Len(q)
            <7>1. \A j \in (i+1)..Len(inbox'[d]) :
                     j = Len(q) + 1 \/ (j \in (i+1)..Len(q) /\ j \in 1..Len(q))
              BY <4>1, <6>2
            <7> QED
              BY <4>1, <4>4, <5>2, <6>2, <7>1
          <6> QED
            BY <4>1, <6>1, <6>2
        <5> QED
          BY <1>1, <1>2, <4>2, <5>1, <5>4 DEF QueueInOrder, m
      <4> QED
        BY <1>2, <3>2, <4>3, <4>4 DEF CmdState, Finished
    <3> QED
      BY <1>2, <3>1, <3>2, EchoAdded
  <2> QED
    BY <1>3, <2>1, <2>2, <2>3
<1> QED
  BY <1>4, <1>5

\* The steps of the user, and those of the agent on files, leave the topics alone.
LEMMA TopicsUnchanged ==
  ASSUME TopicInv,
         UNCHANGED <<board, retained, inbox, requested, up, crashes, redeliveries>>,
         up \/ UNCHANGED <<announced, copyDir, savedBoard, live>>
  PROVE  FirstStart' /\ Topics'
<1> USE DEF TopicInv, IndInv
<1>1. FirstStart'
  BY DEF FirstStart
<1>2. crashes = 0 => NotYetRequested'
  BY DEF Topics, NotYetRequested
<1>3. crashes = 0 /\ up => \A c \in Cmds : (TopicFollowsBoard(c) /\ QueueInOrder(c))'
  BY TopicUntouched DEF Topics
<1> QED
  BY <1>1, <1>2, <1>3 DEF Topics

\* A step of the agent on one command.
LEMMA AgentTopics ==
  ASSUME TopicInv, NEW d \in Cmds, up,
         UNCHANGED <<up, requested, crashes, redeliveries>>,
         \A c \in Cmds \ {d} : /\ board'[c] = board[c] /\ retained'[c] = retained[c]
                               /\ inbox'[c] = inbox[c],
         crashes = 0 => d \in requested /\ (TopicFollowsBoard(d) /\ QueueInOrder(d))'
  PROVE  FirstStart' /\ Topics'
<1> USE DEF TopicInv, IndInv
<1>1. FirstStart'
  BY DEF FirstStart
<1>2. crashes = 0 => NotYetRequested'
  BY DEF Topics, NotYetRequested
<1>3. crashes = 0 => \A c \in Cmds \ {d} : (TopicFollowsBoard(c) /\ QueueInOrder(c))'
  BY TopicUntouched DEF Topics
<1> QED
  BY <1>1, <1>2, <1>3 DEF Topics

LEMMA ReceiveTopics ==
  ASSUME TopicInv, NEW d \in Cmds, OnInit(d) \/ OnFinished(d) \/ OnCleared(d)
  PROVE  FirstStart' /\ Topics'
<1> USE DEF TopicInv, IndInv
<1> DEFINE q == inbox[d]
<1>1. /\ up /\ job = NoJob /\ q # <<>> /\ inbox' = [inbox EXCEPT ![d] = Tail(@)]
      /\ UNCHANGED <<up, requested, crashes, redeliveries, retained>>
  BY DEF OnInit, OnFinished, OnCleared, Receive, Idle, boundVars
<1>2. /\ board \in [Cmds -> CmdState] /\ inbox \in [Cmds -> Seq(Message)]
      /\ inbox'[d] = Tail(q) /\ \A c \in Cmds \ {d} : inbox'[c] = inbox[c]
  BY <1>1 DEF TypeOK
<1>3. \A c \in Cmds \ {d} : board'[c] = board[c]
  BY <1>2 DEF OnInit, OnFinished, OnCleared
<1>4. ASSUME crashes = 0
      PROVE  d \in requested /\ TopicFollowsBoard(d) /\ QueueInOrder(d)
  BY <1>1, <1>4 DEF Topics, NotYetRequested
<1>5. ASSUME crashes = 0 PROVE (TopicFollowsBoard(d) /\ QueueInOrder(d))'
  <2>1. CASE board'[d] = board[d]
    BY <1>1, <1>2, <1>4, <1>5, <2>1, MessageTaken
  <2>2. CASE OnInit(d) /\ board'[d] # board[d]
    <3>1. board[d] = NoCmd /\ board'[d].status = "init"
      BY <1>2, <2>2 DEF OnInit, Accepts
    <3>2. ~Over(d) /\ retained[d].status = "init"
      BY <1>1, <1>4, <1>5, <3>1
      DEF TopicFollowsBoard, QueueInOrder, Over, NoCmd, LegacyCmd, Finished
    <3>3. \A i \in 1..Len(q) : q[i].status \notin Finished \cup {"cleared"}
      BY <1>4, <1>5, <3>2, NoOutcomeYet
    <3>4. /\ Len(q) \in Nat /\ Len(Tail(q)) = Len(q) - 1
          /\ \A i \in 1..Len(Tail(q)) : Tail(q)[i] = q[i + 1]
      BY <1>1, <1>2, TailAt
    <3>5. \A i \in 1..Len(Tail(q)) : i + 1 \in 1..Len(q)
      BY <3>4
    <3>6. \A i \in 1..Len(inbox'[d]) : inbox'[d][i].status \notin Finished \cup {"cleared"}
      BY <1>2, <3>3, <3>4, <3>5
    <3> QED
      BY <1>1, <3>1, <3>2, <3>6, NoOutcomeInOrder DEF TopicFollowsBoard, NoCmd
  <2>3. CASE OnCleared(d) /\ board'[d] # board[d]
    <3>1. board'[d] = NoCmd /\ Head(q).status = "cleared"
      BY <1>2, <2>3 DEF OnCleared, Receive
    <3>2. /\ Len(q) \in Nat /\ Len(q) >= 1 /\ Head(q) = q[1] /\ Len(Tail(q)) = Len(q) - 1
          /\ Tail(q) \in Seq(Message)
      BY <1>1, <1>2, TailAt
    <3>3. retained[d].status = "none" /\ Len(q) = 1
      <4>1. 1 \in 1..Len(q) /\ q[1].status = "cleared"
        BY <3>1, <3>2
      <4> QED
        BY <1>4, <1>5, <4>1 DEF QueueInOrder
    <3>4. Len(Tail(q)) = 0
      BY <3>2, <3>3
    <3>5. inbox'[d] = <<>>
      BY <1>2, <3>2, <3>4
    <3> QED
      BY <1>1, <3>1, <3>3, <3>5 DEF TopicFollowsBoard, QueueInOrder
  <2>4. CASE OnFinished(d)
    BY <2>1, <2>4 DEF OnFinished
  <2> QED
    BY <2>1, <2>2, <2>3, <2>4
<1> QED
  BY <1>1, <1>2, <1>3, <1>4, <1>5, AgentTopics

LEMMA StartTopics ==
  ASSUME TopicInv, StartCommand
  PROVE  FirstStart' /\ Topics'
<1> USE DEF TopicInv, IndInv
<1> PICK d \in Cmds : d = job.cmd
  BY DEF StartCommand, TypeOK, NoJob
<1> DEFINE m == [status |-> "executing", version |-> job.version]
<1>1. /\ up /\ job # NoJob /\ job.version \in Versions \cup {Builtin}
      /\ job.version # None
  BY RepositoryAssumptions DEF StartCommand, TypeOK, NoJob
<1>2. /\ board' = [board EXCEPT ![d] = m] /\ retained' = [retained EXCEPT ![d] = m]
      /\ inbox' = [inbox EXCEPT ![d] = @ \o Echo(m)]
      /\ UNCHANGED <<up, requested, crashes, redeliveries>>
  BY DEF StartCommand, Publish, boundVars
<1>3. /\ board \in [Cmds -> CmdState] /\ retained \in [Cmds -> CmdState]
      /\ inbox \in [Cmds -> Seq(Message)] /\ m \in CmdState
  BY <1>1 DEF TypeOK, CmdState, AnyVersion
<1>4. inbox[d] \o Echo(m) = inbox[d]
  BY <1>1, <1>3, EchoAdded
<1>5. /\ board'[d] = m /\ retained'[d] = m /\ inbox'[d] = inbox[d]
      /\ \A c \in Cmds \ {d} : /\ board'[c] = board[c] /\ retained'[c] = retained[c]
                               /\ inbox'[c] = inbox[c]
  BY <1>1, <1>2, <1>3, <1>4
<1>6. board[d].status = "init"
  BY <1>1 DEF JobOnBoard
<1>7. ASSUME crashes = 0
      PROVE  d \in requested /\ (TopicFollowsBoard(d) /\ QueueInOrder(d))'
  <2>1. d \in requested /\ QueueInOrder(d)
    BY <1>1, <1>6, <1>7 DEF Topics, NotYetRequested, NoCmd
  <2>2. ~Over(d)
    BY <1>6 DEF Over, Finished, LegacyCmd
  <2>3. \A i \in 1..Len(inbox'[d]) : inbox'[d][i].status \notin Finished \cup {"cleared"}
    BY <1>1, <1>5, <2>1, <2>2, NoOutcomeYet
  <2>4. QueueInOrder(d)'
    BY <1>1, <1>5, <2>3, NoOutcomeInOrder DEF NoCmd
  <2> QED
    BY <1>1, <1>5, <2>1, <2>4 DEF TopicFollowsBoard
<1> QED
  BY <1>1, <1>2, <1>5, <1>7, AgentTopics

LEMMA FinishTopics ==
  ASSUME TopicInv, NEW d \in Cmds, NEW outcome \in Finished, FinishCommand(d, outcome)
  PROVE  FirstStart' /\ Topics'
<1> USE DEF TopicInv, IndInv
<1> DEFINE m == [status |-> outcome, version |-> board[d].version]
           q == inbox[d]
<1>1. /\ board' = [board EXCEPT ![d] = m] /\ retained' = [retained EXCEPT ![d] = m]
      /\ inbox' = [inbox EXCEPT ![d] = @ \o Echo(m)] /\ up
      /\ UNCHANGED <<up, requested, crashes, redeliveries>>
  BY DEF FinishCommand, Publish, boundVars, Idle
<1>2. /\ board \in [Cmds -> CmdState] /\ retained \in [Cmds -> CmdState]
      /\ inbox \in [Cmds -> Seq(Message)] /\ m \in CmdState /\ m \in Message
  BY DEF TypeOK, CmdState, Message, Finished
<1>3. /\ board[d].status = "executing" /\ board[d].version # None
      /\ m.status \in Finished /\ m.version = board[d].version
  <2>1. d \in live /\ CmdOp[d] \in Ops
    BY RepositoryAssumptions DEF FinishCommand
  <2> QED
    BY <2>1, RepositoryAssumptions DEF LiveVersionLoaded, TypeOK
<1>4. q \o Echo(m) = Append(q, m)
  BY <1>2, <1>3, EchoAdded DEF Finished
<1>5. /\ board'[d] = m /\ retained'[d] = m /\ inbox'[d] = Append(q, m)
      /\ \A c \in Cmds \ {d} : /\ board'[c] = board[c] /\ retained'[c] = retained[c]
                               /\ inbox'[c] = inbox[c]
  BY <1>1, <1>2, <1>4
<1>6. ASSUME crashes = 0
      PROVE  d \in requested /\ (TopicFollowsBoard(d) /\ QueueInOrder(d))'
  <2>1. d \in requested /\ QueueInOrder(d)
    BY <1>1, <1>3, <1>6 DEF Topics, NotYetRequested, NoCmd
  <2>2. ~Over(d) /\ Over(d)' /\ TopicFollowsBoard(d)'
    BY <1>3, <1>5 DEF Over, Finished, LegacyCmd, TopicFollowsBoard
  <2>3. \A i \in 1..Len(q) : q[i].status \notin Finished \cup {"cleared"}
    BY <2>1, <2>2, NoOutcomeYet
  <2>4. /\ Len(q) \in Nat /\ Len(inbox'[d]) = Len(q) + 1 /\ inbox'[d][Len(q) + 1] = m
        /\ \A i \in 1..Len(q) : inbox'[d][i] = q[i]
    BY <1>2, <1>5, AppendAt
  <2>5. m.status # "cleared" /\ board'[d] # NoCmd
    BY <1>3, <1>5 DEF Finished, NoCmd
  <2> HIDE DEF q, m
  <2>6. \A i \in 1..Len(inbox'[d]) : i = Len(inbox'[d]) \/ i \in 1..Len(q)
    BY <2>4
  <2>7. \A i \in 1..Len(inbox'[d]) :
          /\ inbox'[d][i].status # "cleared"
          /\ inbox'[d][i].status \in Finished => i = Len(inbox'[d]) /\ inbox'[d][i] = m
    BY <2>3, <2>4, <2>5, <2>6
  <2>8. \A j \in (Len(inbox'[d]) + 1)..Len(inbox'[d]) : FALSE
    BY <2>4
  <2>9. QueueInOrder(d)'
    BY <1>3, <1>5, <2>2, <2>5, <2>7, <2>8 DEF QueueInOrder
  <2> QED
    BY <2>1, <2>2, <2>9
<1> QED
  BY <1>1, <1>5, <1>6, AgentTopics

\* The first start: the commands without a version are given one, and the requests
\* sent in the meantime may be received twice.
LEMMA RestartTopics ==
  ASSUME TopicInv, Restart
  PROVE  FirstStart' /\ Topics'
<1> USE DEF TopicInv, IndInv
<1>0. FirstStart' /\ up' /\ ~up /\ UNCHANGED <<requested, crashes, redeliveries>>
  BY DEF FirstStart, Restart, boundVars
<1> SUFFICES ASSUME crashes = 0 PROVE Topics'
  BY <1>0 DEF Topics
<1>p. PICK src \in Sources :
      /\ board' = BoardOnStart(src)
      /\ retained' = [c \in Cmds |->
                        IF savedBoard[c].status = "none" THEN retained[c]
                        ELSE IF Started(src, c) THEN board'[c] ELSE Resumed(src, c)]
      /\ inbox' = [c \in Cmds |-> inbox[c] \o Echo(retained[c]) \o Echo(Resumed(src, c))]
  BY DEF Restart
<1>1. ASSUME NEW c \in Cmds, c \notin Legacy
      PROVE  /\ board'[c] = NoCmd /\ retained'[c] = retained[c]
             /\ retained[c] = NoCmd /\ inbox[c] = <<>> => inbox'[c] = <<>>
             /\ retained[c] = NoCmd \/ retained[c] = InitMsg
             /\ \A i \in 1..Len(inbox'[c]) : inbox'[c][i].status = "init"
  <2>1. savedBoard[c] = NoCmd /\ retained[c] \in {NoCmd, InitMsg}
    BY <1>0, <1>1 DEF FirstStart, InitMsg
  <2>2. /\ board'[c] = NoCmd /\ Resumed(src, c) = NoCmd /\ retained'[c] = retained[c]
    BY <1>p, <2>1
    DEF BoardOnStart, Resumed, Pending, Started, AdoptedVersion, Unversioned, NoCmd
  <2>3. /\ inbox[c] \in Seq(Message) /\ NoCmd \in CmdState /\ InitMsg \in CmdState
        /\ InitMsg \in Message
    BY DEF TypeOK, CmdState, Message, AnyVersion, NoCmd, InitMsg
  <2>4. /\ Echo(NoCmd) = <<>> /\ Echo(InitMsg) = <<InitMsg>>
    BY DEF Echo, NoCmd, InitMsg
  <2>5. inbox'[c] = inbox[c] \o Echo(retained[c]) \o <<>>
    BY <1>p, <2>2, <2>4
  <2>6. CASE retained[c] = NoCmd
    <3>1. inbox'[c] = inbox[c]
      BY <2>3, <2>4, <2>5, <2>6
    <3> QED
      BY <1>0, <2>2, <2>6, <3>1 DEF FirstStart
  <2>7. CASE retained[c] = InitMsg
    <3>1. inbox[c] \o <<InitMsg>> = Append(inbox[c], InitMsg)
          /\ Append(inbox[c], InitMsg) \in Seq(Message)
      BY <2>3
    <3>2. inbox'[c] = Append(inbox[c], InitMsg)
      <4>1. Append(inbox[c], InitMsg) \o <<>> = Append(inbox[c], InitMsg)
        BY <3>1
      <4> QED
        BY <2>4, <2>5, <2>7, <3>1, <4>1
    <3>3. /\ Len(inbox[c]) \in Nat /\ Len(inbox'[c]) = Len(inbox[c]) + 1
          /\ inbox'[c][Len(inbox[c]) + 1] = InitMsg
          /\ \A i \in 1..Len(inbox[c]) : inbox'[c][i] = inbox[c][i]
      BY <2>3, <3>2, AppendAt
    <3>4. \A i \in 1..Len(inbox'[c]) : i = Len(inbox[c]) + 1 \/ i \in 1..Len(inbox[c])
      BY <3>3
    <3>5. \A i \in 1..Len(inbox'[c]) : inbox'[c][i].status = "init"
      BY <1>0, <3>3, <3>4 DEF FirstStart, InitMsg
    <3> QED
      BY <2>2, <2>7, <3>5 DEF InitMsg, NoCmd
  <2> QED
    BY <2>1, <2>6, <2>7
<1>2. ASSUME NEW c \in Cmds, c \in Legacy
      PROVE  /\ c \in requested
             /\ \/ /\ board'[c].status = "executing" /\ board'[c].version # None
                   /\ retained'[c] = board'[c] /\ inbox'[c] = <<>>
                \/ /\ board'[c] = LegacyCmd
                   /\ retained'[c] = [status |-> "failed", version |-> None]
                   /\ inbox'[c] = <<[status |-> "failed", version |-> None]>>
  <2> DEFINE v == AdoptedVersion(src, c)
  <2>1. savedBoard[c] = LegacyCmd /\ retained[c] = LegacyCmd /\ inbox[c] = <<>>
    BY <1>0, <1>2 DEF FirstStart
  <2>2. c \in requested
    BY <2>1 DEF Topics, NotYetRequested, LegacyCmd, NoCmd
  <2>3. v \in AnyVersion /\ Unversioned(c) /\ ~Started(src, c)
    BY <2>1, LoadedTables DEF Unversioned, LegacyCmd, Started
  <2>4. Pending(src)[c] = [status |-> "executing", version |-> v]
        /\ board'[c] = Pending(src)[c] /\ retained'[c] = Resumed(src, c)
    BY <1>p, <2>1, <2>3 DEF Pending, BoardOnStart, LegacyCmd
  <2> HIDE DEF v
  <2>5. Found(src, c) <=> v # None
    <3>1. CmdOp[c] \in Ops
      BY RepositoryAssumptions
    <3>2. v # None => v \in Versions \cup {Builtin} /\ c \in Adopters(src, v)
      BY <2>3 DEF AnyVersion, Adopters, v
    <3>3. v # None => v \in InUseOnStart(src)[CmdOp[c]]
      BY <3>1, <3>2 DEF InUseOnStart
    <3>4. None \notin InUseOnStart(src)[CmdOp[c]]
      BY <3>1, LoadedTables, RepositoryAssumptions
    <3> QED
      BY <3>3, <3>4 DEF Found, v
  <2>6. Echo(LegacyCmd) = <<>>
    BY DEF Echo, LegacyCmd
  <2>7. CASE v # None
    <3>1. Resumed(src, c) = Pending(src)[c] /\ Echo(Resumed(src, c)) = <<>>
      BY <2>4, <2>5, <2>7 DEF Resumed, Echo
    <3>2. inbox'[c] = <<>>
      BY <1>p, <2>1, <2>6, <3>1
    <3> QED
      BY <2>2, <2>4, <2>7, <3>1, <3>2
  <2>8. CASE v = None
    <3> DEFINE m == [status |-> "failed", version |-> None]
    <3>1. Resumed(src, c) = m
      BY <2>1, <2>4, <2>5, <2>8 DEF Resumed, LegacyCmd
    <3>2. Echo(m) = <<m>>
      BY DEF Echo
    <3>3. inbox'[c] = <<m>>
      <4>1. inbox'[c] = <<>> \o <<>> \o <<m>>
        BY <1>p, <2>1, <2>6, <3>1, <3>2
      <4> QED
        BY <4>1
    <3> QED
      BY <2>2, <2>4, <2>8, <3>1, <3>3 DEF LegacyCmd
  <2> QED
    BY <2>7, <2>8
<1>3. NotYetRequested'
  <2> SUFFICES ASSUME NEW c \in Cmds, c \notin requested
               PROVE  inbox'[c] = <<>> /\ retained'[c] = NoCmd /\ board'[c] = NoCmd
    BY <1>0 DEF NotYetRequested
  <2> QED
    BY <1>1, <1>2 DEF Topics, NotYetRequested
<1>4. ASSUME NEW c \in Cmds PROVE (TopicFollowsBoard(c) /\ QueueInOrder(c))'
  <2>1. CASE c \notin Legacy
    <3>1. TopicFollowsBoard(c)'
      BY <1>1, <2>1 DEF TopicFollowsBoard, NoCmd, InitMsg
    <3>2. \A i \in 1..Len(inbox'[c]) : inbox'[c][i].status \notin Finished \cup {"cleared"}
      BY <1>1, <2>1 DEF Finished
    <3>3. retained[c] = NoCmd => inbox[c] = <<>>
      <4>1. retained[c] = NoCmd => c \notin requested
        BY <1>0, <2>1 DEF FirstStart, NoCmd
      <4> QED
        BY <4>1 DEF Topics, NotYetRequested
    <3>4. InitMsg.status # "none"
      BY DEF InitMsg
    <3> QED
      BY <1>1, <2>1, <3>1, <3>2, <3>3, <3>4, NoOutcomeInOrder
  <2>2. CASE c \in Legacy /\ inbox'[c] = <<>>
    <3>1. /\ board'[c].status = "executing" /\ board'[c].version # None
          /\ retained'[c] = board'[c]
      BY <1>2, <2>2
    <3> QED
      BY <2>2, <3>1 DEF TopicFollowsBoard, QueueInOrder, NoCmd
  <2>3. CASE c \in Legacy /\ inbox'[c] # <<>>
    <3> DEFINE m == [status |-> "failed", version |-> None]
    <3>1. board'[c] = LegacyCmd /\ retained'[c] = m /\ inbox'[c] = <<m>>
      BY <1>2, <2>3
    <3>2. Over(c)' /\ TopicFollowsBoard(c)' /\ board'[c] # NoCmd
      BY <3>1 DEF Over, TopicFollowsBoard, LegacyCmd, NoCmd, Finished
    <3>3. /\ Len(inbox'[c]) = 1 /\ \A i \in 1..Len(inbox'[c]) : inbox'[c][i] = m
          /\ \A i \in 1..Len(inbox'[c]) : (i + 1)..Len(inbox'[c]) = {}
      BY <3>1
    <3>4. m.status # "cleared" /\ m.version = LegacyCmd.version
      BY DEF LegacyCmd
    <3> QED
      BY <3>1, <3>2, <3>3, <3>4 DEF QueueInOrder
  <2> QED
    BY <2>1, <2>2, <2>3
<1> QED
  BY <1>3, <1>4 DEF Topics

-----------------------------------------------------------------------------
(* The invariant of the topics *)

LEMMA TopicInvInit ==
  ASSUME Init PROVE TopicInv
<1>1. IndInv
  BY InvInit
<1>2. FirstStart
  BY RepositoryAssumptions DEF Init, FirstStart, LegacyCmd, NoCmd
<1>3. Topics
  BY RepositoryAssumptions DEF Init, Topics, NotYetRequested
<1> QED
  BY <1>1, <1>2, <1>3 DEF TopicInv

LEMMA TopicInvNext ==
  ASSUME TopicInv, [Next]_vars
  PROVE  TopicInv'
<1>0. IndInv'
  BY InvNext DEF TopicInv
<1> SUFFICES FirstStart' /\ Topics'
  BY <1>0 DEF TopicInv
<1>1. CASE \E c \in Cmds : Request(c) \/ ClearRequest(c) \/ Redeliver(c)
  BY <1>1, RequestTopics, ClearTopics, RedeliverTopics
<1>2. CASE \E f \in Files : DeleteFile(f) \/ \E content \in Content : WriteFile(f, content)
  BY <1>2, TopicsUnchanged DEF DeleteFile, WriteFile, diskVars, brokerVars, memVars
<1>3. CASE OnModified \/ OnDeleted \/ PersistDefinition
  BY <1>3, TopicsUnchanged
  DEF OnModified, OnDeleted, PersistDefinition, Idle, brokerVars, boundVars
<1>4. CASE \E c \in Cmds : OnInit(c) \/ OnFinished(c) \/ OnCleared(c)
  BY <1>4, ReceiveTopics
<1>5. CASE StartCommand
  BY <1>5, StartTopics
<1>6. CASE \E c \in Cmds, outcome \in Finished : FinishCommand(c, outcome)
  BY <1>6, FinishTopics
<1>7. CASE Crash
  <2>1. crashes' # 0
    <3>1. crashes \in Nat /\ crashes' = crashes + 1
      BY <1>7 DEF Crash, TopicInv, IndInv, TypeOK
    <3> QED
      BY <3>1
  <2> QED
    BY <2>1 DEF FirstStart, Topics
<1>8. CASE Restart
  BY <1>8, RestartTopics
<1>9. CASE UNCHANGED vars
  BY <1>9, TopicsUnchanged DEF vars, diskVars, brokerVars, memVars, boundVars
<1> QED
  BY <1>1, <1>2, <1>3, <1>4, <1>5, <1>6, <1>7, <1>8, <1>9 DEF Next

LEMMA TopicInvariance == Spec => []TopicInv
<1>1. Init => TopicInv
  BY TopicInvInit
<1>2. TopicInv /\ [Next]_vars => TopicInv'
  BY TopicInvNext
<1> QED
  BY <1>1, <1>2, PTL DEF Spec

-----------------------------------------------------------------------------
(* Capabilities, and what the requester observes *)

\* Loading the latest version found on disk leaves no operation without a version.
LEMMA LatestKeepsVersions ==
  ASSUME TypeOK, NEW op \in Ops, NEW o \in Ops, current[o] # None
  PROVE  LatestCurrent(op)[o] # None
<1>1. CASE HasLatest(op)
  <2>1. userDir[LatestPath(op)] \in Versions /\ userDir[LatestPath(op)] # None
    BY <1>1, RepositoryAssumptions DEF HasLatest
  <2> QED
    BY <1>1, <2>1, RepositoryAssumptions DEF LatestCurrent, WithCurrent, TypeOK
<1>2. CASE ~HasLatest(op)
  BY <1>2 DEF LatestCurrent
<1> QED
  BY <1>1, <1>2

\* An operation can be given to a new command.
LEMMA UsableVersion ==
  ASSUME NEW cur, NEW use, NEW op
  PROVE  UseCurrentVersion(cur, use, op) # None <=> cur[op] # None \/ Builtin \in use[op]
  BY RepositoryAssumptions DEF UseCurrentVersion

Honoured == crashes = 0 => CapabilityHonoured

LEMMA HonouredNext ==
  ASSUME TopicInv, Honoured, [Next]_vars
  PROVE  Honoured'
<1> USE DEF TopicInv, IndInv
<1>0. Honoured <=> (crashes = 0 /\ up => \A op \in Ops : announced[op] =>
                       current[op] # None \/ Builtin \in inUse[op])
  BY UsableVersion DEF Honoured, CapabilityHonoured
<1>1. Honoured' <=> (crashes' = 0 /\ up' => \A op \in Ops : announced'[op] =>
                       current'[op] # None \/ Builtin \in inUse'[op])
  <2>1. \A op \in Ops : UseCurrentVersion(current, inUse, op)' # None
                          <=> current'[op] # None \/ Builtin \in inUse'[op]
    BY RepositoryAssumptions DEF UseCurrentVersion
  <2> QED
    BY <2>1 DEF Honoured, CapabilityHonoured
<1>2. CASE UNCHANGED <<current, inUse, announced, up, crashes>>
  BY <1>0, <1>1, <1>2
<1>3. ASSUME NEW c \in Cmds, OnInit(c) PROVE Honoured'
  <2> DEFINE op == CmdOp[c]
             v  == UseCurrentVersion(LatestCurrent(op), inUse, op)
  <2>1. /\ op \in Ops /\ up /\ up' = up /\ crashes' = crashes /\ announced' = announced
        /\ current' = LatestCurrent(op)
        /\ inUse' = IF v = None THEN inUse ELSE [inUse EXCEPT ![op] = @ \cup {v}]
    BY <1>3, RepositoryAssumptions DEF OnInit, Receive, Idle, boundVars
  <2> HIDE DEF v
  <2>2. \A o \in Ops : inUse[o] \subseteq inUse'[o]
    BY <2>1 DEF TypeOK
  <2>3. \A o \in Ops : current[o] # None => current'[o] # None
    BY <2>1, LatestKeepsVersions
  <2> QED
    BY <1>0, <1>1, <2>1, <2>2, <2>3
<1>4. CASE OnModified
  <2>1. /\ up /\ up' = up /\ crashes' = crashes /\ inUse' = inUse
        /\ \/ current' = current /\ announced' = announced
           \/ \E v \in Versions : /\ current' = WithCurrent(current, v)
                                  /\ announced' = [announced EXCEPT ![OpOf[v]] = TRUE]
    BY <1>4 DEF OnModified, Idle, boundVars
  <2>2. ASSUME NEW v \in Versions, current' = WithCurrent(current, v),
               announced' = [announced EXCEPT ![OpOf[v]] = TRUE], NEW o \in Ops,
               announced[o] => current[o] # None \/ Builtin \in inUse[o], announced'[o]
        PROVE  current'[o] # None \/ Builtin \in inUse[o]
    <3>1. v # None /\ OpOf[v] \in Ops
      BY RepositoryAssumptions
    <3>2. CASE o = OpOf[v]
      BY <2>2, <3>1, <3>2 DEF WithCurrent, TypeOK
    <3>3. CASE o # OpOf[v]
      BY <2>2, <3>1, <3>3 DEF WithCurrent, TypeOK
    <3> QED
      BY <3>2, <3>3
  <2> QED
    BY <1>0, <1>1, <2>1, <2>2
<1>5. CASE OnDeleted
  <2>1. /\ up /\ up' = up /\ crashes' = crashes
        /\ \/ UNCHANGED <<current, inUse, announced>>
           \/ \E op \in Ops :
                LET v == definitions[op].version
                IN /\ current' = [current EXCEPT ![op] = RemainingCurrent(op, v)]
                   /\ inUse' = [inUse EXCEPT ![op] = RemainingInUse(op, v)]
                   /\ announced' = [announced EXCEPT ![op] = @ /\ BuiltinRestored(op, v)]
    BY <1>5 DEF OnDeleted, Idle, boundVars
  <2>2. CASE UNCHANGED <<current, inUse, announced>>
    BY <1>2, <2>1, <2>2
  <2>3. ASSUME NEW op \in Ops,
               current' = [current EXCEPT ![op] = RemainingCurrent(op, definitions[op].version)],
               inUse' = [inUse EXCEPT ![op] = RemainingInUse(op, definitions[op].version)],
               announced' = [announced EXCEPT ![op] =
                               @ /\ BuiltinRestored(op, definitions[op].version)]
        PROVE  Honoured'
    <3>1. inUse' = inUse
      BY <2>3, DeletionKeepsInUse DEF TypeOK
    <3>2. \A o \in Ops \ {op} : announced'[o] = announced[o] /\ current'[o] = current[o]
      BY <2>3 DEF TypeOK
    <3>3. announced'[op] => Builtin \in inUse[op]
      BY <2>3, DeletionKeepsInUse DEF TypeOK, BuiltinRestored
    <3> QED
      BY <1>0, <1>1, <2>1, <3>1, <3>2, <3>3
  <2> QED
    BY <2>1, <2>2, <2>3
<1>6. CASE Restart
  <2>1. PICK src \in Sources :
          /\ current' = LoadedCurrent(src) /\ inUse' = InUseOnStart(src)
          /\ announced' = [op \in Ops |-> announced[op] \/ current'[op] # None
                                            \/ op \in Builtins]
    BY <1>6 DEF Restart
  <2>2. ~up /\ crashes' = crashes
    BY <1>6 DEF Restart, boundVars
  <2>3. crashes = 0 => \A op \in Ops : ~announced[op]
    BY <2>2 DEF FirstStart
  <2>4. \A op \in Builtins : op \in Ops /\ Builtin \in inUse'[op]
    BY <2>1, RepositoryAssumptions DEF InUseOnStart, LoadedInUse
  <2> QED
    BY <1>1, <2>1, <2>2, <2>3, <2>4
<1>7. CASE Crash
  BY <1>1, <1>7 DEF Crash
<1>8. UNCHANGED <<current, inUse, announced, up, crashes>>
      \/ (\E c \in Cmds : OnInit(c)) \/ OnModified \/ OnDeleted \/ Restart \/ Crash
  BY DEF Next, vars, diskVars, brokerVars, memVars, boundVars, Request, ClearRequest,
         Redeliver, WriteFile, DeleteFile, PersistDefinition, StartCommand, FinishCommand,
         OnFinished, OnCleared
<1> QED
  BY <1>2, <1>3, <1>4, <1>5, <1>6, <1>7, <1>8

\* The number of crashes is bounded: with no crash, the counter stays at zero.
Crashless == crashes = 0

LEMMA NoCrash ==
  ASSUME MaxCrashes = 0
  PROVE  Spec => []Crashless
<1>1. Init => Crashless
  BY DEF Init, Crashless
<1>2. Crashless /\ [Next]_vars => Crashless'
  <2> SUFFICES ASSUME Crashless, [Next]_vars PROVE crashes' = crashes
    BY DEF Crashless
  <2>1. ~Crash
    BY DEF Crash, Crashless
  <2>2. CASE Restart
    BY <2>2 DEF Restart, boundVars
  <2>3. CASE ~Restart
    BY <2>1, <2>3
    DEF Next, vars, boundVars, Request, ClearRequest, Redeliver, WriteFile, DeleteFile,
        OnModified, OnDeleted, OnInit, PersistDefinition, StartCommand, FinishCommand,
        OnFinished, OnCleared
  <2> QED
    BY <2>2, <2>3
<1> QED
  BY <1>1, <1>2, PTL DEF Spec

\* An agent that does not crash honours the capabilities it has announced, whatever
\* the user does with the files and however late the file events come.
THEOREM AnnouncedOperationsWork ==
  ASSUME MaxCrashes = 0
  PROVE  Spec => []CapabilityHonoured
<1>1. Init => Honoured
  BY DEF Init, Honoured, CapabilityHonoured
<1>2. TopicInv /\ Honoured /\ [Next]_vars => Honoured'
  BY HonouredNext
<1>3. Honoured /\ Crashless => CapabilityHonoured
  BY DEF Honoured, Crashless
<1>4. Spec => []Crashless
  BY NoCrash
<1> QED
  BY <1>1, <1>2, <1>3, <1>4, TopicInvariance, PTL DEF Spec

LEMMA LifecycleStep ==
  ASSUME TopicInv, crashes = 0, Legacy = {}, [Next]_vars, crashes' = 0
  PROVE  [Lifecycle!Next]_retained
<1> USE DEF TopicInv, IndInv
<1>0. retained \in [Cmds -> CmdState] /\ board \in [Cmds -> CmdState]
  BY DEF TypeOK
<1>1. ASSUME NEW c \in Cmds, Request(c) PROVE Lifecycle!Create(c)
  <2>1. retained[c] = NoCmd
    BY <1>1 DEF Request, Topics, NotYetRequested
  <2> QED
    BY <1>1, <2>1 DEF Request, NoCmd, Lifecycle!Create, Lifecycle!Becomes, Lifecycle!Nothing
<1>2. ASSUME NEW c \in Cmds, ClearRequest(c) PROVE Lifecycle!Clear(c)
  BY <1>2 DEF ClearRequest, NoCmd, Finished, Lifecycle!Clear, Lifecycle!Becomes,
              Lifecycle!Nothing, Lifecycle!Outcomes
<1>3. CASE StartCommand
  <2>1. PICK d \in Cmds : d = job.cmd
    BY <1>3 DEF StartCommand, TypeOK, NoJob
  <2>2. up /\ job # NoJob /\ job.version \in Versions \cup {Builtin}
    BY <1>3 DEF StartCommand, TypeOK, NoJob
  <2>3. board[d].status = "init"
    BY <2>1, <2>2 DEF JobOnBoard
  <2>4. retained[d].status = "init"
    BY <2>2, <2>3 DEF Topics, TopicFollowsBoard, Over, Finished, NoCmd, LegacyCmd
  <2>5. retained' = [retained EXCEPT ![d] = [status |-> "executing", version |-> job.version]]
    BY <1>3, <2>1 DEF StartCommand, Publish
  <2>6. Lifecycle!Take(d)
    BY <2>2, <2>4, <2>5 DEF Lifecycle!Take, Lifecycle!Becomes
  <2> QED
    BY <2>6 DEF Lifecycle!Next
<1>4. ASSUME NEW c \in Cmds, NEW outcome \in Finished, FinishCommand(c, outcome)
      PROVE  Lifecycle!Finish(c)
  <2>1. c \in live /\ up /\ CmdOp[c] \in Ops
    BY <1>4, RepositoryAssumptions DEF FinishCommand, Idle
  <2>2. board[c].status = "executing" /\ board[c].version # None
    BY <2>1, RepositoryAssumptions DEF LiveVersionLoaded, TypeOK
  <2>3. retained[c] = board[c]
    BY <2>1, <2>2 DEF Topics, TopicFollowsBoard, Over, Finished, NoCmd, LegacyCmd
  <2>4. retained' = [retained EXCEPT ![c] = [status |-> outcome, version |-> retained[c].version]]
    BY <1>4, <2>3 DEF FinishCommand, Publish
  <2> QED
    BY <2>2, <2>3, <2>4 DEF Lifecycle!Finish, Lifecycle!Becomes, Lifecycle!Outcomes, Finished
<1>5. CASE Restart
  <2>1. PICK src \in Sources :
          retained' = [c \in Cmds |->
                         IF savedBoard[c].status = "none" THEN retained[c]
                         ELSE IF Started(src, c) THEN board'[c] ELSE Resumed(src, c)]
    BY <1>5 DEF Restart
  <2>2. \A c \in Cmds : savedBoard[c].status = "none"
    BY <1>5 DEF Restart, FirstStart, NoCmd
  <2>3. retained' = retained
    BY <1>0, <2>1, <2>2
  <2> QED
    BY <2>3
<1>6. ~Crash
  BY DEF Crash, TypeOK
<1>7. retained' = retained \/ (\E c \in Cmds : Request(c) \/ ClearRequest(c))
      \/ StartCommand \/ (\E c \in Cmds, outcome \in Finished : FinishCommand(c, outcome))
      \/ Restart
  BY <1>6 DEF Next, vars, brokerVars, Redeliver, WriteFile, DeleteFile, OnModified,
              OnDeleted, OnInit, PersistDefinition, OnFinished, OnCleared
<1> QED
  BY <1>1, <1>2, <1>3, <1>4, <1>5, <1>7 DEF Lifecycle!Next

\* As long as the agent does not crash, and starts with no command of an agent unaware
\* of versions, a command topic follows its abstract specification: a request is taken
\* once, under one definition, gets one outcome, and is cleared by its requester only.
THEOREM TopicsFollowLifecycle ==
  ASSUME MaxCrashes = 0, Legacy = {}
  PROVE  Spec => ImplementsLifecycle
<1>1. Init => Lifecycle!Init
  BY DEF Init, Lifecycle!Init, Lifecycle!Nothing, NoCmd
<1>2. TopicInv /\ Crashless /\ Crashless' /\ [Next]_vars => [Lifecycle!Next]_retained
  BY LifecycleStep DEF Crashless
<1>3. Spec => []Crashless
  BY NoCrash
<1> QED
  BY <1>1, <1>2, <1>3, TopicInvariance, PTL DEF Spec, ImplementsLifecycle, Lifecycle!Spec

-----------------------------------------------------------------------------
(* The copies of the definitions in use *)

\* A crash, a redelivery and a race leave traces.
LEMMA CalmBefore ==
  ASSUME TypeOK, [Next]_vars, Calm'
  PROVE  /\ Calm /\ UNCHANGED <<crashes, redeliveries, raced>> /\ ~Crash
         /\ \A c \in Cmds : ~Redeliver(c)
         /\ \A f \in Files : ~DeleteFile(f)
<1>1. crashes \in Nat /\ redeliveries \in Nat /\ raced \in BOOLEAN
  BY DEF TypeOK
<1>2. ~Crash
  <2>1. crashes + 1 # 0
    BY <1>1
  <2> QED
    BY <2>1 DEF Crash, Calm
<1>3. \A c \in Cmds : ~Redeliver(c)
  <2>1. redeliveries + 1 # 0
    BY <1>1
  <2> QED
    BY <2>1 DEF Redeliver, Calm
<1>4. \A f \in Files : ~DeleteFile(f)
  BY DEF DeleteFile, Calm
<1>5. crashes' = crashes /\ redeliveries' = redeliveries /\ (raced => raced')
  <2>1. CASE Restart
    BY <2>1 DEF Restart, boundVars
  <2>2. CASE ~Restart
    BY <1>1, <1>2, <1>3, <1>4, <2>2
    DEF Next, vars, boundVars, Request, ClearRequest, WriteFile, OnModified, OnDeleted,
        OnInit, PersistDefinition, StartCommand, FinishCommand, OnFinished, OnCleared
  <2> QED
    BY <2>1, <2>2
<1>6. raced' = raced
  <2>1. raced' = FALSE /\ raced = FALSE
    <3>1. raced' = raced \/ \E f \in Files, content \in Content : WriteFile(f, content)
      <4>1. CASE Restart
        BY <4>1 DEF Restart, boundVars
      <4>2. CASE ~Restart
        BY <1>2, <1>3, <1>4, <4>2
        DEF Next, vars, boundVars, Request, ClearRequest, OnModified, OnDeleted,
            OnInit, PersistDefinition, StartCommand, FinishCommand, OnFinished, OnCleared
      <4> QED
        BY <4>1, <4>2
    <3>2. raced' \in BOOLEAN
      BY <1>1, <3>1 DEF WriteFile
    <3> QED
      BY <1>1, <1>5, <3>2 DEF Calm
  <2> QED
    BY <2>1
<1> QED
  BY <1>2, <1>3, <1>4, <1>5, <1>6 DEF Calm

LEMMA OutcomeAppended ==
  ASSUME NEW c \in Cmds, NEW m \in Message, inbox[c] \in Seq(Message),
         inbox'[c] = Append(inbox[c], m)
  PROVE  OutcomeQueued(c)' <=> OutcomeQueued(c) \/ m.status \in Finished
<1> DEFINE q == inbox[c]
<1>1. /\ Len(q) \in Nat /\ Len(inbox'[c]) = Len(q) + 1 /\ inbox'[c][Len(q) + 1] = m
      /\ \A i \in 1..Len(q) : inbox'[c][i] = q[i]
  BY AppendAt
<1>2. \A i \in 1..Len(inbox'[c]) : i = Len(q) + 1 \/ i \in 1..Len(q)
  BY <1>1
<1>3. Len(q) + 1 \in 1..Len(inbox'[c]) /\ \A i \in 1..Len(q) : i \in 1..Len(inbox'[c])
  BY <1>1
<1> QED
  BY <1>1, <1>2, <1>3 DEF OutcomeQueued

LEMMA OutcomeTaken ==
  ASSUME NEW c \in Cmds, inbox[c] \in Seq(Message), inbox[c] # <<>>,
         inbox'[c] = Tail(inbox[c])
  PROVE  OutcomeQueued(c) <=> OutcomeQueued(c)' \/ Head(inbox[c]).status \in Finished
<1> DEFINE q == inbox[c]
<1>1. /\ Len(q) \in Nat /\ Len(q) >= 1 /\ Head(q) = q[1]
      /\ Len(inbox'[c]) = Len(q) - 1
      /\ \A i \in 1..Len(inbox'[c]) : inbox'[c][i] = q[i + 1]
  BY TailAt
<1>2. \A i \in 1..Len(q) : i = 1 \/ (i - 1 \in 1..Len(inbox'[c]) /\ (i - 1) + 1 = i)
  BY <1>1
<1>3. 1 \in 1..Len(q) /\ \A i \in 1..Len(inbox'[c]) : i + 1 \in 1..Len(q)
  BY <1>1
<1>4. ASSUME OutcomeQueued(c) PROVE OutcomeQueued(c)' \/ Head(q).status \in Finished
  <2>1. PICK i \in 1..Len(q) : q[i].status \in Finished
    BY <1>4 DEF OutcomeQueued
  <2>2. CASE i = 1
    BY <1>1, <2>1, <2>2
  <2>3. CASE i # 1
    <3>1. i - 1 \in 1..Len(inbox'[c]) /\ inbox'[c][i - 1] = q[i]
      BY <1>1, <1>2, <2>3
    <3> QED
      BY <2>1, <3>1 DEF OutcomeQueued
  <2> QED
    BY <2>2, <2>3
<1> QED
  BY <1>1, <1>3, <1>4 DEF OutcomeQueued

\* A command whose work is over is not running.
LEMMA OverNotRunning ==
  ASSUME IndInv, NEW c \in Cmds, Running(c)
  PROVE  ~Over(c)
<1>1. CASE c \in live
  <2>1. board[c].status = "executing" /\ board[c].version # None
    BY <1>1, RepositoryAssumptions DEF IndInv, LiveVersionLoaded, TypeOK
  <2> QED
    BY <2>1 DEF Over, LegacyCmd, Finished
<1>2. CASE job.step = "start" /\ job.cmd = c
  <2>1. board[c].status = "init"
    BY <1>2 DEF IndInv, JobOnBoard, NoJob
  <2> QED
    BY <2>1 DEF Over, LegacyCmd, Finished
<1> QED
  BY <1>1, <1>2 DEF Running

InUseBy(c) == Running(c) \/ OutcomeQueued(c)

LEMMA SameUsers ==
  ASSUME CopiesCountUsers, UNCHANGED <<copies, copyDir>>,
         \A c \in Cmds : \/ Version(c)' = Version(c) /\ (InUseBy(c)' <=> InUseBy(c))
                         \/ ~InUseBy(c) /\ ~InUseBy(c)'
  PROVE  CopiesCountUsers'
<1>1. ASSUME NEW v \in Versions PROVE Users(v)' = Users(v)
  BY DEF Users, InUseBy
<1> QED
  BY <1>1 DEF CopiesCountUsers

LEMMA UsersFinite ==
  ASSUME NEW v
  PROVE  /\ IsFiniteSet(Users(v)) /\ Cardinality(Users(v)) \in Nat
         /\ Cardinality(Users(v)) = 0 <=> Users(v) = {}
<1>1. IsFiniteSet(Users(v))
  BY FS_Subset, RepositoryAssumptions DEF Users
<1> QED
  BY <1>1, FS_CardinalityType, FS_EmptySet

LEMMA RequesterCopies ==
  ASSUME FullInv, Calm, NEW c \in Cmds, Request(c) \/ ClearRequest(c)
  PROVE  (DefinitionsOnDisk /\ FileUnchanged /\ CopiesCountUsers)'
<1> USE DEF FullInv, TopicInv, IndInv
<1>0. DefinitionsOnDisk /\ FileUnchanged /\ CopiesCountUsers
  BY DEF CopiesInv
<1>1. UNCHANGED <<definitions, copies, copyDir, board, live, job>>
  BY DEF Request, ClearRequest, memVars, diskVars
<1>2. PICK m \in Message : /\ m.status \notin Finished
                           /\ inbox' = [inbox EXCEPT ![c] = Append(@, m)]
  BY DEF Request, ClearRequest, Message, Finished, AnyVersion
<1>3. inbox \in [Cmds -> Seq(Message)] /\ userDir' = userDir
  BY DEF TypeOK, Request, ClearRequest
<1>4. inbox'[c] = Append(inbox[c], m) /\ \A d \in Cmds \ {c} : inbox'[d] = inbox[d]
  BY <1>2, <1>3
<1>5. \A d \in Cmds : OutcomeQueued(d)' <=> OutcomeQueued(d)
  <2>1. OutcomeQueued(c)' <=> OutcomeQueued(c)
    BY <1>2, <1>3, <1>4, OutcomeAppended
  <2>2. \A d \in Cmds \ {c} : OutcomeQueued(d)' <=> OutcomeQueued(d)
    BY <1>4 DEF OutcomeQueued
  <2> QED
    BY <2>1, <2>2
<1>6. CopiesCountUsers'
  BY <1>0, <1>1, <1>5, SameUsers DEF InUseBy, Running, Version
<1> QED
  BY <1>0, <1>1, <1>3, <1>6 DEF DefinitionsOnDisk, FileUnchanged

\* An orderly edit leaves a version of the same operation in the file.
LEMMA EditCopies ==
  ASSUME FullInv, Calm, NEW f \in Files, NEW content \in Content,
         WriteFile(f, content), ~raced'
  PROVE  (DefinitionsOnDisk /\ FileUnchanged /\ CopiesCountUsers)'
<1> USE DEF FullInv, TopicInv, IndInv
<1>0. DefinitionsOnDisk /\ FileUnchanged /\ CopiesCountUsers
  BY DEF CopiesInv
<1>1. UNCHANGED <<definitions, copies, copyDir, board, live, job>>
  BY DEF WriteFile, memVars, diskVars
<1>2. /\ userDir' = [userDir EXCEPT ![f] = content] /\ inbox' = inbox
      /\ Orderly(userDir[f], content)
  BY DEF WriteFile, brokerVars
<1>3. CopiesCountUsers'
  BY <1>0, <1>1, <1>2, SameUsers DEF InUseBy, Running, Version, OutcomeQueued
<1>4. FileUnchanged'
  BY <1>1, <1>2 DEF Orderly, FileUnchanged, NoJob
<1>5. DefinitionsOnDisk'
  <2> SUFFICES ASSUME NEW op \in Ops, definitions[op].version # None
               PROVE  /\ userDir'[definitions[op].file] \in Versions
                      /\ OpOf[userDir'[definitions[op].file]] = op
    BY <1>1 DEF DefinitionsOnDisk
  <2>1. definitions[op].file \in Files /\ userDir \in [Files -> Content]
    BY DEF TypeOK, NoDef
  <2>2. /\ userDir[definitions[op].file] \in Versions
        /\ OpOf[userDir[definitions[op].file]] = op
    BY <1>0 DEF DefinitionsOnDisk
  <2>3. CASE definitions[op].file = f
    <3>1. userDir[f] # Absent
      BY <2>2, <2>3, RepositoryAssumptions
    <3>2. content \in Versions /\ OpOf[content] = op
      BY <1>2, <2>2, <2>3, <3>1 DEF Orderly
    <3> QED
      BY <1>2, <2>1, <2>3, <3>2
  <2>4. CASE definitions[op].file # f
    BY <1>2, <2>1, <2>2, <2>4
  <2> QED
    BY <2>3, <2>4
<1> QED
  BY <1>3, <1>4, <1>5

LEMMA FileEventCopies ==
  ASSUME FullInv, Calm, OnModified \/ OnDeleted
  PROVE  (DefinitionsOnDisk /\ FileUnchanged /\ CopiesCountUsers)'
<1> USE DEF FullInv, TopicInv, IndInv
<1>0. DefinitionsOnDisk /\ FileUnchanged /\ CopiesCountUsers
  BY DEF CopiesInv
<1>1. /\ UNCHANGED <<userDir, copies, copyDir, board, live, job, inbox>> /\ job = NoJob
      /\ fsEvents # <<>>
  BY DEF OnModified, OnDeleted, diskVars, Idle
<1>2. CopiesCountUsers'
  BY <1>0, <1>1, SameUsers DEF InUseBy, Running, Version, OutcomeQueued
<1>3. FileUnchanged'
  BY <1>1 DEF FileUnchanged, NoJob
<1>4. DefinitionsOnDisk'
  <2>1. CASE OnModified
    <3> DEFINE f == Head(fsEvents).file
    <3>1. f \in Files
      <4>1. Head(fsEvents) \in FsEvent
        BY <1>1, HeadAndTail DEF TypeOK
      <4> QED
        BY <4>1 DEF FsEvent
    <3>2. \/ definitions' = definitions
          \/ /\ userDir[f] \in Versions
             /\ definitions' = [definitions EXCEPT ![OpOf[userDir[f]]]
                                  = [version |-> userDir[f], file |-> f]]
      BY <2>1 DEF OnModified, WithDefinition
    <3> HIDE DEF f
    <3>3. /\ definitions \in [Ops -> [version : Versions, file : Files] \cup {NoDef}]
          /\ OpOf \in [Versions -> Ops]
      BY RepositoryAssumptions DEF TypeOK
    <3>4. CASE definitions' = definitions
      BY <1>0, <1>1, <3>4 DEF DefinitionsOnDisk
    <3>5. CASE definitions' # definitions
      <4>1. /\ definitions'[OpOf[userDir[f]]].file = f
            /\ \A op \in Ops \ {OpOf[userDir[f]]} : definitions'[op] = definitions[op]
        BY <3>2, <3>3, <3>5
      <4> QED
        BY <1>0, <1>1, <3>2, <3>5, <4>1 DEF DefinitionsOnDisk
    <3> QED
      BY <3>4, <3>5
  <2>2. CASE OnDeleted
    <3>1. \/ definitions' = definitions
          \/ \E op \in Ops : definitions' = [definitions EXCEPT ![op] = NoDef]
      BY <2>2 DEF OnDeleted
    <3>2. definitions \in [Ops -> [version : Versions, file : Files] \cup {NoDef}]
      BY DEF TypeOK
    <3>3. \A op \in Ops : definitions'[op] = definitions[op] \/ definitions'[op].version = None
      BY <3>1, <3>2 DEF NoDef
    <3> QED
      BY <1>0, <1>1, <3>3 DEF DefinitionsOnDisk
  <2> QED
    BY <2>1, <2>2
<1> QED
  BY <1>2, <1>3, <1>4

\* The request takes a version, from a file that still holds it.
LEMMA InitCopies ==
  ASSUME FullInv, Calm, up, NEW d \in Cmds, OnInit(d)
  PROVE  (DefinitionsOnDisk /\ FileUnchanged /\ CopiesCountUsers)'
<1> USE DEF FullInv, TopicInv, IndInv
<1> DEFINE op == CmdOp[d]
           path == LatestPath(op)
           v == UseCurrentVersion(LatestCurrent(op), inUse, op)
           new == [status |-> "init", version |-> v]
           accepted == v # None /\ Accepts(d, new)
<1>0. DefinitionsOnDisk /\ FileUnchanged /\ CopiesCountUsers /\ crashes = 0
  BY DEF CopiesInv, Calm
<1>1. /\ op \in Ops /\ path \in Files /\ job = NoJob /\ Receive(d, {"init"})
      /\ userDir \in [Files -> Content] /\ inbox \in [Cmds -> Seq(Message)]
      /\ definitions \in [Ops -> [version : Versions, file : Files] \cup {NoDef}]
      /\ board \in [Cmds -> CmdState]
  <2>1. op \in Ops /\ Receive(d, {"init"}) /\ job = NoJob
    BY RepositoryAssumptions DEF OnInit, Receive, Idle
  <2>2. path \in Files
    BY <2>1, RepositoryAssumptions DEF TypeOK, LatestPath, NoDef
  <2> QED
    BY <2>1, <2>2 DEF TypeOK
<1>2. /\ definitions' = LatestDefinitions(op) /\ current' = LatestCurrent(op)
      /\ board' = (IF accepted THEN [board EXCEPT ![d] = new] ELSE board)
      /\ job' = (IF accepted THEN [step |-> "persist", cmd |-> d, version |-> v] ELSE NoJob)
      /\ UNCHANGED <<userDir, copyDir, copies, live>>
  BY DEF OnInit, diskVars
<1>3. DefinitionsOnDisk'
  <2> SUFFICES ASSUME NEW o \in Ops, definitions'[o].version # None
               PROVE  /\ userDir[definitions'[o].file] \in Versions
                      /\ OpOf[userDir[definitions'[o].file]] = o
    BY <1>2 DEF DefinitionsOnDisk
  <2>1. CASE HasLatest(op) /\ o = OpOf[userDir[path]]
    <3>1. userDir[path] \in Versions /\ definitions'[o].file = path
      BY <1>1, <1>2, <2>1 DEF HasLatest, LatestDefinitions, WithDefinition
    <3> QED
      BY <2>1, <3>1
  <2>2. CASE ~(HasLatest(op) /\ o = OpOf[userDir[path]])
    <3>1. definitions'[o] = definitions[o]
      BY <1>1, <1>2, <2>2 DEF LatestDefinitions, WithDefinition
    <3> QED
      BY <1>0, <3>1 DEF DefinitionsOnDisk
  <2> QED
    BY <2>1, <2>2
<1>4. FileUnchanged'
  <2> SUFFICES ASSUME accepted, v \in Versions
               PROVE  definitions'[op].version = v /\ userDir[definitions'[op].file] = v
    BY <1>2 DEF FileUnchanged, NoJob
  <2>1. v = current'[op] /\ current'[op] # None
    BY <1>2, RepositoryAssumptions DEF UseCurrentVersion
  <2>2. definitions'[op].version = v
    BY <1>1, <1>2, <2>1, LoadedLatest
  <2>3. CASE definitions'[op] = definitions[op]
    <3>1. path = definitions[op].file /\ userDir[path] \in Versions
          /\ OpOf[userDir[path]] = op
      BY <1>0, <1>1, <2>1, <2>2, <2>3 DEF LatestPath, DefinitionsOnDisk
    <3>2. ~HasLatest(op) \/ userDir[path] = definitions[op].version
      BY <1>1, <1>2, <2>3, <3>1 DEF LatestDefinitions, WithDefinition
    <3> QED
      BY <2>2, <2>3, <3>1, <3>2 DEF HasLatest
  <2>4. CASE definitions'[op] # definitions[op]
    <3>1. HasLatest(op) /\ definitions'[op] = [version |-> userDir[path], file |-> path]
      BY <1>1, <1>2, <2>4 DEF LatestDefinitions, WithDefinition
    <3> QED
      BY <2>2, <3>1
  <2> QED
    BY <2>2, <2>3, <2>4
<1>5. CopiesCountUsers'
  <2>1. /\ inbox[d] \in Seq(Message) /\ inbox[d] # <<>> /\ inbox'[d] = Tail(inbox[d])
        /\ Head(inbox[d]).status \notin Finished
        /\ \A c \in Cmds \ {d} : inbox'[c] = inbox[c]
    BY <1>1 DEF Receive, Finished
  <2>2. OutcomeQueued(d)' <=> OutcomeQueued(d)
    BY <2>1, OutcomeTaken
  <2>3. \A c \in Cmds \ {d} : OutcomeQueued(c)' <=> OutcomeQueued(c)
    BY <2>1 DEF OutcomeQueued
  <2>4. \A c \in Cmds : Running(c)' <=> Running(c)
    BY <1>1, <1>2 DEF Running, NoJob
  <2>5. \A c \in Cmds \ {d} : Version(c)' = Version(c)
    BY <1>1, <1>2 DEF Version
  <2>6. board'[d] = board[d] \/ (~InUseBy(d) /\ ~InUseBy(d)')
    <3> SUFFICES ASSUME board'[d] # board[d] PROVE ~InUseBy(d) /\ ~InUseBy(d)'
      OBVIOUS
    <3>1. board[d] = NoCmd
      BY <1>1, <1>2 DEF Accepts
    <3>2. ~Over(d) /\ QueueInOrder(d)
      BY <1>0, <3>1 DEF Over, NoCmd, LegacyCmd, Finished, Topics
    <3>3. ~OutcomeQueued(d)
      BY <3>2, NoOutcomeYet DEF OutcomeQueued
    <3>4. ~Running(d)
      BY <1>1, <3>1 DEF Running, LiveVersionLoaded, NoCmd, NoJob
    <3> QED
      BY <2>2, <2>4, <3>3, <3>4 DEF InUseBy
  <2>7. \A c \in Cmds : \/ Version(c)' = Version(c) /\ (InUseBy(c)' <=> InUseBy(c))
                        \/ ~InUseBy(c) /\ ~InUseBy(c)'
    BY <2>2, <2>3, <2>4, <2>5, <2>6 DEF InUseBy, Version
  <2> QED
    BY <1>0, <1>2, <2>7, SameUsers
<1> QED
  BY <1>3, <1>4, <1>5

\* One more user of a version: its definition is copied with the first one.
LEMMA PersistCopies ==
  ASSUME FullInv, Calm, PersistDefinition
  PROVE  (DefinitionsOnDisk /\ FileUnchanged /\ CopiesCountUsers)'
<1> USE DEF FullInv, TopicInv, IndInv
<1>0. DefinitionsOnDisk /\ FileUnchanged /\ CopiesCountUsers /\ crashes = 0
  BY DEF CopiesInv, Calm
<1>1. PICK d \in Cmds, u \in Versions \cup {Builtin} :
        job = [step |-> "persist", cmd |-> d, version |-> u]
  BY DEF PersistDefinition, TypeOK, NoJob
<1> DEFINE def == definitions[CmdOp[d]]
           copied == /\ u # Builtin /\ copies[u] = 0
                     /\ def.version # None /\ userDir[def.file] # Absent
<1>2. /\ up
      /\ copyDir' = IF copied THEN [copyDir EXCEPT ![u] = userDir[def.file]] ELSE copyDir
      /\ copies' = IF u = Builtin THEN copies
                   ELSE [copies EXCEPT ![u] = CountedUse(u, copied)]
      /\ job' = [step |-> "start", cmd |-> d, version |-> u]
      /\ UNCHANGED <<userDir, definitions, board, live, inbox>>
  BY <1>1 DEF PersistDefinition, brokerVars
<1>3. DefinitionsOnDisk' /\ FileUnchanged'
  BY <1>0, <1>2 DEF DefinitionsOnDisk, FileUnchanged
<1>4. board[d] = [status |-> "init", version |-> u]
  BY <1>1 DEF JobOnBoard, NoJob
<1>5. ~InUseBy(d) /\ InUseBy(d)'
  <2>1. ~Over(d) /\ QueueInOrder(d)
    BY <1>0, <1>2, <1>4 DEF Over, LegacyCmd, Finished, Topics
  <2>2. ~OutcomeQueued(d)
    BY <2>1, NoOutcomeYet DEF OutcomeQueued
  <2>3. d \notin live
    BY <1>4 DEF LiveVersionLoaded
  <2>4. ~Running(d) /\ Running(d)'
    BY <1>1, <1>2, <2>3 DEF Running
  <2> QED
    BY <2>2, <2>4 DEF InUseBy
<1>6. /\ \A c \in Cmds : Version(c)' = Version(c)
      /\ \A c \in Cmds \ {d} : InUseBy(c)' <=> InUseBy(c)
      /\ Version(d) = u
  BY <1>1, <1>2, <1>4 DEF Version, InUseBy, Running, OutcomeQueued
<1>7. \A w \in Versions \ {u} : Users(w)' = Users(w)
  <2> SUFFICES ASSUME NEW w \in Versions \ {u}, NEW c \in Cmds
               PROVE  Version(c)' = w /\ InUseBy(c)' <=> Version(c) = w /\ InUseBy(c)
    BY DEF Users, InUseBy
  <2> QED
    BY <1>6
<1> SUFFICES ASSUME NEW w \in Versions
             PROVE  /\ copies'[w] = Cardinality(Users(w)')
                    /\ copyDir'[w] = IF Users(w)' = {} THEN Absent ELSE w
  BY <1>3 DEF CopiesCountUsers
<1>8. CASE u = Builtin
  <2>1. copies' = copies /\ copyDir' = copyDir /\ w # u
    BY <1>2, <1>8, RepositoryAssumptions
  <2> QED
    BY <1>0, <1>7, <2>1 DEF CopiesCountUsers
<1>9. CASE u \in Versions
  <2>1. Users(u)' = Users(u) \cup {d} /\ d \notin Users(u)
    BY <1>5, <1>6 DEF Users, InUseBy
  <2>2. /\ Cardinality(Users(u)) \in Nat
        /\ Cardinality(Users(u)) = 0 <=> Users(u) = {}
        /\ Cardinality(Users(u) \cup {d}) = Cardinality(Users(u)) + 1
    BY <2>1, UsersFinite, FS_AddElement
  <2>3. copies[u] = Cardinality(Users(u)) /\ u # Builtin
        /\ copyDir[u] = IF Users(u) = {} THEN Absent ELSE u
    BY <1>0, <1>9, RepositoryAssumptions DEF CopiesCountUsers
  <2>4. def.version = u /\ userDir[def.file] = u
    BY <1>0, <1>1, <1>9 DEF FileUnchanged
  <2>5. copied <=> Users(u) = {}
    BY <1>9, <2>2, <2>3, <2>4, RepositoryAssumptions
  <2>6. copies \in [Versions -> Nat] /\ copyDir \in [Versions -> Content]
    BY DEF TypeOK
  <2> HIDE DEF copied
  <2>7. CountedUse(u, copied) = copies[u] + 1
    BY <2>2, <2>3, <2>5 DEF CountedUse
  <2>8. copies'[u] = Cardinality(Users(u)') /\ copyDir'[u] = u
    BY <1>2, <1>9, <2>1, <2>2, <2>3, <2>4, <2>5, <2>6, <2>7 DEF def
  <2>9. w # u => copies'[w] = copies[w] /\ copyDir'[w] = copyDir[w]
    BY <1>2, <1>9, <2>3, <2>6
  <2>10. CASE w = u
    BY <2>1, <2>8, <2>10
  <2>11. CASE w # u
    BY <1>0, <1>7, <2>9, <2>11 DEF CopiesCountUsers
  <2> QED
    BY <2>10, <2>11
<1> QED
  BY <1>8, <1>9

\* A command that starts, or ends, stays a user of its version.
LEMMA ProgressCopies ==
  ASSUME FullInv, Calm, StartCommand \/ \E c \in Cmds, outcome \in Finished : FinishCommand(c, outcome)
  PROVE  (DefinitionsOnDisk /\ FileUnchanged /\ CopiesCountUsers)'
<1> USE DEF FullInv, TopicInv, IndInv
<1>0. DefinitionsOnDisk /\ FileUnchanged /\ CopiesCountUsers
  BY DEF CopiesInv
<1>1. UNCHANGED <<userDir, copyDir, definitions, copies>> /\ job' = NoJob
  BY DEF StartCommand, FinishCommand, Idle
<1>2. DefinitionsOnDisk' /\ FileUnchanged'
  BY <1>0, <1>1 DEF DefinitionsOnDisk, FileUnchanged, NoJob
<1>3. PICK d \in Cmds, m \in CmdState :
        /\ Publish(d, m) /\ m.version = board[d].version
        /\ \/ StartCommand /\ d = job.cmd /\ m.status = "executing"
           \/ FinishCommand(d, m.status) /\ m.status \in Finished
  <2>1. CASE StartCommand
    <3>1. job # NoJob /\ job.cmd \in Cmds /\ job.version \in Versions \cup {Builtin}
      BY <2>1 DEF StartCommand, TypeOK, NoJob
    <3>2. [status |-> "executing", version |-> job.version] \in CmdState
      BY <3>1 DEF CmdState, AnyVersion
    <3>3. board[job.cmd].version = job.version
      BY <3>1 DEF JobOnBoard
    <3> QED
      BY <2>1, <3>1, <3>2, <3>3 DEF StartCommand
  <2>2. ASSUME NEW c \in Cmds, NEW outcome \in Finished, FinishCommand(c, outcome)
        PROVE  \E m \in CmdState : /\ Publish(c, m) /\ m.version = board[c].version
                                   /\ FinishCommand(c, m.status) /\ m.status \in Finished
    <3>1. [status |-> outcome, version |-> board[c].version] \in CmdState
      BY DEF TypeOK, CmdState, Finished
    <3> QED
      BY <2>2, <3>1 DEF FinishCommand
  <2> QED
    BY <2>1, <2>2
<1>4. /\ board' = [board EXCEPT ![d] = m]
      /\ inbox' = [inbox EXCEPT ![d] = @ \o Echo(m)]
      /\ board \in [Cmds -> CmdState] /\ inbox \in [Cmds -> Seq(Message)]
  BY <1>3 DEF Publish, TypeOK
<1>5. /\ \A c \in Cmds : Version(c)' = Version(c)
      /\ \A c \in Cmds \ {d} : inbox'[c] = inbox[c]
      /\ inbox'[d] = inbox[d] \o Echo(m)
  BY <1>3, <1>4 DEF Version
<1>6. \A c \in Cmds \ {d} : OutcomeQueued(c)' <=> OutcomeQueued(c)
  BY <1>5 DEF OutcomeQueued
<1>7. CASE StartCommand /\ d = job.cmd /\ m.status = "executing"
  <2>1. inbox'[d] = inbox[d]
    BY <1>4, <1>5, <1>7, EchoAdded
  <2>2. OutcomeQueued(d)' <=> OutcomeQueued(d)
    BY <2>1 DEF OutcomeQueued
  <2>3. job.step = "start" /\ live' = live \cup {d}
    BY <1>7 DEF StartCommand
  <2>4. \A c \in Cmds : Running(c)' <=> Running(c)
    BY <1>1, <1>7, <2>3 DEF Running, NoJob
  <2>5. \A c \in Cmds : InUseBy(c)' <=> InUseBy(c)
    BY <1>6, <2>2, <2>4 DEF InUseBy
  <2> QED
    BY <1>0, <1>1, <1>2, <1>5, <2>5, SameUsers
<1>8. CASE FinishCommand(d, m.status) /\ m.status \in Finished
  <2>1. m \in Message /\ inbox'[d] = Append(inbox[d], m)
    BY <1>4, <1>5, <1>8, EchoAdded DEF Finished
  <2>2. OutcomeQueued(d)'
    BY <1>4, <1>8, <2>1, OutcomeAppended
  <2>3. d \in live /\ job = NoJob /\ live' = live \ {d}
    BY <1>8 DEF FinishCommand, Idle
  <2>4. \A c \in Cmds \ {d} : Running(c)' <=> Running(c)
    BY <1>1, <2>3 DEF Running, NoJob
  <2>5. Running(d)
    BY <2>3 DEF Running
  <2>6. \A c \in Cmds : InUseBy(c)' <=> InUseBy(c)
    BY <1>6, <2>2, <2>4, <2>5 DEF InUseBy
  <2> QED
    BY <1>0, <1>1, <1>2, <1>5, <2>6, SameUsers
<1> QED
  BY <1>3, <1>7, <1>8

\* The outcome of a command is processed: one user less, the last one removes the copy.
LEMMA OutcomeCopies ==
  ASSUME FullInv, Calm, up, NEW d \in Cmds, OnFinished(d)
  PROVE  (DefinitionsOnDisk /\ FileUnchanged /\ CopiesCountUsers)'
<1> USE DEF FullInv, TopicInv, IndInv
<1> DEFINE q == inbox[d]
<1>0. DefinitionsOnDisk /\ FileUnchanged /\ CopiesCountUsers /\ QueueInOrder(d)
      /\ redeliveries = 0
  BY DEF CopiesInv, Calm, Topics
<1>1. /\ UNCHANGED <<userDir, definitions, job, board, live>>
      /\ q \in Seq(Message) /\ q # <<>> /\ inbox'[d] = Tail(q)
      /\ \A c \in Cmds \ {d} : inbox'[c] = inbox[c]
      /\ Head(q).status \in Finished
  BY DEF OnFinished, Receive, TypeOK
<1>2. DefinitionsOnDisk' /\ FileUnchanged'
  BY <1>0, <1>1 DEF DefinitionsOnDisk, FileUnchanged
<1>3. /\ Len(q) \in Nat /\ Len(q) >= 1 /\ Head(q) = q[1]
      /\ Len(Tail(q)) = Len(q) - 1
      /\ \A i \in 1..Len(Tail(q)) : Tail(q)[i] = q[i + 1]
  BY <1>1, TailAt
<1>4. PICK u : u = Head(q).version /\ u \in AnyVersion
  <2>1. Head(q) \in Message
    BY <1>1, HeadAndTail
  <2> QED
    BY <2>1 DEF Message
<1>5. /\ Over(d) /\ Version(d) = u
      /\ \A j \in (1+1)..Len(q) : q[j].status = "cleared"
  <2>1. 1 \in 1..Len(q) /\ q[1].status \in Finished /\ ~(redeliveries > 0)
    BY <1>0, <1>1, <1>3
  <2> QED
    BY <1>0, <1>3, <1>4, <2>1 DEF QueueInOrder, Version
<1>6. InUseBy(d) /\ ~InUseBy(d)'
  <2>1. OutcomeQueued(d)
    BY <1>1, OutcomeTaken
  <2>2. \A i \in 1..Len(Tail(q)) : i + 1 \in (1+1)..Len(q)
    BY <1>3
  <2>3. \A i \in 1..Len(inbox'[d]) : inbox'[d][i].status = "cleared"
    BY <1>1, <1>3, <1>5, <2>2
  <2>4. ~OutcomeQueued(d)'
    BY <2>3 DEF OutcomeQueued, Finished
  <2>5. ~Running(d)
    BY <1>5, OverNotRunning
  <2> QED
    BY <1>1, <2>1, <2>4, <2>5 DEF InUseBy, Running
<1>7. /\ \A c \in Cmds : Version(c)' = Version(c)
      /\ \A c \in Cmds \ {d} : InUseBy(c)' <=> InUseBy(c)
  BY <1>1 DEF Version, InUseBy, Running, OutcomeQueued
<1>8. \A w \in Versions \ {u} : Users(w)' = Users(w)
  <2> SUFFICES ASSUME NEW w \in Versions \ {u}, NEW c \in Cmds
               PROVE  Version(c)' = w /\ InUseBy(c)' <=> Version(c) = w /\ InUseBy(c)
    BY DEF Users, InUseBy
  <2> QED
    BY <1>5, <1>7
<1> HIDE DEF q
<1> SUFFICES ASSUME NEW w \in Versions
             PROVE  /\ copies'[w] = Cardinality(Users(w)')
                    /\ copyDir'[w] = IF Users(w)' = {} THEN Absent ELSE w
  BY <1>2 DEF CopiesCountUsers
<1>9. CASE u \in {Builtin, None}
  <2>1. copies' = copies /\ copyDir' = copyDir /\ w # u
    BY <1>4, <1>9, RepositoryAssumptions DEF OnFinished, q
  <2> QED
    BY <1>0, <1>8, <2>1 DEF CopiesCountUsers
<1>10. CASE u \in Versions
  <2>1. /\ copies' = [copies EXCEPT ![u] = ReleasedCount(u)]
        /\ copyDir' = IF LastUse(u) THEN [copyDir EXCEPT ![u] = Absent] ELSE copyDir
        /\ copies \in [Versions -> Nat] /\ copyDir \in [Versions -> Content]
    BY <1>4, <1>10, RepositoryAssumptions DEF OnFinished, TypeOK, q
  <2>2. CASE w # u
    <3>1. copies'[w] = copies[w] /\ copyDir'[w] = copyDir[w]
      BY <1>10, <2>1, <2>2
    <3> QED
      BY <1>0, <1>8, <2>2, <3>1 DEF CopiesCountUsers
  <2>3. CASE w = u
    <3>1. Users(u)' = Users(u) \ {d} /\ d \in Users(u)
      BY <1>5, <1>6, <1>7 DEF Users, InUseBy
    <3>2. /\ Cardinality(Users(u)) \in Nat
          /\ Cardinality(Users(u)) = 0 <=> Users(u) = {}
          /\ Cardinality(Users(u) \ {d}) = Cardinality(Users(u)) - 1
          /\ IsFiniteSet(Users(u) \ {d})
      BY <3>1, UsersFinite, FS_RemoveElement
    <3>3. Cardinality(Users(u) \ {d}) = 0 <=> Users(u) \ {d} = {}
      BY <3>2, FS_EmptySet
    <3>4. copies[u] = Cardinality(Users(u)) /\ copyDir[u] = u
      BY <1>0, <1>10, <3>1 DEF CopiesCountUsers
    <3>5. LastUse(u) <=> Users(u) \ {d} = {}
      BY <3>1, <3>2, <3>3, <3>4 DEF LastUse
    <3>6. ReleasedCount(u) = Cardinality(Users(u) \ {d})
      BY <3>2, <3>3, <3>4, <3>5 DEF ReleasedCount
    <3> QED
      BY <1>10, <2>1, <2>3, <3>1, <3>4, <3>5, <3>6
  <2> QED
    BY <2>2, <2>3
<1> QED
  BY <1>4, <1>9, <1>10 DEF AnyVersion

\* A cleared command has no outcome to be processed any more.
LEMMA ClearedCopies ==
  ASSUME FullInv, Calm, up, NEW d \in Cmds, OnCleared(d)
  PROVE  (DefinitionsOnDisk /\ FileUnchanged /\ CopiesCountUsers)'
<1> USE DEF FullInv, TopicInv, IndInv
<1> DEFINE q == inbox[d]
<1>0. DefinitionsOnDisk /\ FileUnchanged /\ CopiesCountUsers /\ QueueInOrder(d)
  BY DEF CopiesInv, Calm, Topics
<1>1. /\ UNCHANGED <<userDir, definitions, job, copies, copyDir>>
      /\ q \in Seq(Message) /\ q # <<>> /\ inbox'[d] = Tail(q)
      /\ \A c \in Cmds \ {d} : inbox'[c] = inbox[c]
      /\ Head(q).status = "cleared"
  BY DEF OnCleared, Receive, TypeOK
<1>2. DefinitionsOnDisk' /\ FileUnchanged'
  BY <1>0, <1>1 DEF DefinitionsOnDisk, FileUnchanged
<1>3. /\ Len(q) \in Nat /\ Len(q) >= 1 /\ Head(q) = q[1]
      /\ Len(Tail(q)) = Len(q) - 1
  BY <1>1, TailAt
<1>4. Over(d) /\ Len(q) = 1
  <2>1. 1 \in 1..Len(q) /\ q[1].status = "cleared"
    BY <1>1, <1>3
  <2> QED
    BY <1>0, <2>1 DEF QueueInOrder
<1>5. \A c \in Cmds \ {d} : /\ board'[c] = board[c]
                            /\ c \in live' <=> c \in live
  BY DEF OnCleared, TypeOK
<1>6. live' \subseteq live
  BY DEF OnCleared
<1>7. ~Running(d) /\ ~Running(d)'
  <2>1. ~Running(d)
    BY <1>4, OverNotRunning
  <2> QED
    BY <1>1, <1>6, <2>1 DEF Running
<1>8. ~OutcomeQueued(d) /\ ~OutcomeQueued(d)'
  <2>1. Len(inbox'[d]) = 0
    BY <1>1, <1>3, <1>4
  <2>2. ~OutcomeQueued(d)'
    BY <2>1 DEF OutcomeQueued
  <2> QED
    BY <1>1, <2>2, OutcomeTaken DEF Finished
<1>9. \A c \in Cmds \ {d} : Version(c)' = Version(c) /\ (InUseBy(c)' <=> InUseBy(c))
  BY <1>1, <1>5 DEF Version, InUseBy, Running, OutcomeQueued
<1>10. ~InUseBy(d) /\ ~InUseBy(d)'
  BY <1>7, <1>8 DEF InUseBy
<1> QED
  BY <1>0, <1>1, <1>2, <1>9, <1>10, SameUsers

\* The first start: a copy for each version given to a command without version.
LEMMA RestartCopies ==
  ASSUME FullInv, Calm, Restart, TopicInv'
  PROVE  (DefinitionsOnDisk /\ FileUnchanged /\ CopiesCountUsers)'
<1> USE DEF FullInv, TopicInv, IndInv
<1>1. PICK src \in Sources :
      /\ definitions' = LoadedDefinitions(src)
      /\ copyDir' = [v \in Versions |-> IF Adopters(src, v) # {} /\ CopyFiles(v) = {}
                                        THEN v ELSE copyDir[v]]
      /\ copies' = [v \in Versions |-> Cardinality(CopyFiles(v))
                                         + Cardinality(Adopters(src, v))]
      /\ board' = BoardOnStart(src)
      /\ live' = {c \in Cmds : Found(src, c) /\ board'[c].status = "executing"}
      /\ inbox' = [c \in Cmds |-> inbox[c] \o Echo(retained[c]) \o Echo(Resumed(src, c))]
  BY DEF Restart
<1>2. ~up /\ up' /\ crashes = 0 /\ crashes' = crashes /\ job' = NoJob /\ userDir' = userDir
  BY DEF Restart, Calm, boundVars
<1>3. DefinitionsOnDisk'
  <2> SUFFICES ASSUME NEW op \in Ops, definitions'[op].version # None
               PROVE  /\ userDir[definitions'[op].file] \in Versions
                      /\ OpOf[userDir[definitions'[op].file]] = op
    BY <1>2 DEF DefinitionsOnDisk
  <2>1. src[op] # None /\ definitions'[op].file = src[op]
    BY <1>1 DEF LoadedDefinitions, NoDef
  <2>2. src[op] \in {f \in Files : userDir[f] \in Versions /\ OpOf[userDir[f]] = op}
    BY <2>1 DEF Sources
  <2> QED
    BY <2>1, <2>2
<1>4. FileUnchanged'
  BY <1>2 DEF FileUnchanged, NoJob
<1>5. \A v \in Versions : CopyFiles(v) = {} /\ copyDir[v] = Absent
  <2>1. \A v \in Versions : copyDir[v] = Absent
    BY <1>2 DEF FirstStart
  <2> QED
    BY <2>1, RepositoryAssumptions DEF CopyFiles
<1>6. ASSUME NEW c \in Cmds
      PROVE  /\ board'[c].version = AdoptedVersion(src, c)
             /\ Unversioned(c) => savedBoard[c] = LegacyCmd
             /\ ~Unversioned(c) => AdoptedVersion(src, c) = None
  <2>1. board'[c].version = AdoptedVersion(src, c)
    BY <1>1 DEF BoardOnStart, Pending
  <2>2. savedBoard[c] = LegacyCmd \/ savedBoard[c] = NoCmd
    BY <1>2 DEF FirstStart
  <2> QED
    BY <2>1, <2>2 DEF Unversioned, AdoptedVersion, LegacyCmd, NoCmd
<1>7. ASSUME NEW v \in Versions PROVE Users(v)' = Adopters(src, v)
  <2>1. ASSUME NEW c \in Cmds, c \in Adopters(src, v)
        PROVE  Version(c)' = v /\ Running(c)'
    <3>1. savedBoard[c] = LegacyCmd /\ AdoptedVersion(src, c) = v
      BY <1>6, <2>1 DEF Adopters
    <3>2. v \in InUseOnStart(src)[CmdOp[c]]
      BY <2>1, RepositoryAssumptions DEF InUseOnStart
    <3>3. board'[c].status = "executing"
      BY <1>1, <3>1 DEF BoardOnStart, Pending, LegacyCmd, Started
    <3> QED
      BY <1>1, <1>6, <3>1, <3>2, <3>3 DEF Found, Running, Version
  <2>2. ASSUME NEW c \in Cmds, Version(c)' = v
        PROVE  c \in Adopters(src, v)
    <3>1. AdoptedVersion(src, c) = v /\ v # None
      BY <1>6, <2>2, RepositoryAssumptions DEF Version
    <3> QED
      BY <1>6, <3>1 DEF Adopters
  <2> QED
    BY <2>1, <2>2 DEF Users, Adopters
<1>8. CopiesCountUsers'
  <2> SUFFICES ASSUME NEW w \in Versions
               PROVE  /\ copies'[w] = Cardinality(Users(w)')
                      /\ copyDir'[w] = IF Users(w)' = {} THEN Absent ELSE w
    BY DEF CopiesCountUsers
  <2>1. Cardinality(Adopters(src, w)) \in Nat
    <3>1. IsFiniteSet(Adopters(src, w))
      BY FS_Subset, RepositoryAssumptions DEF Adopters
    <3> QED
      BY <3>1, FS_CardinalityType
  <2>2. Cardinality(CopyFiles(w)) = 0
    BY <1>5, FS_EmptySet
  <2>3. copies'[w] = Cardinality(Adopters(src, w))
    BY <1>1, <2>1, <2>2
  <2>4. copyDir'[w] = IF Adopters(src, w) = {} THEN Absent ELSE w
    BY <1>1, <1>5
  <2> QED
    BY <1>7, <2>3, <2>4
<1> QED
  BY <1>3, <1>4, <1>8

LEMMA FullInvNext ==
  ASSUME FullInv, [Next]_vars
  PROVE  FullInv'
<1>0. TopicInv'
  BY TopicInvNext DEF FullInv
<1> SUFFICES ASSUME Calm' PROVE (DefinitionsOnDisk /\ FileUnchanged /\ CopiesCountUsers)'
  BY <1>0 DEF FullInv, CopiesInv
<1>1. /\ Calm /\ UNCHANGED <<crashes, redeliveries, raced>> /\ ~Crash
      /\ \A c \in Cmds : ~Redeliver(c)
      /\ \A f \in Files : ~DeleteFile(f)
  BY CalmBefore DEF FullInv, TopicInv, IndInv
<1>2. CASE \E c \in Cmds : Request(c) \/ ClearRequest(c) \/ Redeliver(c)
  BY <1>1, <1>2, RequesterCopies
<1>3. CASE \E f \in Files : DeleteFile(f) \/ \E content \in Content : WriteFile(f, content)
  <2>1. ~raced'
    BY DEF Calm
  <2> QED
    BY <1>1, <1>3, <2>1, EditCopies
<1>4. CASE OnModified \/ OnDeleted
  BY <1>1, <1>4, FileEventCopies
<1>5. CASE \E c \in Cmds : OnInit(c) \/ OnFinished(c) \/ OnCleared(c)
  <2>1. up
    BY <1>5 DEF OnInit, OnFinished, OnCleared, Receive, Idle
  <2> QED
    BY <1>1, <1>5, <2>1, InitCopies, OutcomeCopies, ClearedCopies
<1>6. CASE PersistDefinition
  BY <1>1, <1>6, PersistCopies
<1>7. CASE StartCommand \/ \E c \in Cmds, outcome \in Finished : FinishCommand(c, outcome)
  BY <1>1, <1>7, ProgressCopies
<1>8. CASE Restart
  BY <1>0, <1>1, <1>8, RestartCopies
<1>9. CASE UNCHANGED vars
  <2>1. UNCHANGED <<userDir, definitions, copies, copyDir, board, live, job, inbox>>
    BY <1>9 DEF vars, diskVars, brokerVars, memVars
  <2>2. DefinitionsOnDisk /\ FileUnchanged /\ CopiesCountUsers
    BY <1>1 DEF FullInv, CopiesInv
  <2>3. CopiesCountUsers'
    BY <2>1, <2>2, SameUsers DEF InUseBy, Running, Version, OutcomeQueued
  <2> QED
    BY <2>1, <2>2, <2>3 DEF DefinitionsOnDisk, FileUnchanged
<1> QED
  BY <1>1, <1>2, <1>3, <1>4, <1>5, <1>6, <1>7, <1>8, <1>9 DEF Next

\* The copies of the definitions are those the commands need: as long as the agent has
\* not crashed, no message has come twice and the edits have been orderly, a running
\* command has a faithful copy of its definition, and the last one removes it.
THEOREM CopiesFollowUse == Spec => []CopiesTrackUse
<1>1. Init => FullInv
  <2> SUFFICES ASSUME Init PROVE FullInv
    OBVIOUS
  <2>1. TopicInv
    BY TopicInvInit
  <2>2. DefinitionsOnDisk /\ FileUnchanged
    BY DEF Init, DefinitionsOnDisk, FileUnchanged, NoDef, NoJob
  <2>3. \A v \in Versions : Users(v) = {}
    BY RepositoryAssumptions DEF Init, Users, Version, NoCmd
  <2>4. CopiesCountUsers
    BY <2>3, FS_EmptySet DEF Init, CopiesCountUsers
  <2> QED
    BY <2>1, <2>2, <2>4 DEF FullInv, CopiesInv
<1>2. FullInv /\ [Next]_vars => FullInv'
  BY FullInvNext
<1>3. FullInv => CopiesTrackUse
  <2> SUFFICES ASSUME FullInv, Calm PROVE CopyWhileRunning /\ CopyFaithful /\ NoCopyLeak
    BY DEF CopiesTrackUse, Calm
  <2>1. CopiesCountUsers
    BY DEF FullInv, CopiesInv
  <2>2. CopyWhileRunning
    <3> SUFFICES ASSUME NEW c \in Cmds, Running(c), Version(c) \in Versions
                 PROVE  copyDir[Version(c)] # Absent
      BY DEF CopyWhileRunning
    <3>1. c \in Users(Version(c))
      BY DEF Users
    <3> QED
      BY <2>1, <3>1, RepositoryAssumptions DEF CopiesCountUsers
  <2>3. CopyFaithful
    BY <2>1 DEF CopiesCountUsers, CopyFaithful
  <2>4. NoCopyLeak
    <3> SUFFICES ASSUME job = NoJob, live = {}, \A c \in Cmds : inbox[c] = <<>>,
                        NEW v \in Versions
                 PROVE  copyDir[v] = Absent /\ copies[v] = 0
      BY DEF NoCopyLeak, Idle
    <3>1. \A c \in Cmds : ~Running(c) /\ ~OutcomeQueued(c)
      BY DEF Running, OutcomeQueued, NoJob
    <3>2. Users(v) = {}
      BY <3>1 DEF Users
    <3> QED
      BY <2>1, <3>2, FS_EmptySet DEF CopiesCountUsers
  <2> QED
    BY <2>2, <2>3, <2>4
<1> QED
  BY <1>1, <1>2, <1>3, PTL DEF Spec

=============================================================================
