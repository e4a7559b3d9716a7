-------------------------- MODULE MCWorkflowEngine --------------------------
(* Instances of WorkflowEngine: the workflows shipped with thin-edge, or given *)
(* as examples by its documentation, on a few command topics.                  *)
EXTENDS WorkflowEngine

Move(to)  == [do |-> "move", to |-> to]
Clear     == [do |-> "clear"]
Script(S) == [do |-> "script", to |-> S]
Await(ok, ko) == [do |-> "awaitOperation", onSuccess |-> ok, onError |-> ko]
Invoke(op, next, script) ==
  [do |-> "operation", op |-> op, onExec |-> next, inputScript |-> script]

\* OperationWorkflow::built_in()
BuiltIn ==
  [init       |-> Move("scheduled"),
   scheduled  |-> [do |-> "builtin", onExec |-> "executing"],
   executing  |-> Await("successful", "failed"),
   successful |-> Clear,
   failed     |-> Clear]

\* resources/device_profile.toml
DeviceProfile ==
  [init               |-> Move("scheduled"),
   scheduled          |-> Move("executing"),
   executing          |-> Move("next_operation"),
   next_operation     |-> [do |-> "iterate", onNext |-> "apply_operation",
                           onSuccess |-> "twin_update", onError |-> "rollback"],
   apply_operation    |-> Invoke("@next", "awaiting_operation", FALSE),
   awaiting_operation |-> Await("next_operation", "rollback"),
   twin_update        |-> Script({"successful", "failed"}),
   rollback           |-> Move("failed"),
   successful         |-> Clear,
   failed             |-> Clear]

\* A workflow which restarts the agent, then invokes another operation with an
\* input computed by a script.
Upgrade ==
  [init       |-> Move("executing"),
   executing  |-> [do |-> "background", onExec |-> "restarting"],
   restarting |-> [do |-> "awaitRestart", onSuccess |-> "restarted", onTimeout |-> "failed"],
   restarted  |-> Invoke("update", "verifying", TRUE),
   verifying  |-> Await("successful", "failed"),
   successful |-> Clear,
   failed     |-> Clear]

\* A builtin operation customized with the deprecated builtin action.
Legacy ==
  [init       |-> Move("scheduled"),
   scheduled  |-> [do |-> "legacyBuiltin", onSuccess |-> "successful", onError |-> "failed"],
   successful |-> Clear,
   failed     |-> Clear]

\* The software, restart and configuration managers.
MCManaged == {"update", "restart", "config"}
MCPersistent == {"update", "restart"}
MCRebooting == {"restart"}

Item(op, skip) == [op |-> op, skip |-> skip]
NoItems(S) == [c \in S |-> <<>>]

\* A profile of five operations, of which the first, the last and one in between are
\* marked with @skip, while a restart of the device is requested independently.
ProfileCmds == {"profile", "profile.update", "profile.config", "restart"}
ProfileOpOf == [c \in ProfileCmds |->
  CASE c = "profile" -> "profile" [] c = "profile.update" -> "update"
    [] c = "restart" -> "restart"
    [] c = "profile.config" -> "config"]
ProfileParent == [c \in ProfileCmds |->
  IF c \in {"profile.update", "profile.config"} THEN "profile" ELSE NoValue]
ProfileWorkflow == [profile |-> DeviceProfile, update |-> BuiltIn, config |-> Legacy,
                    restart |-> BuiltIn]
ProfileItems == [NoItems(ProfileCmds) EXCEPT !["profile"] =
  <<Item("config", TRUE), Item("update", FALSE), Item("config", TRUE),
    Item("update", FALSE), Item("config", TRUE)>>]

\* Commands interrupted by a restart: an upgrade and a device restart.
RestartCmds == {"upgrade", "upgrade.update", "restart"}
RestartOpOf == [c \in RestartCmds |-> IF c = "upgrade.update" THEN "update" ELSE c]
RestartParent == [c \in RestartCmds |-> IF c = "upgrade.update" THEN "upgrade" ELSE NoValue]
RestartWorkflow == [upgrade |-> Upgrade, update |-> BuiltIn, restart |-> BuiltIn]
RestartItems == NoItems(RestartCmds)

\* What the theorem on device restarts asks of their workflow.
ASSUME RestartsByManager == ByManagerOnly
=============================================================================
