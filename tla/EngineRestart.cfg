SPECIFICATION EngineSpec
CONSTANTS
  Cmds <- RestartCmds
  OpOf <- RestartOpOf
  Parent <- RestartParent
  Workflow <- RestartWorkflow
  Items <- RestartItems
  Managed <- MCManaged
  Persistent <- MCPersistent
  Rebooting <- MCRebooting
  NoValue = NoValue
  SetupMayFail = TRUE
  MaxStops = 1
INVARIANT RestartNotFaked
INVARIANT InProgressIsPersisted
CHECK_DEADLOCK FALSE
