SPECIFICATION FairSpec
CONSTANTS
  Cmds <- ProfileCmds
  OpOf <- ProfileOpOf
  Parent <- ProfileParent
  Workflow <- ProfileWorkflow
  Items <- ProfileItems
  Managed <- MCManaged
  Persistent <- MCPersistent
  Rebooting <- MCRebooting
  NoValue = NoValue
  SetupMayFail = FALSE
  MaxStops = 0
INVARIANT BatonPassed
 
PROPERTY ImplementsLifecycle
PROPERTY CommandsComplete
CHECK_DEADLOCK FALSE
