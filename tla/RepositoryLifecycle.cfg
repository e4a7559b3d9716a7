SPECIFICATION Spec
CONSTANTS
  OpOf <- MCOpOf
  FileOf <- MCFileOf
  CmdOp <- MCCmdOp
  Builtin = Builtin
  None = None
  Absent = Absent
  Garbage = Garbage
  Ops <- TwoOps
  Versions <- VersionsOfTwoOps
  Builtins <- OneOp
  Files <- TwoOps
  Cmds <- CommandOfEachOp
  Legacy <- NoCommands
  MaxCrashes = 0
  MaxEdits = 2
  MaxRedeliveries = 1
INVARIANTS
  CapabilityHonoured
CHECK_DEADLOCK FALSE
PROPERTY ImplementsLifecycle
