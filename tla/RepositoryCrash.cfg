SPECIFICATION FairSpec
CONSTANTS
  OpOf <- MCOpOf
  FileOf <- MCFileOf
  CmdOp <- MCCmdOp
  Builtin = Builtin
  None = None
  Absent = Absent
  Garbage = Garbage
  Ops <- OneOp
  Versions <- TwoVersions
  Builtins <- OneOp
  Files <- OneOp
  Cmds <- TwoCommands
  Legacy <- OneCommand
  MaxCrashes = 1
  MaxEdits = 1
  MaxRedeliveries = 0
INVARIANTS
  CopiesTrackUse
  CurrentMatchesDefinition
  LiveVersionLoaded
PROPERTIES
  VersionPinned
  RequestAnswered
CHECK_DEADLOCK FALSE
