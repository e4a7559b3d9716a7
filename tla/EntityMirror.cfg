SPECIFICATION Spec
CONSTANTS
  None = None
  Topics <- MCTopics
  Main = "main"
  Ids = {"x"}
  DefaultParent <- MCDefaultParent
  AutoTopics = {"child", "service"}
  CleanStart = TRUE
  Registrations <- FixedParents
  Cleared = {"child", "service"}
  Reporting = {"service"}
  InvalidIds = {}
  Requests <- AllRequests
  PatientRequests <- FewRequests
  MaxEager = 3
  MaxPatient = 5
  MaxCrashes = 1
  MaxQueue = 4
INVARIANTS
  ParentRegistered
  NoneForgotten
  Mirrored
  CreatedParentFirst
  CacheSound
CHECK_DEADLOCK FALSE
