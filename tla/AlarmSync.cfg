SPECIFICATION FairSpec
CONSTANTS
  Alarms <- TwoAlarms
  Payloads <- AnyPayload
  Malformed <- NotParsable
  Queued <- HeldAlarm
  Clear = Clear
  Unseen = Unseen
  MaxChanges = 3
  MaxCrashes = 2
INVARIANTS
  NothingResent
PROPERTY Reconciled
CHECK_DEADLOCK FALSE
