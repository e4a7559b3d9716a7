CONSTANTS
  measurement = measurement
  command = command
  alarm = alarm
  None = None
  Msgs <- TestMsgs
  Origin <- TestOrigin
  Forwarded <- TestMsgs
  Bidirectional <- TestBidirectional
  Qos0 = {alarm}
  Persistent = {"local"}
  Capacity = 6
  HealthRepeats = FALSE
  MaxPublished = 2
  MaxDrops = 1
SPECIFICATION Spec
INVARIANTS
  AckedIsDelivered
  PairingCorrect
  NotLooped
  HealthAccurate
  NoneLeftWaiting
CHECK_DEADLOCK FALSE
