CONSTANTS
  temperature = temperature
  pressure = pressure
  Keys = {temperature, pressure}
  Times = {0, 2, 4}
  EventJitter = 4
  DeliveryJitter = 2
  LeapLimit = 2
  MaxTime = 12
SPECIFICATION FairBatchSpec
INVARIANTS
  KeptOnce
  Grouped
PROPERTY Delivered
CHECK_DEADLOCK FALSE
