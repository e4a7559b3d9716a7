CONSTANTS
  camera = camera
  sensor = sensor
  Requests = {camera, sensor}
  Child <- EachOne
  MaxIds = 2
  MaxRedeliveries = 1
  MaxCrashes = 1
SPECIFICATION Spec
INVARIANTS
  Truthful
  FilesTrackWork
SYMMETRY Swaps
CHECK_DEADLOCK FALSE
