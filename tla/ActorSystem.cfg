CONSTANTS
  Clients = {"c1", "c2"}
  SpawnOrder <- TestOrder
  Capacity = 1
  MaxConcurrency = 1
SPECIFICATION FairSpec
INVARIANT OutcomeTrue
PROPERTIES
  NobodyWaits
  ProcessEnds
