SPECIFICATION FairSpec
CONSTANT MaxInFlight = 2
CHECK_DEADLOCK FALSE
INVARIANTS
  NoRequestWithoutDatabase
  HealthHonest
PROPERTY ProcessEnds
