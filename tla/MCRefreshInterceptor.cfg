\* The order client.ts documents, in which a refresh can be reached at all.
SPECIFICATION FairSpec
CONSTANTS
  Requests = {r1}
  Logout = Logout
  Me = Me
  None = None
  MapsFirst = FALSE
  MaxPairs = 3
  MaxRestarts = 1
INVARIANTS
  TypeOK
  SingleFlight
  NewestPairStored
PROPERTIES
  CallsSettle
CHECK_DEADLOCK FALSE
