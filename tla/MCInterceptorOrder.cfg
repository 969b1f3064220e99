\* The order client.ts really has: errorInterceptor sees a 401 first.
SPECIFICATION Spec
CONSTANTS
  Requests = {r1}
  Logout = Logout
  Me = Me
  None = None
  MapsFirst = TRUE
  MaxPairs = 3
  MaxRestarts = 1
INVARIANT RefreshBeforeUnauthorized
CHECK_DEADLOCK FALSE
