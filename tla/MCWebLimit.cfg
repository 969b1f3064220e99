\* No connection fails: only the limiter stands between a session and the site.
CONSTANTS
  t1 = t1
  f1 = f1
  None = None
  Tabs = {t1}
  Forms = {f1}
  Slots = {1}
  MaxSessions = 1
  MaxWrites = 1
  Burst = 2
  Trouble = FALSE
  Journeys <- Tasks
SPECIFICATION Spec
PROPERTY SignedOutOnlyIfInvalid
