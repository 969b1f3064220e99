\* Fair request handling; one tab, one form, two submissions on their way.
CONSTANTS
  t1 = t1
  f1 = f1
  None = None
  Tabs = {t1}
  Forms = {f1}
  Slots = {1, 2}
  MaxSessions = 1
  MaxWrites = 2
  Burst = 1
  Trouble = TRUE
  Journeys <- EachPage
SPECIFICATION FairSpec
INVARIANTS TypeOK NoDoubleRows SavesAreShown
PROPERTY Settles
