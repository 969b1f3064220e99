CONSTANTS
  Nobody = Nobody
  Accounts = {a, b}
  Queries = {q}
  MaxAttempts = 2
  LockoutSeconds = 2
  EventArrives = TRUE
  MaxStarts = 3
  MaxSignIns = 2
  MaxEdits = 1
SPECIFICATION FairAccountSpec
INVARIANTS AccountTypeOK TokensMatchSession RowsAreOwn
PROPERTY WaitsEnd
CHECK_DEADLOCK FALSE
