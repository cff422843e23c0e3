\* Two fair dispatchers, one row, one mishap.
SPECIFICATION FairSpec
CONSTANTS
  r1 = r1
  r2 = r2
  w1 = w1
  w2 = w2
  a1 = a1
  Nobody = Nobody
  Rows = {r1}
  Alerts = {a1}
  AlertOf <- OneAlert
  TypeOf <- FaultAndRecovery
  Dispatchers = {w1, w2}
  Limit = 2
  MaxRetries = 2
  MaxMishaps = 1
INVARIANTS SentWasAccepted MixedRowsKeepBudget RepeatsAreExplained
PROPERTIES SettledStaysSettled EveryRowSettles ImplementsLedger
