SPECIFICATION FairSpec
CONSTANTS
  Payments = {p1}
  Requests = {r1}
  Chains = {k1}
  HasBackend = TRUE
  WaitForPayment = FALSE
  MaxKilled = 1
PROPERTY PaidIsNoticed
PROPERTY CompletedIsRegistered
CHECK_DEADLOCK FALSE
