SPECIFICATION Spec
CONSTANTS
  Payments = {p1}
  Requests = {r1, r2}
  Chains = {k1}
  HasBackend = TRUE
  WaitForPayment = FALSE
  MaxKilled = 1
SYMMETRY Symmetry
INVARIANT TypeOK
INVARIANT OnlyPaidIsCompleted
INVARIANT CompletedIsAnnounced
PROPERTY ImplementsLifecycle
CHECK_DEADLOCK FALSE
