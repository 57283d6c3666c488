SPECIFICATION Spec
CONSTANTS
  Chains = {c1}
  Components = {k1}
  Payments = {p1}
  AttemptLimit = 2
  HasBackend = TRUE
  IsAppointmentForm = TRUE
  PaymentRequired = TRUE
  WaitForPayment = TRUE
  CosignRequired = TRUE
  OptionsCanBeInvalid = TRUE
  PluginSaves = TRUE
  MaxDelays = 0
  TimeLimitKills = TRUE
  MaxCrashes = 2
  MaxResets = 1
INVARIANT RegisteredOnce
INVARIANT HashedAttributesNotNeeded
PROPERTY ImplementsLifecycle
PROPERTY SuccessIsFinal
PROPERTY HookSuccessIsFinal
INVARIANT FailedIsRetried
CHECK_DEADLOCK FALSE
PROPERTY RegistersOnlyWhenAllowed
