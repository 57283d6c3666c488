SPECIFICATION RecoveringSpec
CONSTANTS
  Chains = {c1}
  Components = {}
  Payments = {p1}
  AttemptLimit = 2
  HasBackend = TRUE
  IsAppointmentForm = FALSE
  PaymentRequired = TRUE
  WaitForPayment = FALSE
  CosignRequired = TRUE
  OptionsCanBeInvalid = FALSE
  PluginSaves = TRUE
  MaxDelays = 0
  TimeLimitKills = FALSE
  MaxCrashes = 1
  MaxResets = 1
PROPERTY FailureResolves
PROPERTY RegistrationEnds
PROPERTY PaymentIsRetried
PROPERTY RetriesEnd
CHECK_DEADLOCK FALSE
PROPERTY ImplementsLifecycle
