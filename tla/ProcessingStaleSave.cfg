SPECIFICATION Spec
CONSTANTS
  Chains = {c1, c2}
  Components = {}
  Payments = {}
  AttemptLimit = 2
  HasBackend = TRUE
  IsAppointmentForm = FALSE
  PaymentRequired = FALSE
  WaitForPayment = FALSE
  CosignRequired = FALSE
  OptionsCanBeInvalid = FALSE
  PluginSaves = FALSE
  MaxDelays = 0
  TimeLimitKills = FALSE
  MaxCrashes = 0
  MaxResets = 0
PROPERTY SuccessIsFinal
CHECK_DEADLOCK FALSE
