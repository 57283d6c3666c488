SPECIFICATION Spec
CONSTANTS
  Chains = {c1, c2}
  Components = {}
  Payments = {p1}
  AttemptLimit = 1
  HasBackend = TRUE
  IsAppointmentForm = FALSE
  PaymentRequired = TRUE
  WaitForPayment = FALSE
  CosignRequired = TRUE
  OptionsCanBeInvalid = FALSE
  PluginSaves = TRUE
  MaxDelays = 1
  TimeLimitKills = FALSE
  MaxCrashes = 0
  MaxResets = 0
SYMMETRY Symmetry
INVARIANT TypeOK
INVARIANT OnceTasksExclusive
INVARIANT PaymentRegisteredIsKnown
INVARIANT PaymentUpdateIsNeeded
INVARIANT SuccessWasPreRegistered
PROPERTY RegistersOnlyWhenAllowed
CHECK_DEADLOCK FALSE
