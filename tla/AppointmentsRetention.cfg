SPECIFICATION Spec
CONSTANTS
  Chains = {c1, c2}
  Deletes = {"successfully_completed", "errored"}
  MaxBookings = 2
  MaxEvents = 1
  MaxKilled = 0
PROPERTY KeptUntilAppointment
CHECK_DEADLOCK FALSE
