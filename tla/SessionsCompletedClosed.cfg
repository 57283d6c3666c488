SPECIFICATION Spec
CONSTANTS
  Browsers = {b1}
  Owners = {b1}
  Cosigners = {}
  Requests = {r1, r2}
  Others = {}
  Limit = 2
  MaxCompletions = 1
  MaxSuspensions = 1
INVARIANT CompletedIsClosed
CHECK_DEADLOCK FALSE
