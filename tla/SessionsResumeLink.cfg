SPECIFICATION Spec
CONSTANTS
  Browsers = {b1}
  Owners = {b1}
  Cosigners = {}
  Requests = {r1, r2}
  Others = {}
  Limit = 2
  MaxCompletions = 1
  MaxSuspensions = 2
INVARIANT ResumeLinkWorks
CHECK_DEADLOCK FALSE
