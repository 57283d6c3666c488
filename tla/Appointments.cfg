SPECIFICATION FairSpec
CONSTANTS
  Chains = {c1, c2}
  Deletes = {"successfully_completed", "errored"}
  MaxBookings = 3
  MaxEvents = 1
  MaxKilled = 1
INVARIANT TypeOK
INVARIANT InfoIsLive
INVARIANT NothingElseIsLive
PROPERTY RemovedInTheEnd
CHECK_DEADLOCK FALSE
