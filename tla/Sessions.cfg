SPECIFICATION Spec
CONSTANTS
  Browsers = {b1, b2}
  Owners = {b1}
  Cosigners = {b2}
  Requests = {r1, r2}
  Others = {o1}
  Limit = 2
  MaxCompletions = 1
  MaxSuspensions = 1
SYMMETRY Symmetry
INVARIANT TypeOK
INVARIANT OnlyEntitledHaveIt
INVARIANT CompleterLetsGo
 
INVARIANT OvershootBounded
CHECK_DEADLOCK FALSE
