SPECIFICATION Spec
CONSTANTS
  Requests = {r1, r2, r3}
  Inputs <- MCInputs
  Limits <- MCLimits
  GlobalBurst = 3
  PathBurst = 2
  PerIPBurst = 1
  PerIPRPS = 1
  IPTTL = 1
  RingSize = 2
  Interval = 1
  MaxTime = 2
  OperationBound = 1
SYMMETRY Symmetry
INVARIANTS
  RateIsBounded
  CountersAgree
  LiveViewIsNewest
CHECK_DEADLOCK FALSE
