SPECIFICATION Spec
CONSTANTS
  Sources <- TwoSources
  Tagged = {"primary"}
  Loops = {l1}
  Hooks = {}
  Targets = {t1, t2}
  Output = "both"
  Atomic = TRUE
  Attempts = 1
  DiskFails = TRUE
  EditBound = 1
  RestartBound = 1
  None = None
  Unreachable = Unreachable
  NotModified = NotModified
INVARIANTS
  OutputIsGood
  SuccessIsServed
  HealthyIsCurrent
