SPECIFICATION Spec
CONSTANTS
  Sources <- TwoSources
  Tagged = {"primary"}
  Loops = {l1}
  Hooks = {}
  Targets = {}
  Output = "file"
  Atomic = TRUE
  Attempts = 1
  DiskFails = FALSE
  EditBound = 1
  RestartBound = 0
  None = None
  Unreachable = Unreachable
  NotModified = NotModified
PROPERTY PrimaryPrevails
