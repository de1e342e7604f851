SPECIFICATION Spec
CONSTANTS
  Sources <- TwoSources
  Tagged = {}
  Loops = {l1}
  Hooks = {}
  Targets = {}
  Output = "file"
  Atomic = TRUE
  Attempts = 1
  DiskFails = FALSE
  EditBound = 2
  RestartBound = 0
  None = None
  Unreachable = Unreachable
  NotModified = NotModified
PROPERTY PrimaryPrevails
