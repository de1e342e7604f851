SPECIFICATION Spec
CONSTANTS
  Sources <- OneSource
  Tagged = {}
  Loops = {l1}
  Hooks = {h1}
  Targets = {t1}
  Output = "both"
  Atomic = TRUE
  Attempts = 1
  DiskFails = TRUE
  EditBound = 1
  RestartBound = 0
  None = None
  Unreachable = Unreachable
  NotModified = NotModified
INVARIANT OnlyVettedIsPublished
