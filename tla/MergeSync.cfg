SPECIFICATION Spec
CONSTANTS
  Unset = Unset
  Setups <- MCSetups
  Names <- MCNames
  Targets = {"edge"}
  Contents <- MCContents
  Paths <- MCPaths
  RetryAttempts = 1
  EventBound = 2
INVARIANTS
  NothingLost
  WinnerByPriority
  LintForesees
PROPERTIES
  Converges
