SPECIFICATION Spec
CONSTANTS
  N = 4
  Unset = Unset
  Directories <- MCDirectories
  Hosts <- MCHosts
  Paths <- MCPaths
  NoRule = NoRule
INVARIANTS
  ReportedIsCycle
  SilentIsAcyclic
  LoopsAreReported
  GrowingLoopsAreReported
  
  SilencedIsWarned
  DirectoryIsOneFile
CHECK_DEADLOCK FALSE
