SPECIFICATION Spec
CONSTANTS
  Rules <- MCRules
  RuleBound = 3
  Hosts <- MCHosts
  Paths <- MCPaths
  NoRule = NoRule
INVARIANTS
  MissesNothing
  RejectionIsHarmless
  BestOfItsKind
PROPERTY UnrelatedRuleIsNeutral
CHECK_DEADLOCK FALSE
