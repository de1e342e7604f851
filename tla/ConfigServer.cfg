SPECIFICATION Spec
CONSTANTS
  Ops = {o1, o2}
  Requests = {q1}
  Hosts = {"a", "b"}
  AnyHost = "any"
  Config <- TwoConfigs
  MaxVersions = 2
  AuditSize = 3
  VersionBound = 4
  NoVersion = NoVersion
  NoSection = NoSection
  NoChanges = NoChanges
  None = None
  Callers <- MCCallers
  Authentication <- MCAuthentication
  NoCredential = NoCredential
  NoPrincipal = NoPrincipal
SYMMETRY OpSymmetry
INVARIANTS
  LedgerAgrees
  AuditedExactlyOnce
  RollbackRestores
  DivergenceBounded
  Agreement
  AnswerExplained
  RollbackIsAccountable
