SPECIFICATION MCSpec
CONSTANTS
  MaxVersions = 3
  VersionBound = 6
  NoVersion = NoVersion
  NoSection = NoSection
  NoChanges = NoChanges
  Config <- MCConfigs
INVARIANTS
  Consecutive
  LookupsAgree
  ChangesChain
PROPERTIES
  HistoryIsImmutable
  ImplementsHistory
CHECK_DEADLOCK FALSE
