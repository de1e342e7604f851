SPECIFICATION WatcherSpec
CONSTANTS
  Debounce = 2
  Callbacks = {k1, k2, k3}
  Hups = {h1}
  WriteBound = 2
  Off = Off
INVARIANTS
  NoChangeForgotten
  NoOverlap
PROPERTY HotReload
CHECK_DEADLOCK FALSE
