SPECIFICATION Spec
CONSTANTS
  Threads = {t1, t2, t3}
  NoThread = NoThread
  Maps = {m1, m2}
  Caches = {k1, k2}
  NoObject = NoObject
  MapName = MapName
  CacheName = CacheName
  NamedBefore = {k1}
SYMMETRY Symmetry
INVARIANTS
  TypeOK
  OneReadyRegistry
  RegisteredWhileItExists
  DumpFindsMap
  StuckOnlyByCallers
\* Threads that call back in with a map's mutex held may all get stuck.
CHECK_DEADLOCK FALSE
