SPECIFICATION Spec
CONSTANTS
  Threads = {t1, t2}
  NoThread = NoThread
  Maps = {m1}
  Caches = {k1}
  NoObject = NoObject
  MapName = MapName
  CacheName = CacheName
  NamedBefore = {}
SYMMETRY Symmetry
INVARIANTS
  DumpFindsWholeCache
\* Threads that call back in with a map's mutex held may all get stuck.
CHECK_DEADLOCK FALSE
