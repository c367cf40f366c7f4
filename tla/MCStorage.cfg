SPECIFICATION Spec
CONSTANTS
  c1 = c1
  c2 = c2
  a = a
  o1 = o1
  o2 = o2
  o3 = o3
  b = b
  Client <- MCClient
  Id <- MCId
  CacheCall <- MCCacheCall
  FileCall <- MCFileCall
  MaxCalls = 2
  MaxCrashes = 1
  Tables <- MCId
  MaxVersion = 2
  DiskCall <- MCDiskCall
  Nobody = Nobody
  Nothing = Nothing
  Absent = Absent
  Partial = Partial
SYMMETRY Symmetric
INVARIANTS
  CacheCoherent
  CachedReadsFindRows
  FileIsAtomicStore
  RestoresTheFlushed
CHECK_DEADLOCK FALSE
