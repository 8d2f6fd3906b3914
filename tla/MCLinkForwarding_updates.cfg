SPECIFICATION Spec
CONSTANTS
  Readers = {}
  Writers = {w1, w2}
  Users = {u1}
  Slugs = {s1}
  Ids = {i1, i2}
  t1 = t1
  t2 = t2
  p1 = p1
  d1 = d1
  Targets = {t1, t2}
  Deadlines = {d1}
  Passwords = {p1}
  Creations <- ProtectedCreations
  Patches <- OverlappingPatches
  LinkLimit = 1
  LinkTTL = 2
  InvalidationTTL = 2
  FillDelay = 1
  Faults = {}
  Null = Null
  Tombstone = Tombstone
  Malformed = Malformed
  Keep = Keep
\* With every account deleted and no reader, nothing is left to start.
CHECK_DEADLOCK FALSE
PROPERTIES
  UpdatesAreKept
