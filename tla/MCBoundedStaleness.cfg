SPECIFICATION LSpec
CONSTANTS
  Readers = {r1, r2}
  Writers = {w1}
  Users = {u1}
  Slugs = {s1}
  Ids = {i1, i2}
  t1 = t1
  t2 = t2
  p1 = p1
  d1 = d1
  Targets = {t1, t2}
  Deadlines = {d1}
  Passwords = {p1}
  Creations <- ProtectedCreations
  Patches <- OpeningPatches
  LinkLimit = 1
  LinkTTL = 2
  InvalidationTTL = 2
  FillDelay = 1
  Faults = {"lost_invalidation", "tombstone_evicted", "malformed_entry"}
  Null = Null
  Tombstone = Tombstone
  Malformed = Malformed
  Keep = Keep
SYMMETRY Symmetry
INVARIANTS
  TypeOK
  CacheLagBounded
