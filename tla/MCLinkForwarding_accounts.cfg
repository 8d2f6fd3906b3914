SPECIFICATION FairSpec
CONSTANTS
  Readers = {}
  Writers = {w1, w2}
  Users = {u1}
  Slugs = {s1, s2}
  Ids = {i1, i2}
  t1 = t1
  t2 = t2
  p1 = p1
  d1 = d1
  Targets = {t1, t2}
  Deadlines = {}
  Passwords = {}
  Creations <- PlainCreations
  Patches <- RetargetPatches
  LinkLimit = 1
  LinkTTL = 1
  InvalidationTTL = 1
  FillDelay = 0
  Faults = {"malformed_entry"}
  Null = Null
  Tombstone = Tombstone
  Malformed = Malformed
  Keep = Keep
\* With every account deleted and no reader, nothing is left to start.
CHECK_DEADLOCK FALSE
INVARIANTS
  WithinLimit
  DeletedLinksAreListed
  NoDeadlock
PROPERTIES
  ImplementsRegister
  EveryRequestEnds
