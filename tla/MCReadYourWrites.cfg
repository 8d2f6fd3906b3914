SPECIFICATION HSpec
CONSTANTS
  Readers = {r1}
  Writers = {w1, w2}
  Users = {u1}
  Slugs = {s1}
  Ids = {i1, i2}
  t1 = t1
  t2 = t2
  p1 = p1
  d1 = d1
  Targets = {t1, t2}
  Deadlines = {}
  Passwords = {}
  Creations <- PlainCreations
  Patches <- RetargetPatches
  LinkLimit = 2
  LinkTTL = 2
  InvalidationTTL = 2
  FillDelay = 1
  Faults = {}
  Null = Null
  Tombstone = Tombstone
  Malformed = Malformed
  Keep = Keep
SYMMETRY Symmetry
INVARIANTS
  StaleFillsBlocked
  ReadsSeeAnsweredWrites
PROPERTIES
  ImplementsRegister
