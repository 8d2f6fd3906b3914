SPECIFICATION Spec
CONSTANTS
  Users = {u1, u2}
  Client = u1
  LinkIds = {k1, k2}
  ClickIds <- FourIds
  Times <- TwoTimes
  MaxLimit = 2
  Null = Null
SYMMETRY Symmetry
INVARIANTS
  TypeOK
  PagesDescend
  WalkIsComplete
  CursorLeadsOn
