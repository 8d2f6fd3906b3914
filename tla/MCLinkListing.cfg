SPECIFICATION Spec
CONSTANTS
  LinkIds <- ThreeIds
  Times <- TwoTimes
  PageSizes = {2}
  Null = Null
INVARIANTS
  TypeOK
  QuietWalkIsExact
  UntouchedLinksAreShown
