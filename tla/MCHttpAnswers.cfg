SPECIFICATION Spec
CONSTANTS
  Tabs = {b1, b2}
  Slugs = {s1}
  t1 = t1
  p1 = p1
  p2 = p2
  Targets = {t1}
  Passwords = {p1, p2}
  LinkStates <- OneReasonEach
  Attempts = 2
  Null = Null
SYMMETRY Symmetry
INVARIANTS
  TypeOK
  AnswersAreCurrent
