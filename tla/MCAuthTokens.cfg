SPECIFICATION Spec
CONSTANTS
  Requests = {q1, q2, q3}
  Emails = {e1}
  UserIds = {u1, u2}
  LoginValues = {l1, l2}
  RefreshValues = {f1, f2}
  Null = Null
SYMMETRY Symmetry
INVARIANTS
  TypeOK
  ExchangedOnce
  OneLiveTokenPerSignIn
  ChainsStayInAccount
  AccountsComeFromSignIns
  NoDeadlock
PROPERTIES
  ImplementsLifecycle
