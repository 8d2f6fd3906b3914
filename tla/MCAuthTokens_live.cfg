SPECIFICATION FairSpec
CONSTANTS
  Requests = {q1, q2}
  Emails = {e1}
  UserIds = {u1, u2}
  LoginValues = {l1}
  RefreshValues = {f1, f2}
  Null = Null
PROPERTIES
  EveryRequestEnds
