SPECIFICATION Spec
CONSTANTS
  Bases = {web, api}
  Networks = {n1, n2}
  Tabs = {t1, t2}
  Requests = {q1, q2}
  Hasty = TRUE
  MaxSagas = 2
  MaxFaults = 2
SYMMETRY Symmetry
INVARIANTS TypeOK ServiceSurvives RollbackRestores SomeoneServes
PROPERTIES OldGivesWay
CHECK_DEADLOCK FALSE
