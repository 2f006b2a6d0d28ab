SPECIFICATION Spec
CONSTANTS
  w1 = w1
  w2 = w2
  c1 = c1
  c2 = c2
  s1 = s1
  s2 = s2
  Session = {s1, s2}
  OfficeSession = {s1, s2}
  OfficeKinds = {"status"}
  ActsFor <- MCNoReports
  WorkType = {w1, w2}
  Contractor = {c1, c2}
  NoContractor = NoContractor
  Responsible <- MCFixed
  RequireWorkResult = TRUE
INVARIANTS
  StatesAgree
