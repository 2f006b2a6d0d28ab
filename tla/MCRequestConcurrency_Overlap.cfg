SPECIFICATION Spec
CONSTANTS
  w1 = w1
  w2 = w2
  c1 = c1
  c2 = c2
  s1 = s1
  s2 = s2
  Session = {s1, s2}
  OfficeSession = {s1, s2}
  OfficeKinds = {"publish"}
  ActsFor <- MCSameContractor
  WorkType = {w1, w2}
  Contractor = {c1, c2}
  NoContractor = NoContractor
  Responsible <- MCLater
  RequireWorkResult = TRUE
SYMMETRY MCSymmetry
PROPERTIES
  
  OnlyOverwritesAreIllegal
  ProgressIsKept
