SPECIFICATION Spec
CONSTANTS
  WorkType = {w1, w2}
  Contractor = {c1, c2}
  NoContractor = NoContractor
  OfficeProfiles <- MCOfficeProfiles
  RequireWorkResult = TRUE
PROPERTIES
  FinalStatusIsFinal
