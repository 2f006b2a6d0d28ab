SPECIFICATION Spec
CONSTANTS
  WorkType = {w1, w2}
  Contractor = {c1, c2}
  NoContractor = NoContractor
  OfficeProfiles <- MCOfficeProfiles
  RequireWorkResult = TRUE
SYMMETRY MCSymmetry
INVARIANTS
  TypeOK
  InstanceMirrorsRequest
  StampsFollowStatus
  AssignmentsFitScope
  AbandonedIsCancelled
PROPERTIES
  CompletionIsEarned
  ReportsReopenOnlyGaps
  AbandonedIsFrozen
  AssignmentsAreKept
  CodedChangesAreRecorded
