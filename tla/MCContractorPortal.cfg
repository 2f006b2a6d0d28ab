SPECIFICATION Spec
CONSTANTS
  x = x
  f = f
  p = p
  c1 = c1
  c2 = c2
  w1 = w1
  w2 = w2
  q1 = q1
  q2 = q2
  u1 = u1
  u2 = u2
  custom = custom
  None = None
  Office = Office
  City = {x}
  Facility = {f}
  Premise = {p}
  Contractor = {c1, c2}
  WorkType = {w1, w2}
  Responsibility = {q1, q2}
  Priority = {1, 2}
  User = {u1, u2}
  CustomRole = {custom}
  RoleSets <- MCRoleSets
  Comment = {m1, m2}
  Attachment = {a1}
  Session = {s1, s2}
  StartRows <- MCStartRows
  StartUsers <- MCStartUsers
  StartRequests <- MCStartRequests
  Inputs <- MCInputs
  MembershipSets <- MCMembershipSets
  MaxCalls = 3
\* The bound on calls is reached.
CHECK_DEADLOCK FALSE
SYMMETRY MCSymmetry
INVARIANTS
  ReferencesHold
  NobodyIsShutOut
  HiddenStaysHidden
  AttachmentsHaveFiles
  ContractorsSpeakForThemselves
PROPERTIES
  DeletionsLeaveTheRest
  PublicationsAskTheNearest
