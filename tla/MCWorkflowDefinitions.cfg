SPECIFICATION Spec
CONSTANTS
  s1 = s1
  s2 = s2
  Session = {s1, s2}
  Code = {"DRAFT", "NEW"}
  TransitionCode = {"publish"}
  SeedCode = {"DRAFT", "NEW"}
  SeedInitial = "DRAFT"
  SeedTransition = {"publish"}
  SeedFrom <- MCSeedFrom
  SeedTo <- MCSeedTo
  Entity = {"request"}
  MaxVersion = 2
  MaxChange = 4
\* The bound on changes is reached.
CHECK_DEADLOCK FALSE
SYMMETRY MCSymmetry
INVARIANTS
  TypeOK
  PublishedIsSound
  InstancesFitTheirVersion
PROPERTIES
  PublishedIsImmutable
