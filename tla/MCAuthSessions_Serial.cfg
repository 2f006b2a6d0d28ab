SPECIFICATION FairSpec
CONSTANTS
  Request = {r1}
  SessionId = {s1, s2}
  Family = {f1, f2}
  NoSession = NoSession
  MaxAttempts = 2
  MaxFailures = 3
  PasswordAges = TRUE
PROPERTIES
  LockPasses
