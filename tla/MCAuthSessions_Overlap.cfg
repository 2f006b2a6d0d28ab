SPECIFICATION Spec
CONSTANTS
  Request = {r1, r2}
  SessionId = {s1, s2}
  Family = {f1, f2}
  NoSession = NoSession
  MaxAttempts = 2
  MaxFailures = 2
  PasswordAges = FALSE
SYMMETRY MCSymmetry
INVARIANTS
  TypeOK
  AdminLockHolds
  TemporaryPasswordsAreChanged
  LockedOutHasNoSession
  OneSessionPerFamily
