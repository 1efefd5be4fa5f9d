CONSTANTS
  a1 = a1  a2 = a2  pw1 = pw1  pw2 = pw2
  Keep = Keep  BadRole = BadRole  None = None
  Emails = {a1, a2}
  Passwords = {pw1, pw2}
  Roles = {"user", "admin"}
  AdminRole = "admin"  DefaultRole = "user"
  Req = {r1, r2}
  FailLimit = 1  LockTime = 1  TTL = 2  PurgeAge = 1
  LogCap = 0
  Roster <- RootAndAlice
  DefaultAdmin <- Root
  Bodies <- Administration
  UseApiKey = FALSE
  MaxUsers = 3  MaxSessions = 2  MaxTime = 1  MaxFailures = 0  MaxCrashes = 0
SPECIFICATION Spec
INVARIANTS TypeOK StaleSessionsAreCondemned DeletionSticks
SYMMETRY SlotSymmetry
