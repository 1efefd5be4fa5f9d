CONSTANTS
  a1 = a1  a2 = a2  pw1 = pw1  pw2 = pw2
  Keep = Keep  BadRole = BadRole  None = None
  Emails = {a1, a2}
  Passwords = {pw1, pw2}
  Roles = {"user", "admin"}
  AdminRole = "admin"  DefaultRole = "user"
  Req = {r1, r2}
  FailLimit = 2  LockTime = 1  TTL = 2  PurgeAge = 1
  LogCap = 0
  Roster <- JustAlice
  DefaultAdmin <- Root
  Bodies <- Restarting
  UseApiKey = TRUE
  MaxUsers = 2  MaxSessions = 1  MaxTime = 2  MaxFailures = 2  MaxCrashes = 1
SPECIFICATION Spec
INVARIANTS StaleSessionsAreCondemned DeletionSticks LogoutSticks
SYMMETRY SlotSymmetry
