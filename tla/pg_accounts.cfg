CONSTANTS
  a1 = a1  a2 = a2  pw1 = pw1  pw2 = pw2
  Keep = Keep  BadRole = BadRole  None = None
  Emails = {a1, a2}
  Passwords = {pw1, pw2}
  Roles = {"user", "admin"}
  AdminRole = "admin"  DefaultRole = "user"
  Req = {r1, r2}
  FailLimit = 1  LockTime = 1  TTL = 1  PurgeAge = 0
  LogCap = 1
  Roster <- JustAlice
  DefaultAdmin <- Root
  Bodies <- Everything
  UseApiKey = TRUE
  MaxRequests = 3  MaxTime = 3  MaxFaults = 1
SPECIFICATION Spec
INVARIANTS TypeOK PasswordSticks StaleSessionsAreCondemned NoOrphans EmailsAreUnique DeletionSticks LogBounded
SYMMETRY SlotSymmetry
