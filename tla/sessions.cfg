CONSTANTS
  a1 = a1  a2 = a2  pw1 = pw1  pw2 = pw2
  Keep = Keep  BadRole = BadRole  None = None
  Emails = {a1, a2}
  Passwords = {pw1, pw2}
  Roles = {"user", "admin"}
  AdminRole = "admin"  DefaultRole = "user"
  Req = {r1, r2}
  FailLimit = 2  LockTime = 1  TTL = 1  PurgeAge = 0
  LogCap = 0
  Roster <- JustAlice
  DefaultAdmin <- Root
  Bodies <- OwnAccount
  UseApiKey = FALSE
  MaxUsers = 1  MaxSessions = 2  MaxTime = 2  MaxFailures = 0  MaxCrashes = 0
SPECIFICATION FairSpec
INVARIANTS TypeOK StaleSessionsAreCondemned LogoutSticks
PROPERTIES StaleSessionsDie ExpiredSessionsGo
