------------------------------- MODULE Accounts -------------------------------
(***************************************************************************)
(* What both user stores share: accounts and sessions                      *)
(* (internal/models/users.go), the claims of a token, the requests about   *)
(* accounts, and the patch functions the handlers give to UpdateUser.      *)
(***************************************************************************)
EXTENDS Integers

CONSTANTS
  Emails, Passwords, Roles,
  Keep,           \* a field a patch leaves out
  BadRole,        \* a role models.IsValidRole refuses
  None,           \* an absent field
  AdminRole,      \* the role adminGuard asks for
  DefaultRole,    \* createUser's role when the body has none
  FailLimit,      \* 5 failed logins lock an account
  LockTime        \* for 15 minutes

\* PasswordHash is the password it verifies.
User == [email: Emails, role: Roles, active: BOOLEAN, hash: Passwords,
         failed: Nat, lockedUntil: Nat]

\* The claims auth.Sign serialises: two tokens with equal claims are equal.
Token == [user: Nat, role: Roles, email: Emails, iat: Nat]

Session == [user: Nat, token: Token, expires: Nat, revoked: BOOLEAN]

Patch == [email: Emails \cup {Keep}, role: Roles \cup {Keep, BadRole},
          active: BOOLEAN \cup {Keep}]

AdminOps == {"create", "update", "delete", "reset"}
Ops == {"login", "me", "logout", "change"} \cup AdminOps

Body == [op: Ops \ {"login"}, pw: Passwords \cup {None}, new: Passwords \cup {None},
         patch: Patch \cup {None}]

\* Partial functions with one more entry, and cut down to some of their keys.
Put(f, k, v) == [i \in DOMAIN f \cup {k} |-> IF i = k THEN v ELSE f[i]]
Only(f, keys) == [i \in keys |-> f[i]]

-----------------------------------------------------------------------------
(* Patch functions, and the account a creation makes.                      *)

\* Mutant of Failed: the account locks one failure late.
FailedLate(u, now) ==
  IF u.failed + 1 > FailLimit
  THEN [u EXCEPT !.failed = 0, !.lockedUntil = now + LockTime]
  ELSE [u EXCEPT !.failed = @ + 1]

\* The patch function of a failed login: the FailLimit-th failure locks.
Failed(u, now) ==
  IF u.failed + 1 >= FailLimit
  THEN [u EXCEPT !.failed = 0, !.lockedUntil = now + LockTime]
  ELSE [u EXCEPT !.failed = @ + 1]

\* The patch function of a successful login.
Cleared(u) == [u EXCEPT !.failed = 0, !.lockedUntil = 0]

\* Mutant of Rehashed: a reset clears the lock and forgets the hash.
ClearedOnReset(u, slot) ==
  IF slot.op = "change" THEN [u EXCEPT !.hash = slot.new]
                        ELSE [u EXCEPT !.failed = 0, !.lockedUntil = 0]

\* The patch functions: an administrator's reset also clears the lock.
Rehashed(u, slot) ==
  IF slot.op = "change" THEN [u EXCEPT !.hash = slot.new]
                        ELSE [u EXCEPT !.hash = slot.new, !.failed = 0, !.lockedUntil = 0]

\* Mutant of Patched: the role is assigned before it is validated.
PatchedUnchecked(u, p) ==
  [u EXCEPT !.email  = IF p.email = Keep THEN @ ELSE p.email,
            !.role   = IF p.role = Keep THEN @ ELSE p.role,
            !.active = IF p.active = Keep \/ p.role = BadRole THEN @ ELSE p.active]

\* The patch function assigns in this order, and stops at a bad role.
Patched(u, p) ==
  [u EXCEPT !.email  = IF p.email = Keep THEN @ ELSE p.email,
            !.role   = IF p.role \in {Keep, BadRole} THEN @ ELSE p.role,
            !.active = IF p.active = Keep \/ p.role = BadRole THEN @ ELSE p.active]

NewUser(slot) ==
  [email |-> slot.patch.email,
   role |-> IF slot.patch.role = Keep THEN DefaultRole ELSE slot.patch.role,
   active |-> IF slot.patch.active = Keep THEN TRUE ELSE slot.patch.active,
   hash |-> slot.new, failed |-> 0, lockedUntil |-> 0]
=============================================================================
