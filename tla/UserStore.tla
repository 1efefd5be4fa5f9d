------------------------------ MODULE UserStore ------------------------------
(***************************************************************************)
(* The JSON user store (internal/database/users.go): accounts, sessions    *)
(* and the activity log in memory, mirrored in users.json.  Every method   *)
(* runs under one mutex, changes memory first and then calls save(), so a  *)
(* method is one step here, whose Boolean ok tells whether its save went   *)
(* through.  A failed save leaves memory changed and the file as it was.   *)
(*                                                                         *)
(* Data: a password hash is the password it verifies (hashing is           *)
(* injective), a token hash is the token, a uuid is the next unused        *)
(* number, so ids increase in creation order and "the first match in the   *)
(* slice" is the least id.  Time is counted in seconds.                    *)
(***************************************************************************)
EXTENDS Accounts, Sequences

CONSTANTS
  PurgeAge,       \* 30 days
  LogCap,         \* 10000 activity entries
  Roster,         \* the accounts users.json holds at the first start
  DefaultAdmin,   \* the account bootstrapAdmin creates in an empty store
  MaxFailures,    \* bound: failed saves
  MaxTime         \* bound: the clock

VARIABLES
  users,          \* s.Users: id -> account
  lastUser,       \* the last id given to an account
  sessions,       \* s.Sessions: id -> session
  lastSession,    \* the last id given to a session
  activity,       \* s.Activity
  disk,           \* what users.json holds
  failures,       \* failed saves so far
  now             \* time.Now(), in seconds

memory == <<users, lastUser, sessions, lastSession, activity>>
storeVars == <<memory, disk, failures, now>>

\* Accounts and sessions by id; ids are not given twice.
IsUsers(f) == f \in [DOMAIN f -> User] /\ DOMAIN f \subseteq 1..lastUser
IsSessions(f) == f \in [DOMAIN f -> Session] /\ DOMAIN f \subseteq 1..lastSession

ASSUME StoreAssumption ==
  /\ Keep \notin Emails /\ Keep \notin Roles /\ Keep \notin BOOLEAN
  /\ BadRole \notin Roles /\ BadRole # Keep
  /\ PurgeAge \in Nat /\ LogCap \in Nat
  /\ DefaultAdmin \in User
  /\ Roster \in Seq(User) /\ Roster # <<>>

-----------------------------------------------------------------------------
(* Lookups.                                                                *)

WithEmail(e) == {i \in DOMAIN users : users[i].email = e}

\* The first match of a scan over the slice: one id, or none.
First(ids) == {i \in ids : \A j \in ids : i <= j}

\* FindSessionByTokenHash accepts these rows, and returns the first of them.
Live(s) == ~sessions[s].revoked /\ sessions[s].expires > now
LiveWith(token) == {s \in DOMAIN sessions : sessions[s].token = token /\ Live(s)}

-----------------------------------------------------------------------------
(* save(): write users.json.tmp, rename it over users.json.  The rename    *)
(* makes it all or nothing.                                                *)
Save(ok) ==
  /\ ok \/ failures < MaxFailures
  /\ failures' = IF ok THEN failures ELSE failures + 1
  /\ disk' = IF ok
             THEN [users |-> users', sessions |-> sessions', activity |-> activity']
             ELSE disk

\* Mutant of CreateUser: the least free id is given again.
CreateUserReusing(u, ok) ==
  \E id \in First(1..(lastUser + 1) \ DOMAIN users) :
    /\ WithEmail(u.email) = {}
    /\ lastUser' = IF id > lastUser THEN id ELSE lastUser
    /\ users' = Put(users, id, u)
    /\ UNCHANGED <<sessions, lastSession, activity, now>>
    /\ Save(ok)

CreateUser(u, ok) ==
  /\ WithEmail(u.email) = {}
  /\ lastUser' = lastUser + 1
  /\ users' = Put(users, lastUser + 1, u)
  /\ UNCHANGED <<sessions, lastSession, activity, now>>
  /\ Save(ok)

\* UpdateUser with a patch function that returns no error.
UpdateUser(id, u, ok) ==
  /\ id \in DOMAIN users
  /\ users' = [users EXCEPT ![id] = u]
  /\ UNCHANGED <<lastUser, sessions, lastSession, activity, now>>
  /\ Save(ok)

\* UpdateUser with a patch function that fails half-way: what it already
\* wrote through the pointer stays in memory, and nothing is saved.
UpdateUserRefused(id, u) ==
  /\ id \in DOMAIN users
  /\ users' = [users EXCEPT ![id] = u]
  /\ UNCHANGED <<lastUser, sessions, lastSession, activity, disk, failures, now>>

\* Mutant of RevokedFor: the loop stops at the first session it revokes.
RevokedForFirst(id) ==
  LET theirs == {s \in DOMAIN sessions : sessions[s].user = id /\ ~sessions[s].revoked} IN
  [s \in DOMAIN sessions |-> [sessions[s] EXCEPT !.revoked = @ \/ s \in First(theirs)]]

\* The unrevoked sessions of a user become revoked.
RevokedFor(id) ==
  [s \in DOMAIN sessions |->
     [sessions[s] EXCEPT !.revoked = @ \/ sessions[s].user = id]]

\* Mutants of DeleteUser: the sessions stay; nothing is saved.
DeleteUserOnly(id, ok) ==
  /\ id \in DOMAIN users
  /\ users' = Only(users, DOMAIN users \ {id})
  /\ UNCHANGED <<lastUser, sessions, lastSession, activity, now>>
  /\ Save(ok)

DeleteUserUnsaved(id, ok) ==
  /\ id \in DOMAIN users /\ ok
  /\ users' = Only(users, DOMAIN users \ {id})
  /\ sessions' = RevokedFor(id)
  /\ UNCHANGED <<lastUser, lastSession, activity, disk, failures, now>>

DeleteUser(id, ok) ==
  /\ id \in DOMAIN users
  /\ users' = Only(users, DOMAIN users \ {id})
  /\ sessions' = RevokedFor(id)
  /\ UNCHANGED <<lastUser, lastSession, activity, now>>
  /\ Save(ok)

\* The user is not looked up: a session of a deleted account is accepted.
CreateSession(sess, ok) ==
  /\ lastSession' = lastSession + 1
  /\ sessions' = Put(sessions, lastSession + 1, sess)
  /\ UNCHANGED <<users, lastUser, activity, now>>
  /\ Save(ok)

\* Mutant of RevokeSession: the row is revoked in memory and nothing is saved.
RevokeSessionUnsaved(s, ok) ==
  /\ s \in DOMAIN sessions /\ ~sessions[s].revoked /\ ok
  /\ sessions' = [sessions EXCEPT ![s].revoked = TRUE]
  /\ UNCHANGED <<users, lastUser, lastSession, activity, disk, failures, now>>

\* Only a row that is there and unrevoked is written.
RevokeSession(s, ok) ==
  /\ s \in DOMAIN sessions /\ ~sessions[s].revoked
  /\ sessions' = [sessions EXCEPT ![s].revoked = TRUE]
  /\ UNCHANGED <<users, lastUser, lastSession, activity, now>>
  /\ Save(ok)

RevokeUserSessions(id, ok) ==
  /\ sessions' = RevokedFor(id)
  /\ UNCHANGED <<users, lastUser, lastSession, activity, now>>
  /\ Save(ok)

\* Mutant of PurgeExpiredSessions: only revoked rows are old enough.
PurgeRevokedSessions(ok) ==
  /\ sessions' = Only(sessions, {s \in DOMAIN sessions :
                                   ~sessions[s].revoked \/ sessions[s].expires > now - PurgeAge})
  /\ UNCHANGED <<users, lastUser, lastSession, activity, now>>
  /\ Save(ok)

\* The hourly goroutine of main: sessions that expired PurgeAge ago go.
PurgeExpiredSessions(ok) ==
  /\ sessions' = Only(sessions, {s \in DOMAIN sessions : sessions[s].expires > now - PurgeAge})
  /\ UNCHANGED <<users, lastUser, lastSession, activity, now>>
  /\ Save(ok)

\* The newest LogCap entries are kept; the outcome of the save is dropped.
LogActivity(entry, ok) ==
  /\ LET log == Append(activity, entry) IN
     activity' = IF Len(log) > LogCap
                 THEN SubSeq(log, Len(log) - LogCap + 1, Len(log))
                 ELSE log
  /\ UNCHANGED <<users, lastUser, sessions, lastSession, now>>
  /\ Save(ok)

-----------------------------------------------------------------------------
(* A process stop (crash, kill, or a shutdown past its 10 s) and the next  *)
(* start: OpenUserStore reads the file back, bootstrapAdmin adds the       *)
(* default account when the file has none.                                 *)
Restart(ok) ==
  /\ sessions' = disk.sessions
  /\ activity' = disk.activity
  /\ UNCHANGED <<lastSession, now>>
  /\ \/ /\ DOMAIN disk.users # {}
        /\ users' = disk.users
        /\ ok
        /\ UNCHANGED <<lastUser, disk, failures>>
     \/ /\ DOMAIN disk.users = {}
        /\ lastUser' = lastUser + 1
        /\ users' = [i \in {lastUser + 1} |-> DefaultAdmin]
        /\ Save(ok)

Tick ==
  /\ now < MaxTime
  /\ now' = now + 1
  /\ UNCHANGED <<memory, disk, failures>>

StoreInit ==
  /\ users = Roster
  /\ lastUser = Len(Roster)
  /\ sessions = [s \in {} |-> s]
  /\ lastSession = 0
  /\ activity = <<>>
  /\ disk = [users |-> users, sessions |-> sessions, activity |-> activity]
  /\ failures = 0
  /\ now = 1
=============================================================================
