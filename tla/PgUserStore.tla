----------------------------- MODULE PgUserStore -----------------------------
(***************************************************************************)
(* The PostgreSQL user store (internal/database/users_postgres.go): the    *)
(* tables users, sessions and activity_log.  It has no lock and opens no   *)
(* transaction: a method is a sequence of statements, and what holds       *)
(* between two of them is only what the schema enforces.  So a statement   *)
(* is one step here, whose parameter out tells how it went:                *)
(*   done     it ran;                                                      *)
(*   lost     it ran, but the connection broke and the caller sees an      *)
(*            error;                                                       *)
(*   refused  it did not run: the schema forbids it, or the connection     *)
(*            broke before.                                                *)
(*                                                                         *)
(* Data as in UserStore: ids are numbers given in increasing order, hashes *)
(* are what they hash.  Of activity_log only the number of rows is kept.   *)
(***************************************************************************)
EXTENDS Accounts, Sequences

CONSTANTS
  PurgeAge,       \* 30 days
  LogCap,         \* 10000 activity entries
  Roster,         \* the accounts of the table when the program starts
  MaxFaults,      \* bound: errors of the connection
  MaxTime         \* bound: the clock

VARIABLES
  users,          \* id -> account
  lastUser,       \* the last id given to an account
  sessions,       \* id -> session
  lastSession,    \* the last id given to a session
  logged,         \* rows of activity_log
  faults,         \* errors of the connection so far
  now             \* time.Now(), in seconds

tables == <<users, lastUser, sessions, lastSession, logged>>
storeVars == <<tables, faults, now>>

Outs == {"done", "lost", "refused"}

ASSUME StoreAssumption ==
  /\ Keep \notin Emails /\ Keep \notin Roles /\ Keep \notin BOOLEAN
  /\ BadRole \notin Roles /\ BadRole # Keep
  /\ PurgeAge \in Nat /\ LogCap \in Nat
  /\ Roster \in Seq(User)
  /\ \A i, j \in DOMAIN Roster : Roster[i].email = Roster[j].email => i = j

-----------------------------------------------------------------------------
(* The connection.                                                         *)

Fault == faults < MaxFaults /\ faults' = faults + 1

Ran(out) == out # "refused"

\* What may become of a statement the schema allows, or forbids.
Outcome(legal, out) ==
  \/ legal /\ out = "done" /\ UNCHANGED faults
  \/ legal /\ out \in {"lost", "refused"} /\ Fault
  \/ ~legal /\ out = "refused" /\ UNCHANGED faults

\* A query finds nothing, because there is nothing or because it fails: the
\* handlers answer the two alike.
Misses(nothing) == (nothing /\ UNCHANGED faults) \/ Fault

-----------------------------------------------------------------------------
(* users.                                                                  *)

WithEmail(e) == {i \in DOMAIN users : users[i].email = e}

\* Mutant of Free: users.email is not declared UNIQUE.
AlwaysFree(e, id) == TRUE

\* UNIQUE (email): no row but id's has it.
Free(e, id) == WithEmail(e) \subseteq {id}

\* The INSERT of CreateUser.
InsertUser(u, out) ==
  /\ Outcome(Free(u.email, lastUser + 1), out)
  /\ IF Ran(out)
     THEN users' = Put(users, lastUser + 1, u) /\ lastUser' = lastUser + 1
     ELSE UNCHANGED <<users, lastUser>>
  /\ UNCHANGED <<sessions, lastSession, logged, now>>

\* Mutant of UpdateRow: INSERT ... ON CONFLICT DO UPDATE.
UpsertRow(id, u, out) ==
  /\ Outcome(Free(u.email, id), out)
  /\ users' = IF Ran(out) THEN Put(users, id, u) ELSE users
  /\ UNCHANGED <<lastUser, sessions, lastSession, logged, now>>

\* The UPDATE of UpdateUser writes every column of the row, from the copy the
\* caller patched.  No such row is no error.
UpdateRow(id, u, out) ==
  /\ Outcome(id \notin DOMAIN users \/ Free(u.email, id), out)
  /\ users' = IF Ran(out) /\ id \in DOMAIN users THEN [users EXCEPT ![id] = u] ELSE users
  /\ UNCHANGED <<lastUser, sessions, lastSession, logged, now>>

\* Mutant of DeleteRow: sessions.user_id is declared without CASCADE.
DeleteRowOnly(id, out) ==
  /\ Outcome(TRUE, out)
  /\ users' = IF Ran(out) THEN Only(users, DOMAIN users \ {id}) ELSE users
  /\ UNCHANGED <<lastUser, sessions, lastSession, logged, now>>

\* The DELETE of DeleteUser: ON DELETE CASCADE takes the sessions along.
DeleteRow(id, out) ==
  /\ Outcome(TRUE, out)
  /\ IF Ran(out)
     THEN /\ users' = Only(users, DOMAIN users \ {id})
          /\ sessions' = Only(sessions, {s \in DOMAIN sessions : sessions[s].user # id})
     ELSE UNCHANGED <<users, sessions>>
  /\ UNCHANGED <<lastUser, lastSession, logged, now>>

-----------------------------------------------------------------------------
(* sessions.                                                               *)

\* FindSessionByTokenHash: any of these rows, for the query has no order.
LiveWith(token) ==
  {s \in DOMAIN sessions : /\ sessions[s].token = token
                           /\ ~sessions[s].revoked /\ sessions[s].expires > now}

\* The foreign key refuses a session of an account that is gone.
CreateSession(sess, out) ==
  /\ Outcome(sess.user \in DOMAIN users, out)
  /\ IF Ran(out)
     THEN sessions' = Put(sessions, lastSession + 1, sess) /\ lastSession' = lastSession + 1
     ELSE UNCHANGED <<sessions, lastSession>>
  /\ UNCHANGED <<users, lastUser, logged, now>>

\* Sessions with the rows of ids revoked.
Revoked(ids) == [s \in DOMAIN sessions |-> [sessions[s] EXCEPT !.revoked = @ \/ s \in ids]]
Of(id) == {s \in DOMAIN sessions : sessions[s].user = id}

\* RevokeSession and RevokeUserSessions: one UPDATE each, of these rows.
Revoke(ids, out) ==
  /\ Outcome(TRUE, out)
  /\ sessions' = IF Ran(out) THEN Revoked(ids) ELSE sessions
  /\ UNCHANGED <<users, lastUser, lastSession, logged, now>>

PurgeExpiredSessions(out) ==
  /\ Outcome(TRUE, out)
  /\ sessions' = IF Ran(out)
                 THEN Only(sessions, {s \in DOMAIN sessions :
                                        sessions[s].expires >= now - PurgeAge})
                 ELSE sessions
  /\ UNCHANGED <<users, lastUser, lastSession, logged, now>>

-----------------------------------------------------------------------------
(* activity_log: LogActivity is two statements, and drops both errors.     *)

InsertEntry(out) ==
  /\ Outcome(TRUE, out)
  /\ logged' = IF Ran(out) THEN logged + 1 ELSE logged
  /\ UNCHANGED <<users, lastUser, sessions, lastSession, now>>

\* Mutant of TrimLog: a log of one entry too many is left alone.
TrimLate(out) ==
  /\ Outcome(TRUE, out)
  /\ logged' = IF Ran(out) /\ logged > LogCap + 1 THEN LogCap ELSE logged
  /\ UNCHANGED <<users, lastUser, sessions, lastSession, now>>

\* All but the newest LogCap rows are deleted.
TrimLog(out) ==
  /\ Outcome(TRUE, out)
  /\ logged' = IF Ran(out) /\ logged > LogCap THEN LogCap ELSE logged
  /\ UNCHANGED <<users, lastUser, sessions, lastSession, now>>

-----------------------------------------------------------------------------
Tick ==
  /\ now < MaxTime
  /\ now' = now + 1
  /\ UNCHANGED <<tables, faults>>

StoreInit ==
  /\ users = Roster
  /\ lastUser = Len(Roster)
  /\ sessions = [s \in {} |-> s]
  /\ lastSession = 0
  /\ logged = 0
  /\ faults = 0
  /\ now = 1
=============================================================================
