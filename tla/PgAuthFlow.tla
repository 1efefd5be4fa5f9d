------------------------------ MODULE PgAuthFlow ------------------------------
(***************************************************************************)
(* The handlers of AuthFlow over the PostgreSQL user store.  A request is  *)
(* a slot that takes one step per SQL statement, together with the         *)
(* computation up to the next one, so the methods that need two or three   *)
(* statements (UpdateUser, CreateUser, DeleteUser, LogActivity) interleave *)
(* with each other.  A stop of the program leaves the tables as they are.  *)
(***************************************************************************)
EXTENDS PgUserStore, FiniteSets

CONSTANTS
  Req,            \* slots for requests in flight
  TTL,            \* config SessionTTL
  Bodies,         \* the requests clients send, besides logins
  UseApiKey,      \* is the legacy X-API-Key configured?
  DefaultAdmin,   \* the account bootstrapAdmin creates in an empty table
  MaxRequests     \* bound: requests sent

VARIABLES
  req,            \* the requests in flight
  held,           \* the tokens a login has answered with
  sent,           \* requests so far
  (* History, written and never read by the program. *)
  verified,       \* the hash each session's login verified, by session id
  chosen,         \* the hash last chosen for each account: by its creation,
                  \* by a password change or by a reset that ran
  overlapped,     \* accounts two updates of which overlapped, until a change
                  \* or reset that overlapped no other
  raced,          \* sessions created after their hash was replaced
  cutShort,       \* accounts whose password changed and whose revocation
                  \* was lost to an error or a restart
  gone            \* accounts whose deletion was answered with 200

history == <<verified, chosen, overlapped, raced, cutShort, gone>>
clients == <<held, sent>>
vars == <<storeVars, req, clients, history>>

Steps == {"idle", "load", "read", "write", "issue", "refind", "revoke", "reload",
          "revokeAll", "checkEmail", "insert", "checkUser", "condemn", "delete",
          "log", "trim"}

\* at: the statement the request sends next.  subj: the account worked on.
\* sess: the session made or revoked.  copy: the row UpdateUser patched.
Slot == [op: Ops \cup {None, "boot"}, at: Steps, subj: Nat, sess: Nat,
         token: Token \cup {None}, pw: Passwords \cup {None}, new: Passwords \cup {None},
         patch: Patch \cup {None}, copy: User \cup {None}]

ASSUME FlowAssumption ==
  /\ None \notin Ops \cup {"boot"} /\ IsFiniteSet(Req)
  /\ AdminRole \in Roles /\ DefaultRole \in Roles
  /\ FailLimit \in Nat \ {0} /\ LockTime \in Nat /\ TTL \in Nat
  /\ DefaultAdmin \in User
  /\ Bodies \subseteq Body
  /\ \A b \in Bodies : /\ b.op \in {"change", "reset", "create"} => b.new \in Passwords
                       /\ b.op \in {"update", "create"} => b.patch \in Patch
                       /\ b.op = "create" => b.patch.email \in Emails

Idle == [op |-> None, at |-> "idle", subj |-> 0, sess |-> 0, token |-> None,
         pw |-> None, new |-> None, patch |-> None, copy |-> None]

Goto(r, step) == req' = [req EXCEPT ![r].at = step]
Answer(r) == req' = [req EXCEPT ![r] = Idle]

\* On to the audit entry.  All that is still needed is a login's token.
Finish(r) ==
  req' = [req EXCEPT ![r] = [Idle EXCEPT !.at = "log", !.op = req[r].op,
                                         !.token = IF req[r].op = "login" THEN req[r].token
                                                                          ELSE None]]
InFlight(step) == {r \in Req : req[r].at = step}

\* bootstrapAdmin comes before the first request.
Serving == \A r \in Req : req[r].op # "boot"

\* A request arrives.
Arrives(r) ==
  /\ Serving /\ req[r].at = "idle"
  /\ sent < MaxRequests /\ sent' = sent + 1
  /\ UNCHANGED held

-----------------------------------------------------------------------------
(* UpdateUser: a SELECT, the patch function on the copy, an UPDATE.        *)

Replaces(op) == op \in {"change", "reset"}

\* The patch function of each handler.
Patching(u, slot) ==
  IF slot.op = "update" THEN Patched(u, slot.patch)
  ELSE IF Replaces(slot.op) THEN Rehashed(u, slot)
  ELSE IF slot.sess = 0 THEN Failed(u, now) ELSE Cleared(u)

\* The requests between the SELECT and the UPDATE on an account, but for r.
Updating(id, r) == {q \in Req \ {r} : req[q].at = "write" /\ req[q].subj = id}

\* Mutant of FailUpdate: a row that was not read is written all the same.
FailUpdateIgnored(r) == Goto(r, "write")

\* HandleLogin drops the error of UpdateUser; the others answer with it.
FailUpdate(r) == IF req[r].op = "login" THEN Finish(r) ELSE Answer(r)

ReadRow(r) ==
  LET id == req[r].subj IN
  /\ req[r].at = "read"
  /\ \/ /\ id \in DOMAIN users /\ UNCHANGED faults
        /\ IF req[r].op = "update" /\ req[r].patch.role = BadRole
           THEN Answer(r) /\ UNCHANGED overlapped
           ELSE /\ req' = [req EXCEPT ![r].at = "write",
                                      ![r].copy = Patching(users[id], req[r])]
                /\ overlapped' = IF Updating(id, r) = {} THEN overlapped
                                 ELSE overlapped \cup {id}
     \/ Misses(id \notin DOMAIN users) /\ FailUpdate(r) /\ UNCHANGED overlapped
  /\ UNCHANGED <<tables, now, clients, verified, chosen, raced, cutShort, gone>>

\* Mutant of WriteRow: the handlers answer without revoking the sessions.
WriteRowOnly(r, out) ==
  LET id == req[r].subj
      chose == Replaces(req[r].op) /\ Ran(out) /\ id \in DOMAIN users
  IN
  /\ req[r].at = "write"
  /\ UpdateRow(id, req[r].copy, out)
  /\ IF out = "done" THEN Finish(r) ELSE FailUpdate(r)
  /\ chosen' = IF chose THEN [chosen EXCEPT ![id] = req[r].new] ELSE chosen
  /\ overlapped' = IF chose /\ Updating(id, r) = {} THEN overlapped \ {id} ELSE overlapped
  /\ cutShort' = IF chose /\ out = "lost" THEN cutShort \cup {id} ELSE cutShort
  /\ UNCHANGED <<clients, verified, raced, gone>>

WriteRow(r, out) ==
  LET id == req[r].subj
      chose == Replaces(req[r].op) /\ Ran(out) /\ id \in DOMAIN users
  IN
  /\ req[r].at = "write"
  /\ UpdateRow(id, req[r].copy, out)
  /\ IF out # "done" THEN FailUpdate(r)
     ELSE IF Replaces(req[r].op)
     THEN req' = [req EXCEPT ![r].at = "revokeAll", ![r].copy = None]
     ELSE Finish(r)
  /\ chosen' = IF chose THEN [chosen EXCEPT ![id] = req[r].new] ELSE chosen
  /\ overlapped' = IF chose /\ Updating(id, r) = {} THEN overlapped \ {id} ELSE overlapped
  /\ cutShort' = IF chose /\ out = "lost" THEN cutShort \cup {id} ELSE cutShort
  /\ UNCHANGED <<clients, verified, raced, gone>>

-----------------------------------------------------------------------------
(* HandleLogin.                                                            *)

\* GetUserByEmail, and every decision taken on the row it returns.
LoginLookup(r, e, p) ==
  LET Login(u, step) == [Idle EXCEPT !.op = "login", !.subj = u, !.at = step]
      Proceed(slot) == req' = [req EXCEPT ![r] = slot]
  IN
  /\ Arrives(r)
  /\ \/ Misses(WithEmail(e) = {}) /\ Proceed(Login(0, "log"))
     \/ /\ UNCHANGED faults
        /\ \E id \in WithEmail(e) :
             LET u == users[id] IN
             \/ ~u.active /\ Proceed(Login(id, "log"))
             \/ u.active /\ u.lockedUntil > now /\ UNCHANGED req
             \/ /\ u.active /\ u.lockedUntil <= now /\ u.hash # p
                /\ Proceed(Login(id, "read"))
             \/ /\ u.active /\ u.lockedUntil <= now /\ u.hash = p
                /\ Proceed([Login(id, "issue") EXCEPT
                              !.pw = p,
                              !.token = [user |-> id, role |-> u.role, email |-> e, iat |-> 0]])
  /\ UNCHANGED <<tables, now, history>>

\* A login whose session was inserted goes on to UpdateUser.
IssueToken(r, out) ==
  LET id    == req[r].subj
      token == [req[r].token EXCEPT !.iat = now]
      s     == lastSession + 1
  IN
  /\ req[r].at = "issue"
  /\ CreateSession([user |-> id, token |-> token, expires |-> now + TTL,
                    revoked |-> FALSE], out)
  /\ IF Ran(out)
     THEN /\ verified' = Append(verified, req[r].pw)
          /\ raced' = IF users[id].hash = req[r].pw THEN raced ELSE raced \cup {s}
     ELSE UNCHANGED <<verified, raced>>
  /\ IF out = "done"
     THEN req' = [req EXCEPT ![r].at = "read", ![r].sess = s,
                             ![r].token = token, ![r].pw = None]
     ELSE Answer(r)
  /\ UNCHANGED <<clients, chosen, overlapped, cutShort, gone>>

-----------------------------------------------------------------------------
(* WithSessionAuth and the role guards.                                    *)

\* The handler's own checks before its first statement, and that statement.
Begin(r, slot, actor) ==
  LET refused == \/ slot.op = "me"
                 \/ slot.op = "delete" /\ actor = slot.subj
                 \/ slot.op = "create" /\ slot.patch.role = BadRole
      step == CASE slot.op = "logout" -> "refind"
                [] slot.op = "change" -> "reload"
                [] slot.op = "create" -> "checkEmail"
                [] slot.op = "delete" -> "checkUser"
                [] OTHER -> "read"
  IN req' = [req EXCEPT ![r] = IF refused THEN Idle ELSE [slot EXCEPT !.at = step]]

Arriving(b, target) ==
  [Idle EXCEPT !.op = b.op, !.pw = b.pw, !.new = b.new, !.patch = b.patch,
               !.subj = IF b.op \in AdminOps \ {"create"} THEN target ELSE 0]

\* The account an administrator's request names: any id given so far.
Targets(b) == {id \in 0..lastUser : id = 0 <=> b.op \notin AdminOps \ {"create"}}

\* Verify and FindSessionByTokenHash: a token that passes goes on to GetUser.
Authenticate(r, b, target, token) ==
  /\ Arrives(r)
  /\ \/ /\ now <= token.iat + TTL /\ LiveWith(token) # {}
        /\ req' = [req EXCEPT ![r] = [Arriving(b, target) EXCEPT !.at = "load",
                                                                 !.token = token]]
        /\ UNCHANGED faults
     \/ Misses(now > token.iat + TTL \/ LiveWith(token) = {}) /\ UNCHANGED req
  /\ UNCHANGED <<tables, now, history>>

\* GetUser on the claims' user id; its role is the one the guards look at.
LoadUser(r) ==
  LET id == req[r].token.user
      allowed == /\ id \in DOMAIN users /\ users[id].active
                 /\ req[r].op \in AdminOps => users[id].role = AdminRole
  IN
  /\ req[r].at = "load"
  /\ \/ allowed /\ UNCHANGED faults /\ Begin(r, req[r], id)
     \/ Misses(~allowed) /\ Answer(r)
  /\ UNCHANGED <<tables, now, clients, history>>

\* The API key skips the session: the synthetic administrator is no account.
\* Logout acts on the bearer token that came along, which nobody verified.
KeyRequest(r, b, target) ==
  /\ UseApiKey /\ b.op \in AdminOps \cup {"logout"}
  /\ Arrives(r)
  /\ \E token \in IF b.op = "logout" THEN held ELSE {None} :
       Begin(r, [Arriving(b, target) EXCEPT !.token = token], 0)
  /\ UNCHANGED <<storeVars, history>>

-----------------------------------------------------------------------------
(* HandleLogout: the token is looked up again.                             *)

LogoutFind(r) ==
  /\ req[r].at = "refind"
  /\ \/ Misses(LiveWith(req[r].token) = {}) /\ Answer(r)
     \/ /\ UNCHANGED faults
        /\ \E s \in LiveWith(req[r].token) :
             req' = [req EXCEPT ![r].at = "revoke", ![r].sess = s]
  /\ UNCHANGED <<tables, now, clients, history>>

\* The error of RevokeSession is dropped.
LogoutRevoke(r, out) ==
  /\ req[r].at = "revoke"
  /\ Revoke({req[r].sess}, out)
  /\ Finish(r)
  /\ UNCHANGED <<clients, history>>

-----------------------------------------------------------------------------
(* HandleChangeMyPassword and HandleResetUserPassword, around UpdateUser.  *)

\* The account is read again for its hash, and the current password checked.
ChangeReload(r) ==
  LET id == req[r].token.user
      matches == id \in DOMAIN users /\ users[id].hash = req[r].pw
  IN
  /\ req[r].at = "reload"
  /\ \/ /\ matches /\ UNCHANGED faults
        /\ req' = [req EXCEPT ![r].at = "read", ![r].subj = id,
                                ![r].token = None, ![r].pw = None]
     \/ Misses(~matches) /\ Answer(r)
  /\ UNCHANGED <<tables, now, clients, history>>

\* The error of RevokeUserSessions is dropped.
RevokeAll(r, out) ==
  LET id == req[r].subj IN
  /\ req[r].at = "revokeAll"
  /\ Revoke(Of(id), out)
  /\ Finish(r)
  /\ cutShort' = IF Ran(out) THEN cutShort \ {id} ELSE cutShort \cup {id}
  /\ UNCHANGED <<clients, verified, chosen, overlapped, raced, gone>>

-----------------------------------------------------------------------------
(* CreateUser and DeleteUser, for the administrator and for bootstrapAdmin.*)

CheckEmail(r) ==
  LET free == WithEmail(req[r].patch.email) = {} IN
  /\ req[r].at = "checkEmail"
  /\ \/ free /\ UNCHANGED faults /\ Goto(r, "insert")
     \/ Misses(~free) /\ Answer(r)
  /\ UNCHANGED <<tables, now, clients, history>>

Insert(r, out) ==
  /\ req[r].at = "insert"
  /\ InsertUser(NewUser(req[r]), out)
  /\ IF out = "done" /\ req[r].op # "boot" THEN Finish(r) ELSE Answer(r)
  /\ chosen' = IF Ran(out) THEN Append(chosen, req[r].new) ELSE chosen
  /\ UNCHANGED <<clients, verified, overlapped, raced, cutShort, gone>>

CheckUser(r) ==
  LET there == req[r].subj \in DOMAIN users IN
  /\ req[r].at = "checkUser"
  /\ \/ there /\ UNCHANGED faults /\ Goto(r, "condemn")
     \/ Misses(~there) /\ Answer(r)
  /\ UNCHANGED <<tables, now, clients, history>>

Condemn(r, out) ==
  /\ req[r].at = "condemn"
  /\ Revoke(Of(req[r].subj), out)
  /\ IF out = "done" THEN Goto(r, "delete") ELSE Answer(r)
  /\ UNCHANGED <<clients, history>>

\* A row that another request deleted meanwhile is no error.
Delete(r, out) ==
  LET id == req[r].subj IN
  /\ req[r].at = "delete"
  /\ DeleteRow(id, out)
  /\ IF out = "done" THEN Finish(r) ELSE Answer(r)
  /\ gone' = IF out = "done" THEN gone \cup {id} ELSE gone
  /\ UNCHANGED <<clients, verified, chosen, overlapped, raced, cutShort>>

-----------------------------------------------------------------------------
(* The last calls of a handler write its audit entry; then it answers.     *)

LogEntry(r, out) ==
  /\ req[r].at = "log"
  /\ InsertEntry(out)
  /\ Goto(r, "trim")
  /\ UNCHANGED <<clients, history>>

Trim(r, out) ==
  LET slot == req[r] IN
  /\ slot.at = "trim"
  /\ TrimLog(out)
  /\ Answer(r)
  /\ held' = IF slot.token = None THEN held ELSE held \cup {slot.token}
  /\ UNCHANGED <<sent, history>>

-----------------------------------------------------------------------------
(* The server around the requests.                                         *)

Purge(out) ==
  /\ PurgeExpiredSessions(out)
  /\ UNCHANGED <<req, clients, history>>

Clock ==
  /\ Tick
  /\ UNCHANGED <<req, clients, history>>

PendingRevoke(u) == \E r \in Req : req[r].at = "revokeAll" /\ req[r].subj = u

\* bootstrapAdmin, in the slot of a request.
Boot == [Idle EXCEPT !.op = "boot", !.at = "checkEmail", !.new = DefaultAdmin.hash,
                     !.patch = [email |-> DefaultAdmin.email, role |-> DefaultAdmin.role,
                                active |-> DefaultAdmin.active]]

\* A stop and the next start, counted as one error.  ListUsers returns an empty
\* list when its query fails, and bootstrapAdmin takes it for an empty table.
Crash ==
  /\ Fault
  /\ \/ DOMAIN users # {} /\ req' = [r \in Req |-> Idle]
     \/ \E b \in Req : req' = [r \in Req |-> IF r = b THEN Boot ELSE Idle]
  /\ cutShort' = cutShort \cup {u \in 1..lastUser : PendingRevoke(u)}
  /\ UNCHANGED <<tables, now, clients, verified, chosen, overlapped, raced, gone>>

Init ==
  /\ StoreInit
  /\ req = [r \in Req |-> Idle]
  /\ held = {} /\ sent = 0
  /\ verified = <<>>
  /\ chosen = [i \in DOMAIN Roster |-> Roster[i].hash]
  /\ overlapped = {} /\ raced = {} /\ cutShort = {} /\ gone = {}

\* A new request.
Start(r) ==
  \/ \E e \in Emails, p \in Passwords : LoginLookup(r, e, p)
  \/ \E b \in Bodies : \E target \in Targets(b), token \in held : Authenticate(r, b, target, token)
  \/ \E b \in Bodies : \E target \in Targets(b) : KeyRequest(r, b, target)

\* The next step of a request in flight.
Step(r) ==
  \/ LoadUser(r) \/ ReadRow(r) \/ LogoutFind(r) \/ ChangeReload(r)
  \/ CheckEmail(r) \/ CheckUser(r)
  \/ \E out \in Outs :
       \/ WriteRow(r, out) \/ IssueToken(r, out) \/ LogoutRevoke(r, out)
       \/ RevokeAll(r, out) \/ Insert(r, out) \/ Condemn(r, out) \/ Delete(r, out)
       \/ LogEntry(r, out) \/ Trim(r, out)

Next ==
  \/ \E r \in Req : Start(r) \/ Step(r)
  \/ \E out \in Outs : Purge(out)
  \/ Crash
  \/ Clock

Spec == Init /\ [][Next]_vars

-----------------------------------------------------------------------------
(* Properties.                                                             *)

\* The type invariant.  Only UpdateUser holds a copy of a row.
TypeOK ==
  /\ lastUser \in Nat /\ lastSession \in Nat /\ logged \in Nat
  /\ now \in Nat /\ faults \in Nat /\ sent \in Nat
  /\ users \in [DOMAIN users -> User] /\ DOMAIN users \subseteq 1..lastUser
  /\ sessions \in [DOMAIN sessions -> Session] /\ DOMAIN sessions \subseteq 1..lastSession
  /\ req \in [Req -> Slot] /\ held \subseteq Token
  /\ \A r \in Req : req[r].at = "write" => req[r].copy \in User
  /\ verified \in Seq(Passwords) /\ Len(verified) = lastSession
  /\ chosen \in Seq(Passwords) /\ Len(chosen) = lastUser
  /\ overlapped \subseteq 1..lastUser /\ raced \subseteq 1..lastSession
  /\ cutShort \subseteq 1..lastUser /\ gone \subseteq 1..lastUser

\* UpdateUser writes back every column of a row it read before, the password
\* hash included: a failed login or an edit that overlaps a password change
\* undoes it.  Where no two updates of an account overlapped, its password is
\* the one last chosen for it.
PasswordSticks == \A u \in DOMAIN users : users[u].hash = chosen[u] \/ u \in overlapped

\* The session still counts on the password it was opened with.
Backed(s) == users[sessions[s].user].hash = verified[s]

\* What a password change, a reset and a deletion guarantee about sessions, as
\* in AuthFlow: an unrevoked session is backed by its account's current
\* password, unless its login raced, the revocation is still to come or was
\* lost, or overlapping updates brought back an older password.
StaleSessionsAreCondemned ==
  \A s \in DOMAIN sessions :
    LET u == sessions[s].user IN
    \/ sessions[s].revoked
    \/ Backed(s)
    \/ s \in raced
    \/ PendingRevoke(u)
    \/ u \in cutShort
    \/ u \in overlapped

\* DeleteUser is three statements, and a login in flight may insert a session
\* between any two: none outlives the account all the same.
NoOrphans == \A s \in DOMAIN sessions : sessions[s].user \in DOMAIN users

\* CreateUser checks the email in one statement and inserts in another, and
\* updateUser does not check it at all: still an email names one account.
EmailsAreUnique == \A u, v \in DOMAIN users : users[u].email = users[v].email => u = v

\* A deletion answered with 200 is final: an update that read the row before
\* does not bring it back.
DeletionSticks == gone \cap DOMAIN users = {}

\* "capped to the last 10 000 entries" (README), but for the entries requests
\* are about to trim, and those of trims that an error or a stop prevented.
LogBounded ==
  logged <= LogCap + Cardinality(InFlight("trim")) + faults * Cardinality(Req)

\* What the documentation says, and the code does not do: failed logins are
\* tracked.  One whose UPDATE ran leaves the account with one failure more than
\* it found there, or with a later lock.
FailuresAreCounted ==
  [][\A r \in Req :
       LET slot == req[r] IN
       /\ slot.op = "login" /\ slot.sess = 0
       /\ slot.at = "write" /\ req'[r].at = "log" /\ faults' = faults
       /\ slot.subj \in DOMAIN users
       => \/ users'[slot.subj].failed > users[slot.subj].failed
          \/ users'[slot.subj].lockedUntil > users[slot.subj].lockedUntil]_vars
=============================================================================
