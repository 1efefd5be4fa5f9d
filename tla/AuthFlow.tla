------------------------------- MODULE AuthFlow -------------------------------
(***************************************************************************)
(* The HTTP handlers that authenticate and manage accounts                 *)
(* (internal/api/auth_handlers.go, auth_middleware.go and the user half of *)
(* admin_handlers.go) over the JSON user store.  A request runs in its own *)
(* goroutine and shares nothing with the others but the store, so it is a  *)
(* slot that takes one step per store call, together with the computation  *)
(* up to the next call.  Requests interleave between those steps.          *)
(***************************************************************************)
EXTENDS UserStore, FiniteSets

CONSTANTS
  Req,            \* slots for requests in flight
  TTL,            \* config SessionTTL
  Bodies,         \* the requests clients send, besides logins
  UseApiKey,      \* is the legacy X-API-Key configured?
  MaxUsers, MaxSessions, MaxCrashes    \* bounds

VARIABLES
  req,            \* the requests in flight
  held,           \* the tokens a login has answered with
  crashes,        \* restarts so far
  (* History, written and never read by the program. *)
  verified,       \* the hash each session's login verified, by session id
  raced,          \* sessions created after that hash was replaced or deleted
  cutShort,       \* accounts whose password changed and whose revocation
                  \* was lost to a failed save or a restart
  gone,           \* accounts whose deletion was answered with 200
  left,           \* sessions whose logout was answered with 200
  dropped,        \* sessions whose last logout dropped RevokeSession's error
  revived         \* those of them a restart found unrevoked in the file

logouts == <<left, dropped, revived>>
history == <<verified, raced, cutShort, gone, logouts>>
vars == <<storeVars, req, held, crashes, history>>

Steps == {"idle", "load", "failed", "issue", "welcome", "refind", "revoke",
          "reload", "setHash", "revokeAll", "audit"} \cup AdminOps

\* at: the store call the request makes next.  actor: CurrentUser, 0 for the
\* API key.  subj: the account worked on.  sess: the session made or revoked.
Slot == [op: Ops \cup {None}, at: Steps, actor: Nat, subj: Nat, sess: Nat,
         token: Token \cup {None}, pw: Passwords \cup {None},
         new: Passwords \cup {None}, patch: Patch \cup {None}]

Entry == [user: Nat, op: Ops, ok: BOOLEAN]

ASSUME FlowAssumption ==
  /\ None \notin Ops
  /\ AdminRole \in Roles /\ DefaultRole \in Roles
  /\ FailLimit \in Nat \ {0} /\ LockTime \in Nat /\ TTL \in Nat
  /\ DefaultAdmin.failed < FailLimit
  /\ \A i \in DOMAIN Roster : Roster[i].failed < FailLimit
  /\ Bodies \subseteq Body
  /\ \A b \in Bodies : /\ b.op \in {"change", "reset", "create"} => b.new \in Passwords
                       /\ b.op \in {"update", "create"} => b.patch \in Patch
                       /\ b.op = "create" => b.patch.email \in Emails

Idle == [op |-> None, at |-> "idle", actor |-> 0, subj |-> 0, sess |-> 0,
         token |-> None, pw |-> None, new |-> None, patch |-> None]

Goto(r, step) == req' = [req EXCEPT ![r].at = step]
Answer(r) == req' = [req EXCEPT ![r] = Idle]
InFlight(step) == {r \in Req : req[r].at = step}

-----------------------------------------------------------------------------
(* HandleLogin.                                                            *)

\* GetUserByEmail and every decision taken on the copy it returns.  The next
\* call comes after VerifyPassword, long enough for other requests to run.
LoginLookup(r, e, p) ==
  LET Login(u, step) == [Idle EXCEPT !.op = "login", !.subj = u, !.at = step]
      Proceed(slot) == req' = [req EXCEPT ![r] = slot]
  IN
  /\ req[r].at = "idle"
  /\ \/ WithEmail(e) = {} /\ Proceed(Login(0, "audit"))
     \/ \E id \in First(WithEmail(e)) :
          LET u == users[id] IN
          \/ ~u.active /\ Proceed(Login(id, "audit"))
          \/ u.active /\ u.lockedUntil > now /\ UNCHANGED req
          \/ /\ u.active /\ u.lockedUntil <= now /\ u.hash # p
             /\ Proceed(Login(id, "failed"))
          \/ /\ u.active /\ u.lockedUntil <= now /\ u.hash = p
             /\ lastSession + Cardinality(InFlight("issue")) < MaxSessions
             /\ Proceed([Login(id, "issue") EXCEPT
                           !.pw = p,
                           !.token = [user |-> id, role |-> u.role, email |-> e, iat |-> 0]])
  /\ UNCHANGED <<storeVars, held, crashes, history>>

LoginFailed(r, ok) ==
  LET id == req[r].subj IN
  /\ req[r].at = "failed"
  /\ \/ UpdateUser(id, Failed(users[id], now), ok)
     \/ id \notin DOMAIN users /\ ok /\ UNCHANGED storeVars
  /\ Goto(r, "audit")
  /\ UNCHANGED <<held, crashes, history>>

\* Claims are stamped with the second; the session row holds the token's hash.
IssueToken(r, ok) ==
  LET id    == req[r].subj
      token == [req[r].token EXCEPT !.iat = now]
      s     == lastSession + 1
  IN
  /\ req[r].at = "issue"
  /\ CreateSession([user |-> id, token |-> token, expires |-> now + TTL,
                    revoked |-> FALSE], ok)
  /\ verified' = Append(verified, req[r].pw)
  /\ raced' = IF id \in DOMAIN users /\ users[id].hash = req[r].pw
              THEN raced ELSE raced \cup {s}
  /\ IF ok
     THEN req' = [req EXCEPT ![r].at = "welcome", ![r].sess = s,
                             ![r].token = token, ![r].pw = None]
     ELSE Answer(r)
  /\ UNCHANGED <<held, crashes, cutShort, gone, logouts>>

LoginWelcome(r, ok) ==
  LET id == req[r].subj IN
  /\ req[r].at = "welcome"
  /\ \/ UpdateUser(id, Cleared(users[id]), ok)
     \/ id \notin DOMAIN users /\ ok /\ UNCHANGED storeVars
  /\ Goto(r, "audit")
  /\ UNCHANGED <<held, crashes, history>>

-----------------------------------------------------------------------------
(* WithSessionAuth and the role guards.                                    *)

\* The handler's own checks before its first store call, and that call.
Begin(r, slot) ==
  LET refused == \/ slot.op = "me"
                 \/ slot.op = "delete" /\ slot.actor = slot.subj
                 \/ slot.op = "create" /\ slot.patch.role = BadRole
      step == CASE slot.op = "logout" -> "refind"
                [] slot.op = "change" -> "reload"
                [] slot.op = "reset" -> "setHash"
                [] OTHER -> slot.op
  IN req' = [req EXCEPT ![r] = IF refused THEN Idle ELSE [slot EXCEPT !.at = step]]

Arriving(b, target) ==
  [Idle EXCEPT !.op = b.op, !.pw = b.pw, !.new = b.new, !.patch = b.patch,
               !.subj = IF b.op \in AdminOps \ {"create"} THEN target ELSE 0]

\* The account an administrator's request names: any id given so far.
Targets(b) == {id \in 0..lastUser : id = 0 <=> b.op \notin AdminOps \ {"create"}}

RoomFor(b) == b.op = "create" => lastUser + Cardinality(InFlight("create")
                                                \cup InFlight("load")) < MaxUsers

\* Verify and FindSessionByTokenHash: a token that passes goes on to GetUser.
Authenticate(r, b, target, token) ==
  /\ req[r].at = "idle" /\ RoomFor(b)
  /\ \/ /\ now <= token.iat + TTL /\ LiveWith(token) # {}
        /\ req' = [req EXCEPT ![r] = [Arriving(b, target) EXCEPT !.at = "load",
                                                                 !.token = token]]
     \/ /\ now > token.iat + TTL \/ LiveWith(token) = {}
        /\ UNCHANGED req
  /\ UNCHANGED <<storeVars, held, crashes, history>>

\* GetUser on the claims' user id; its role is the one the guards look at.
LoadUser(r) ==
  LET id == req[r].token.user
      allowed == /\ id \in DOMAIN users /\ users[id].active
                 /\ req[r].op \in AdminOps => users[id].role = AdminRole
  IN
  /\ req[r].at = "load"
  /\ IF allowed THEN Begin(r, [req[r] EXCEPT !.actor = id]) ELSE Answer(r)
  /\ UNCHANGED <<storeVars, held, crashes, history>>

\* The API key skips the session: the synthetic administrator is no account.
\* Logout acts on the bearer token that came along, which nobody verified.
KeyRequest(r, b, target) ==
  /\ UseApiKey /\ b.op \in AdminOps \cup {"logout"}
  /\ req[r].at = "idle" /\ RoomFor(b)
  /\ \E token \in IF b.op = "logout" THEN held ELSE {None} :
       Begin(r, [Arriving(b, target) EXCEPT !.token = token])
  /\ UNCHANGED <<storeVars, held, crashes, history>>

-----------------------------------------------------------------------------
(* HandleLogout.                                                           *)

\* Mutant of LogoutFind: the row found is never revoked.
LogoutFindOnly(r) ==
  LET rows == LiveWith(req[r].token) IN
  /\ req[r].at = "refind"
  /\ \/ rows = {} /\ Answer(r)
     \/ \E s \in First(rows) :
          req' = [req EXCEPT ![r].at = "audit", ![r].sess = s]
  /\ UNCHANGED <<storeVars, held, crashes, history>>

\* The token is looked up a second time: it may find another row, or none.
LogoutFind(r) ==
  LET rows == LiveWith(req[r].token) IN
  /\ req[r].at = "refind"
  /\ \/ rows = {} /\ Answer(r)
     \/ \E s \in First(rows) :
          req' = [req EXCEPT ![r].at = "revoke", ![r].sess = s]
  /\ UNCHANGED <<storeVars, held, crashes, history>>

\* The error of RevokeSession is dropped: the save's, or that it found no row.
LogoutRevoke(r, ok) ==
  LET s == req[r].sess IN
  /\ req[r].at = "revoke"
  /\ \/ /\ RevokeSession(s, ok)
        /\ dropped' = IF ok THEN dropped \ {s} ELSE dropped \cup {s}
     \/ /\ s \in DOMAIN sessions => sessions[s].revoked
        /\ ok /\ UNCHANGED storeVars
        /\ dropped' = dropped \cup {s}
  /\ revived' = revived \ {s}
  /\ Goto(r, "audit")
  /\ UNCHANGED <<held, crashes, verified, raced, cutShort, gone, left>>

-----------------------------------------------------------------------------
(* HandleChangeMyPassword and HandleResetUserPassword.                     *)

\* The account is read again for its hash, and the current password checked.
ChangeReload(r) ==
  LET id == req[r].actor IN
  /\ req[r].at = "reload"
  /\ IF id \in DOMAIN users /\ users[id].hash = req[r].pw
     THEN req' = [req EXCEPT ![r].at = "setHash", ![r].subj = id]
     ELSE Answer(r)
  /\ UNCHANGED <<storeVars, held, crashes, history>>

\* Mutant of SetHash: the handler answers without revoking the sessions.
SetHashOnly(r, ok) ==
  LET id == req[r].subj IN
  /\ req[r].at = "setHash"
  /\ \/ /\ UpdateUser(id, Rehashed(users[id], req[r]), ok)
        /\ IF ok THEN Goto(r, "audit") ELSE Answer(r)
        /\ cutShort' = IF ok THEN cutShort ELSE cutShort \cup {id}
     \/ /\ id \notin DOMAIN users /\ ok
        /\ Answer(r)
        /\ UNCHANGED <<storeVars, cutShort>>
  /\ UNCHANGED <<held, crashes, verified, raced, gone, logouts>>

SetHash(r, ok) ==
  LET id == req[r].subj IN
  /\ req[r].at = "setHash"
  /\ \/ /\ UpdateUser(id, Rehashed(users[id], req[r]), ok)
        /\ IF ok THEN Goto(r, "revokeAll") ELSE Answer(r)
        /\ cutShort' = IF ok THEN cutShort ELSE cutShort \cup {id}
     \/ /\ id \notin DOMAIN users /\ ok
        /\ Answer(r)
        /\ UNCHANGED <<storeVars, cutShort>>
  /\ UNCHANGED <<held, crashes, verified, raced, gone, logouts>>

\* The error of RevokeUserSessions is dropped.
RevokeAll(r, ok) ==
  /\ req[r].at = "revokeAll"
  /\ RevokeUserSessions(req[r].subj, ok)
  /\ Goto(r, "audit")
  /\ cutShort' = cutShort \ {req[r].subj}
  /\ UNCHANGED <<held, crashes, verified, raced, gone, logouts>>

-----------------------------------------------------------------------------
(* AdminHandler.createUser, updateUser, deleteUser.                        *)

AdminCreate(r, ok) ==
  LET u == NewUser(req[r]) IN
  /\ req[r].at = "create"
  /\ \/ /\ CreateUser(u, ok)
        /\ IF ok THEN Goto(r, "audit") ELSE Answer(r)
     \/ /\ WithEmail(u.email) # {} /\ ok
        /\ Answer(r)
        /\ UNCHANGED storeVars
  /\ UNCHANGED <<held, crashes, history>>

AdminUpdate(r, ok) ==
  LET id == req[r].subj
      u  == Patched(users[id], req[r].patch)
  IN
  /\ req[r].at = "update"
  /\ \/ /\ req[r].patch.role # BadRole
        /\ UpdateUser(id, u, ok)
        /\ IF ok THEN Goto(r, "audit") ELSE Answer(r)
     \/ /\ req[r].patch.role = BadRole /\ ok
        /\ UpdateUserRefused(id, u)
        /\ Answer(r)
     \/ /\ id \notin DOMAIN users /\ ok
        /\ Answer(r)
        /\ UNCHANGED storeVars
  /\ UNCHANGED <<held, crashes, history>>

AdminDelete(r, ok) ==
  LET id == req[r].subj IN
  /\ req[r].at = "delete"
  /\ \/ /\ DeleteUser(id, ok)
        /\ IF ok THEN Goto(r, "audit") ELSE Answer(r)
        /\ gone' = IF ok THEN gone \cup {id} ELSE gone
     \/ /\ id \notin DOMAIN users /\ ok
        /\ Answer(r)
        /\ UNCHANGED <<storeVars, gone>>
  /\ UNCHANGED <<held, crashes, verified, raced, cutShort, logouts>>

-----------------------------------------------------------------------------
(* The last store call of a handler is its audit entry; then it answers.   *)
Audit(r, ok) ==
  LET slot == req[r] IN
  /\ slot.at = "audit"
  /\ LogActivity([user |-> IF slot.op = "login" THEN slot.subj ELSE slot.actor,
                  op |-> slot.op, ok |-> slot.op # "login" \/ slot.sess # 0], ok)
  /\ Answer(r)
  /\ held' = IF slot.op = "login" /\ slot.sess # 0 THEN held \cup {slot.token} ELSE held
  /\ left' = IF slot.op = "logout" THEN left \cup {slot.sess} ELSE left
  /\ UNCHANGED <<crashes, verified, raced, cutShort, gone, dropped, revived>>

-----------------------------------------------------------------------------
(* The server around the requests.                                         *)

Purge(ok) ==
  /\ PurgeExpiredSessions(ok)
  /\ UNCHANGED <<req, held, crashes, history>>

Clock ==
  /\ Tick
  /\ UNCHANGED <<req, held, crashes, history>>

PendingRevoke(u) == \E r \in Req : req[r].at = "revokeAll" /\ req[r].subj = u

\* The file has a row unrevoked that memory had revoked or removed.
Undone(s) ==
  /\ ~disk.sessions[s].revoked
  /\ s \notin DOMAIN sessions \/ sessions[s].revoked

\* Memory had replaced u's password, deleted u or revoked a session of u, and
\* the file does not know.
Unsaved(u) ==
  \/ (u \in DOMAIN users) # (u \in DOMAIN disk.users)
  \/ u \in DOMAIN users /\ u \in DOMAIN disk.users /\ users[u].hash # disk.users[u].hash
  \/ \E s \in DOMAIN disk.sessions :
       disk.sessions[s].user = u /\ Undone(s)

\* Requests in flight die with the process.
Crash(ok) ==
  /\ crashes < MaxCrashes
  /\ crashes' = crashes + 1
  /\ Restart(ok)
  /\ req' = [r \in Req |-> Idle]
  /\ cutShort' = cutShort \cup {u \in 1..lastUser : PendingRevoke(u) \/ Unsaved(u)}
  /\ revived' = revived \cup {s \in dropped \cap DOMAIN disk.sessions : Undone(s)}
  /\ UNCHANGED <<held, verified, raced, gone, left, dropped>>

Init ==
  /\ StoreInit
  /\ req = [r \in Req |-> Idle]
  /\ held = {}
  /\ crashes = 0
  /\ verified = <<>>
  /\ raced = {} /\ cutShort = {} /\ gone = {}
  /\ left = {} /\ dropped = {} /\ revived = {}

\* A new request.
Start(r) ==
  \/ \E e \in Emails, p \in Passwords : LoginLookup(r, e, p)
  \/ \E b \in Bodies : \E target \in Targets(b), token \in held : Authenticate(r, b, target, token)
  \/ \E b \in Bodies : \E target \in Targets(b) : KeyRequest(r, b, target)

\* The next step of a request in flight.
Step(r) ==
  \/ LoadUser(r) \/ LogoutFind(r) \/ ChangeReload(r)
  \/ \E ok \in BOOLEAN :
       \/ LoginFailed(r, ok) \/ IssueToken(r, ok) \/ LoginWelcome(r, ok)
       \/ LogoutRevoke(r, ok)
       \/ SetHash(r, ok) \/ RevokeAll(r, ok)
       \/ AdminCreate(r, ok) \/ AdminUpdate(r, ok) \/ AdminDelete(r, ok)
       \/ Audit(r, ok)

Next ==
  \/ \E r \in Req : Start(r) \/ Step(r)
  \/ \E ok \in BOOLEAN : Purge(ok) \/ Crash(ok)
  \/ Clock

Spec == Init /\ [][Next]_vars

\* A handler that has started runs to its answer, the purge goroutine keeps
\* running, and time passes.  Nobody has to send a request.
FairSpec ==
  /\ Spec
  /\ \A r \in Req : WF_vars(Step(r))
  /\ WF_vars(\E ok \in BOOLEAN : Purge(ok))
  /\ WF_vars(Clock)
-----------------------------------------------------------------------------
(* Properties.                                                             *)

\* The type invariant.  The failure counter never shows the limit itself:
\* the failure that reaches it turns into a lock.
TypeOK ==
  /\ lastUser \in Nat /\ lastSession \in Nat
  /\ now \in Nat /\ failures \in Nat /\ crashes \in Nat
  /\ IsUsers(users) /\ IsSessions(sessions) /\ activity \in Seq(Entry)
  /\ disk = [users |-> disk.users, sessions |-> disk.sessions, activity |-> disk.activity]
  /\ IsUsers(disk.users) /\ IsSessions(disk.sessions) /\ disk.activity \in Seq(Entry)
  /\ \A u \in DOMAIN users : users[u].failed < FailLimit
  /\ req \in [Req -> Slot] /\ held \subseteq Token
  /\ verified \in Seq(Passwords) /\ Len(verified) = lastSession
  /\ raced \subseteq 1..lastSession /\ cutShort \subseteq 1..lastUser
  /\ gone \subseteq 1..lastUser /\ left \subseteq 1..lastSession
  /\ dropped \subseteq 1..lastSession /\ revived \subseteq dropped

\* The session still counts on an account that exists with the password the
\* session was opened with.
Backed(s) ==
  LET u == sessions[s].user IN u \in DOMAIN users /\ users[u].hash = verified[s]

\* An unrevoked session is backed by its account's current password, unless
\* its login raced with the password's replacement (or the deletion), the
\* handler that replaced the password is about to revoke it, or a failed save
\* or restart cut that handler short.  This is all a password change, a reset
\* and a deletion guarantee about the sessions they leave behind.
StaleSessionsAreCondemned ==
  \A s \in DOMAIN sessions :
    \/ sessions[s].revoked
    \/ Backed(s)
    \/ s \in raced
    \/ PendingRevoke(sessions[s].user)
    \/ sessions[s].user \in cutShort

\* A deletion answered with 200 is final: the account is not in memory again,
\* not after any restart either, whatever saves failed later.
DeletionSticks == \A u \in gone : u \notin DOMAIN users /\ u \notin DOMAIN disk.users

\* A session row whose logout was answered with 200 is not usable again.  The
\* one exception is the error that HandleLogout drops: a row whose revocation
\* its logout did not save is back if a restart finds it so in the file, and
\* only then, whatever other saves failed.
LogoutSticks ==
  \A s \in left : s \in DOMAIN sessions => sessions[s].revoked \/ s \in revived

\* Every stale session that did not race is revoked in the end (with no
\* failed save and no restart): the handler that condemned it gets there.
StaleSessionsDie ==
  \A s \in 1..MaxSessions :
    (s \in DOMAIN sessions /\ ~Backed(s) /\ s \notin raced)
      ~> (s \notin DOMAIN sessions \/ sessions[s].revoked)

\* The purge goroutine removes a session that expired PurgeAge ago.
ExpiredSessionsGo ==
  \A s \in 1..MaxSessions :
    (s \in DOMAIN sessions /\ sessions[s].expires <= now - PurgeAge)
      ~> s \notin DOMAIN sessions

\* What the documentation says, and the code does not do.

\* A token is dead once a logout with it was answered.
LoggedOutTokensAreDead ==
  \A s \in left : s \in DOMAIN sessions => LiveWith(sessions[s].token) = {}

\* A password change leaves no session of the old password.
PasswordChangeRevokes ==
  \A s \in DOMAIN sessions :
    sessions[s].revoked \/ Backed(s) \/ PendingRevoke(sessions[s].user)

\* An email names one account.
EmailsAreUnique == \A u, v \in DOMAIN users : users[u].email = users[v].email => u = v

=============================================================================
