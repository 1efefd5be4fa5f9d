---------------------------- MODULE AuthFlowProofs ----------------------------
(***************************************************************************)
(* The safety properties of AuthFlow for any number of requests, accounts, *)
(* sessions, failed saves and restarts: one inductive invariant, proved    *)
(* conjunct by conjunct.                                                   *)
(***************************************************************************)
EXTENDS AuthFlow, UserStoreProofs

(* The inductive invariant.                                                *)

\* The steps a request of each kind goes through.
Reaches(s) ==
  \/ s.op = None /\ s.at = "idle"
  \/ s.op = "login" /\ s.at \in {"failed", "issue", "welcome", "audit"}
  \/ s.op = "me" /\ s.at = "load"
  \/ s.op = "logout" /\ s.at \in {"load", "refind", "revoke", "audit"}
  \/ s.op = "change" /\ s.at \in {"load", "reload", "setHash", "revokeAll", "audit"}
  \/ s.op = "reset" /\ s.at \in {"load", "setHash", "revokeAll", "audit"}
  \/ s.op \in {"create", "update", "delete"} /\ s.at \in {"load", s.op, "audit"}

\* The data a step finds in its slot.
Carries(s) ==
  /\ s.op \in {"change", "reset", "create"} => s.new \in Passwords
  /\ s.op \in {"create", "update"} => s.patch \in Patch
  /\ s.op = "create" => s.patch.email \in Emails
  /\ s.at = "create" => s.patch.role # BadRole
  /\ s.at \in {"load", "refind", "issue"} => s.token \in Token
  /\ s.at = "issue" => s.pw \in Passwords /\ s.subj \in 1..lastUser
  /\ s.op = "login" /\ s.sess # 0 => s.token \in Token
  /\ s.op = "logout" /\ s.at \in {"revoke", "audit"} => s.sess \in 1..lastSession

Slots == /\ req \in [Req -> Slot]
         /\ \A r \in Req : Reaches(req[r]) /\ Carries(req[r])

Logs == activity \in Seq(Entry) /\ disk.activity \in Seq(Entry)

\* A failure counter below the limit, in memory and in the file.
Below(f) == \A u \in DOMAIN f : f[u].failed < FailLimit

Books == /\ crashes \in Nat /\ held \subseteq Token
         /\ verified \in Seq(Passwords) /\ Len(verified) = lastSession
         /\ raced \subseteq 1..lastSession /\ cutShort \subseteq 1..lastUser
         /\ gone \subseteq 1..lastUser /\ left \subseteq 1..lastSession
         /\ dropped \subseteq 1..lastSession /\ revived \subseteq dropped

\* A session row that no request can use, and one no restart can bring back.
Shut(s) == s \in DOMAIN sessions => sessions[s].revoked
ShutOnDisk(s) == s \in DOMAIN disk.sessions => disk.sessions[s].revoked

\* A logout has shut the row, but for what the error it dropped cost.
Closed(s) == /\ Shut(s) \/ s \in revived
             /\ ShutOnDisk(s) \/ s \in dropped

Leaving == {r \in Req : req[r].op = "logout" /\ req[r].at = "audit"}

\* What makes a logout stick: the row was closed before the handler's last step.
LogoutInv == /\ \A s \in left : Closed(s)
             /\ \A r \in Leaving : Closed(req[r].sess)

IInv == /\ StoreInv /\ Slots /\ Logs /\ Books
        /\ Below(users) /\ Below(disk.users)
        /\ DeletionSticks /\ LogoutInv /\ StaleSessionsAreCondemned

LEMMA InvariantImplies ==
  ASSUME IInv
  PROVE  TypeOK /\ DeletionSticks /\ LogoutSticks /\ StaleSessionsAreCondemned
BY DEF IInv, TypeOK, StoreInv, Counters, Tables, Slots, Logs, Books, Below,
       LogoutInv, LogoutSticks, Closed, Shut

-----------------------------------------------------------------------------
(* Requests.                                                               *)

LEMMA IdleSlot == ASSUME FlowAssumption PROVE Idle \in Slot /\ Reaches(Idle) /\ Carries(Idle)
BY DEF FlowAssumption, Idle, Slot, Steps, Ops, AdminOps, Reaches, Carries

\* A step that writes one slot.
LEMMA OneSlot ==
  ASSUME StoreInv, Slots, NEW r \in Req, NEW n \in Slot, Reaches(n), Carries(n)',
         req' = [req EXCEPT ![r] = n],
         lastUser' \in Nat, lastUser <= lastUser',
         lastSession' \in Nat, lastSession <= lastSession'
  PROVE  Slots'
<1>1. 1..lastUser \subseteq 1..lastUser' /\ 1..lastSession \subseteq 1..lastSession'
  BY DEF StoreInv, Counters
<1>2. req' \in [Req -> Slot] /\ req'[r] = n /\ \A q \in Req \ {r} : req'[q] = req[q]
  BY DEF Slots
<1>3. ASSUME NEW q \in Req  PROVE Reaches(req[q])' /\ Carries(req[q])'
  <2>1. CASE q = r  BY <1>2, <2>1 DEF Reaches, Carries
  <2>2. CASE q # r
    <3>1. Reaches(req[q]) /\ Carries(req[q])  BY DEF Slots
    <3>2. req'[q] = req[q]  BY <1>2, <2>2
    <3> QED  BY <1>1, <3>1, <3>2 DEF Reaches, Carries
  <2> QED  BY <2>1, <2>2
<1> QED  BY <1>2, <1>3 DEF Slots

Grows == /\ lastUser' \in Nat /\ lastUser <= lastUser'
         /\ lastSession' \in Nat /\ lastSession <= lastSession'

LEMMA AnswerSlots ==
  ASSUME FlowAssumption, StoreInv, Slots, NEW r \in Req, Answer(r), Grows
  PROVE  Slots'
<1>1. Idle \in Slot /\ Reaches(Idle) /\ Carries(Idle)'
  <2>1. Idle \in Slot /\ Reaches(Idle)  BY IdleSlot
  <2>2. Carries(Idle)'  BY DEF FlowAssumption, Carries, Idle, Ops, AdminOps
  <2> QED  BY <2>1, <2>2
<1>2. req' = [req EXCEPT ![r] = Idle]  BY DEF Answer
<1> QED  BY <1>1, <1>2, OneSlot DEF Grows

LEMMA AuditReached ==
  ASSUME FlowAssumption, NEW s, NEW n, n.op = s.op, n.at = "audit", Reaches(s),
         s.at \in {"failed", "welcome", "revoke", "revokeAll", "create", "update", "delete"}
  PROVE  Reaches(n) /\ (n.op = "logout" => s.at = "revoke")
<1>1. None \notin Ops  BY DEF FlowAssumption
<1>2. CASE s.op = "login"  BY <1>2 DEF Reaches
<1>3. CASE s.op = "logout"  BY <1>1, <1>3 DEF Reaches, Ops
<1>4. CASE s.op \in {"change", "reset"}  BY <1>1, <1>4 DEF Reaches, Ops, AdminOps
<1>5. CASE s.op \in {"create", "update", "delete"}  BY <1>5 DEF Reaches
<1>6. s.op \in {"login", "logout", "change", "reset", "create", "update", "delete"}
  BY DEF Reaches
<1> QED  BY <1>2, <1>3, <1>4, <1>5, <1>6

LEMMA RevokeAllReached ==
  ASSUME NEW s, NEW n, n.op = s.op, n.at = "revokeAll", Reaches(s), s.at = "setHash"
  PROVE  Reaches(n) /\ n.op \in {"change", "reset"}
BY DEF Reaches

\* Moving to the audit entry, or from a new password to the revocation.
LEMMA GotoSlots ==
  ASSUME FlowAssumption, StoreInv, Slots, NEW r \in Req, NEW step, Goto(r, step), Grows,
         \/ /\ step = "audit"
            /\ req[r].at \in {"failed", "welcome", "revoke", "revokeAll",
                              "create", "update", "delete"}
         \/ step = "revokeAll" /\ req[r].at = "setHash"
  PROVE  Slots'
<1>1. PICK old \in Slot : old = req[r]  BY DEF Slots
<1>2. Reaches(old) /\ Carries(old) /\ step \in Steps  BY <1>1 DEF Slots, Steps
<1>3. PICK n \in Slot : n = [old EXCEPT !.at = step]  BY <1>1, <1>2 DEF Slot
<1>4. /\ n.op = old.op /\ n.at = step /\ n.new = old.new /\ n.patch = old.patch
      /\ n.token = old.token /\ n.pw = old.pw /\ n.subj = old.subj /\ n.sess = old.sess
  BY <1>1, <1>3 DEF Slot
<1>0. req' = [req EXCEPT ![r] = n]  BY <1>1, <1>3 DEF Goto
<1>5. Reaches(old) /\ n.op = old.op  BY <1>2, <1>4
<1>6. CASE step = "audit" /\ old.at \in {"failed", "welcome", "revoke", "revokeAll",
                                       "create", "update", "delete"}
  <2>0. n.at = "audit"  BY <1>4, <1>6
  <2>1. Reaches(n)  BY <1>5, <1>6, <2>0, AuditReached
  <2>2. n.op = "logout" => old.at = "revoke"  BY <1>5, <1>6, <2>0, AuditReached
  <2>3. Carries(n)
    BY <1>2, <1>4, <1>6, <2>2 DEF Carries
  <2>4. 1..lastUser \subseteq 1..lastUser' /\ 1..lastSession \subseteq 1..lastSession'
    BY DEF Grows, StoreInv, Counters
  <2>5. Carries(n)'  BY <2>3, <2>4, <1>4, <1>6 DEF Carries
  <2> QED  BY <1>0, <2>1, <2>5, OneSlot DEF Grows
<1>7. CASE step = "revokeAll" /\ old.at = "setHash"
  <2>0. n.at = "revokeAll"  BY <1>4, <1>7
  <2>1. Reaches(n)  BY <1>5, <1>7, <2>0, RevokeAllReached
  <2>2. n.op \in {"change", "reset"}  BY <1>5, <1>7, <2>0, RevokeAllReached
  <2>3. Carries(n)'
    BY <1>2, <1>4, <1>7, <2>2 DEF Carries
  <2> QED  BY <1>0, <2>1, <2>3, OneSlot DEF Grows
<1> QED  BY <1>1, <1>6, <1>7

LEMMA SlotWritten ==
  ASSUME StoreInv, Slots, Grows, NEW r \in Req, NEW n \in Slot, Reaches(n), Carries(n),
         req' = [req EXCEPT ![r] = n]
  PROVE  Slots'
<1>1. 1..lastUser \subseteq 1..lastUser' /\ 1..lastSession \subseteq 1..lastSession'
  BY DEF StoreInv, Counters, Grows
<1>2. Carries(n)'  BY <1>1 DEF Carries
<1> QED  BY <1>2, OneSlot DEF Grows

\* The steps that only read the store.
Quiet == UNCHANGED <<storeVars, held, crashes, history>>

LEMMA QuietGrows == ASSUME StoreInv, UNCHANGED storeVars PROVE Grows
BY DEF storeVars, memory, StoreInv, Counters, Grows

LEMMA SlotsUnchanged ==
  ASSUME Slots, UNCHANGED req, UNCHANGED storeVars
  PROVE  Slots'
<1>1. UNCHANGED <<lastUser, lastSession>>  BY DEF storeVars, memory
<1>2. ASSUME NEW r \in Req  PROVE Reaches(req[r])' /\ Carries(req[r])'
  <2>1. Reaches(req[r]) /\ Carries(req[r])  BY DEF Slots
  <2> QED  BY <1>1, <2>1 DEF Reaches, Carries
<1> QED  BY <1>2 DEF Slots

LEMMA LoginLookupSlots ==
  ASSUME FlowAssumption, StoreInv, Slots, NEW r \in Req, NEW e \in Emails, NEW p \in Passwords,
         LoginLookup(r, e, p)
  PROVE  Slots'
<1>1. Grows  BY QuietGrows DEF LoginLookup
<1> DEFINE Login(u, step) == [Idle EXCEPT !.op = "login", !.subj = u, !.at = step]
<1>2. \A u \in Nat, step \in {"audit", "failed", "issue"} :
        /\ Login(u, step) \in Slot
        /\ Login(u, step).op = "login" /\ Login(u, step).at = step
        /\ Login(u, step).sess = 0 /\ Login(u, step).subj = u
  BY DEF Idle, Slot, Ops, Steps, AdminOps
<1>3. ASSUME NEW n \in Slot, n.op = "login", n.at \in {"audit", "failed"}, n.sess = 0,
             req' = [req EXCEPT ![r] = n]
      PROVE  Slots'
  <2>1. Reaches(n) /\ Carries(n)  BY <1>3 DEF Reaches, Carries
  <2> QED  BY <1>1, <1>3, <2>1, SlotWritten
<1>4. CASE UNCHANGED req
  BY <1>4, SlotsUnchanged DEF LoginLookup
<1>5. CASE req' = [req EXCEPT ![r] = Login(0, "audit")]
  <2>1. PICK n \in Slot : n = Login(0, "audit")  BY <1>2
  <2>2. n.op = "login" /\ n.at = "audit" /\ n.sess = 0  BY <2>1 DEF Idle
  <2>3. req' = [req EXCEPT ![r] = n]  BY <1>5, <2>1
  <2> QED  BY <1>3, <2>2, <2>3
<1>6. ASSUME NEW id \in First(WithEmail(e)), NEW step \in {"audit", "failed"},
             req' = [req EXCEPT ![r] = Login(id, step)]
      PROVE  Slots'
  <2>1. id \in Nat
    BY DEF First, WithEmail, StoreInv, Tables, IsUsers
  <2>2. PICK n \in Slot : n = Login(id, step)  BY <1>2, <2>1
  <2>3. n.op = "login" /\ n.at \in {"audit", "failed"} /\ n.sess = 0
    BY <2>1, <2>2 DEF Idle
  <2>4. req' = [req EXCEPT ![r] = n]  BY <1>6, <2>2
  <2> QED  BY <1>3, <2>3, <2>4
<1>7. ASSUME NEW id \in First(WithEmail(e)),
             req' = [req EXCEPT ![r] =
                       [Login(id, "issue") EXCEPT
                          !.pw = p,
                          !.token = [user |-> id, role |-> users[id].role, email |-> e, iat |-> 0]]]
      PROVE  Slots'
  <2>1. id \in DOMAIN users /\ id \in Nat /\ id \in 1..lastUser /\ users[id].role \in Roles
    BY DEF First, WithEmail, StoreInv, Tables, IsUsers, User
  <2>2. PICK t \in Token : t = [user |-> id, role |-> users[id].role, email |-> e, iat |-> 0]
    BY <2>1 DEF Token
  <2>3. PICK l \in Slot : l = Login(id, "issue")  BY <1>2, <2>1
  <2>4. l.op = "login" /\ l.at = "issue" /\ l.sess = 0 /\ l.subj = id  BY <1>2, <2>1, <2>3
  <2>5. PICK n \in Slot : n = [l EXCEPT !.pw = p, !.token = t]  BY DEF Slot
  <2>6. /\ n.op = "login" /\ n.at = "issue" /\ n.sess = 0 /\ n.subj = id
        /\ n.pw = p /\ n.token = t
    BY <2>4, <2>5 DEF Slot
  <2>7. Reaches(n) /\ Carries(n)  BY <2>1, <2>6 DEF Reaches, Carries
  <2>8. req' = [req EXCEPT ![r] = n]  BY <1>7, <2>2, <2>3, <2>5
  <2> QED  BY <1>1, <2>7, <2>8, SlotWritten
<1> QED  BY <1>4, <1>5, <1>6, <1>7 DEF LoginLookup

LEMMA ArrivingSlot ==
  ASSUME FlowAssumption, StoreInv, NEW b \in Bodies, NEW target \in Targets(b)
  PROVE  LET s == Arriving(b, target) IN
         /\ s \in Slot /\ s.op = b.op /\ s.op \in Ops \ {"login"} /\ s.sess = 0
         /\ s.new = b.new /\ s.patch = b.patch /\ s.at = "idle"
         /\ Carries(s)
<1>1. b \in Body  BY DEF FlowAssumption
<1>2. target \in Nat  BY DEF Targets, StoreInv, Counters
<1>3. PICK subj \in Nat : subj = IF b.op \in AdminOps \ {"create"} THEN target ELSE 0
  BY <1>2
<1> DEFINE s == [Idle EXCEPT !.op = b.op, !.pw = b.pw, !.new = b.new, !.patch = b.patch,
                             !.subj = subj]
<1>4. s \in Slot  BY <1>1, <1>3 DEF Idle, Slot, Body, Steps
<1>5. /\ s.op = b.op /\ s.new = b.new /\ s.patch = b.patch
      /\ s.sess = 0 /\ s.at = "idle"
  BY DEF Idle
<1>6. Arriving(b, target) = s  BY <1>3 DEF Arriving
<1> HIDE DEF s
<1>7. s.op \in Ops \ {"login"}  BY <1>1, <1>5 DEF Body
<1>8. Carries(s)
  <2>1. /\ s.op \in {"change", "reset", "create"} => s.new \in Passwords
        /\ s.op \in {"create", "update"} => s.patch \in Patch
        /\ s.op = "create" => s.patch.email \in Emails
    BY <1>5 DEF FlowAssumption
  <2>2. s.op # "login" /\ s.at = "idle"  BY <1>5, <1>7
  <2> QED  BY <2>1, <2>2 DEF Carries
<1> QED  BY <1>4, <1>5, <1>6, <1>7, <1>8

LEMMA AuthenticateSlots ==
  ASSUME FlowAssumption, StoreInv, Slots, NEW r \in Req, NEW b \in Bodies,
         NEW target \in Targets(b), NEW token \in Token, Authenticate(r, b, target, token)
  PROVE  Slots'
<1>1. Grows  BY QuietGrows DEF Authenticate
<1>2. CASE req' = [req EXCEPT ![r] = [Arriving(b, target) EXCEPT !.at = "load", !.token = token]]
  <2>1. PICK s \in Slot : /\ s = Arriving(b, target)
                         /\ s.op \in Ops \ {"login"} /\ Carries(s)
    BY ArrivingSlot
  <2>2. PICK n \in Slot : n = [s EXCEPT !.at = "load", !.token = token]
    BY DEF Slot, Steps
  <2>3. /\ n.op = s.op /\ n.at = "load" /\ n.token = token
        /\ n.new = s.new /\ n.patch = s.patch
    BY <2>2 DEF Slot
  <2>4. Reaches(n)  BY <2>1, <2>3 DEF Reaches, Ops, AdminOps
  <2>5. Carries(n)  BY <2>1, <2>3 DEF Carries
  <2>6. req' = [req EXCEPT ![r] = n]  BY <1>2, <2>1, <2>2
  <2> QED  BY <1>1, <2>4, <2>5, <2>6, SlotWritten
<1>3. CASE UNCHANGED req  BY <1>3, SlotsUnchanged DEF Authenticate
<1> QED  BY <1>2, <1>3 DEF Authenticate

\* The first step of an admitted request.
LEMMA BeginSlots ==
  ASSUME FlowAssumption, StoreInv, Slots, Grows, NEW r \in Req, NEW slot \in Slot,
         slot.op \in Ops \ {"login"}, slot.op = "logout" => slot.token \in Token,
         Carries(slot), Begin(r, slot)
  PROVE  Slots'
<1>1. CASE req' = [req EXCEPT ![r] = Idle]
  BY <1>1, AnswerSlots DEF Answer
<1>2. ASSUME NEW step \in Steps, req' = [req EXCEPT ![r] = [slot EXCEPT !.at = step]],
             step \notin {"load", "issue", "revoke", "audit"},
             step = "refind" => slot.op = "logout",
             step = "create" => slot.patch.role # BadRole,
             \/ slot.op = "logout" /\ step = "refind"
             \/ slot.op = "change" /\ step = "reload"
             \/ slot.op = "reset" /\ step = "setHash"
             \/ slot.op \in {"create", "update", "delete"} /\ step = slot.op
      PROVE  Slots'
  <2>1. PICK n \in Slot : n = [slot EXCEPT !.at = step]  BY DEF Slot
  <2>2. /\ n.op = slot.op /\ n.at = step /\ n.token = slot.token
        /\ n.new = slot.new /\ n.patch = slot.patch /\ n.sess = slot.sess
    BY <2>1 DEF Slot
  <2>3. Reaches(n)  BY <1>2, <2>2 DEF Reaches
  <2>4. Carries(n)  BY <1>2, <2>2 DEF Carries
  <2>5. req' = [req EXCEPT ![r] = n]  BY <1>2, <2>1
  <2> QED  BY <2>3, <2>4, <2>5, SlotWritten
<1>3. CASE slot.op = "logout"
  <2>1. req' = [req EXCEPT ![r] = [slot EXCEPT !.at = "refind"]]  BY <1>3 DEF Begin
  <2>2. "refind" \in Steps  BY DEF Steps
  <2> QED  BY <1>2, <1>3, <2>1, <2>2
<1>4. CASE slot.op = "change"
  <2>1. req' = [req EXCEPT ![r] = [slot EXCEPT !.at = "reload"]]  BY <1>4 DEF Begin
  <2>2. "reload" \in Steps  BY DEF Steps
  <2> QED  BY <1>2, <1>4, <2>1, <2>2
<1>5. CASE slot.op = "reset"
  <2>1. req' = [req EXCEPT ![r] = [slot EXCEPT !.at = "setHash"]]  BY <1>5 DEF Begin
  <2>2. "setHash" \in Steps  BY DEF Steps
  <2> QED  BY <1>2, <1>5, <2>1, <2>2
<1>6. CASE slot.op = "create"  BY <1>1, <1>2, <1>6 DEF Begin, Steps, AdminOps
<1>7. CASE slot.op = "update"  BY <1>1, <1>2, <1>7 DEF Begin, Steps, AdminOps
<1>8. CASE slot.op = "delete"  BY <1>1, <1>2, <1>8 DEF Begin, Steps, AdminOps
<1>9. CASE slot.op = "me"  BY <1>1, <1>9 DEF Begin
<1> QED  BY <1>3, <1>4, <1>5, <1>6, <1>7, <1>8, <1>9 DEF Ops, AdminOps

LEMMA LoadUserSlots ==
  ASSUME FlowAssumption, StoreInv, Slots, NEW r \in Req, LoadUser(r)
  PROVE  Slots'
<1>1. Grows  BY QuietGrows DEF LoadUser
<1>2. CASE Answer(r)  BY <1>1, <1>2, AnswerSlots
<1>3. ASSUME NEW id \in DOMAIN users, Begin(r, [req[r] EXCEPT !.actor = id])
      PROVE  Slots'
  <2>1. PICK old \in Slot : old = req[r]  BY DEF Slots
  <2>2. Reaches(old) /\ Carries(old) /\ old.at = "load"  BY <2>1 DEF Slots, LoadUser
  <2>3. id \in Nat  BY DEF StoreInv, Tables, IsUsers
  <2>4. PICK n \in Slot : n = [old EXCEPT !.actor = id]  BY <2>3 DEF Slot
  <2>5. /\ n.op = old.op /\ n.at = old.at /\ n.new = old.new /\ n.patch = old.patch
        /\ n.token = old.token /\ n.pw = old.pw /\ n.subj = old.subj /\ n.sess = old.sess
    BY <2>4 DEF Slot
  <2>6. Carries(n)  BY <2>2, <2>5 DEF Carries
  <2>7. n.op \in Ops \ {"login"}  BY <2>2, <2>5 DEF Reaches, Ops, AdminOps
  <2>8. n.token \in Token  BY <2>2, <2>5 DEF Carries
  <2>9. Begin(r, n)  BY <1>3, <2>1, <2>4
  <2> QED  BY <1>1, <2>6, <2>7, <2>8, <2>9, BeginSlots
<1> QED  BY <1>2, <1>3 DEF LoadUser

\* What comes with an API key is a well-formed request, its token included.
LEMMA KeySlot ==
  ASSUME FlowAssumption, StoreInv, held \subseteq Token, NEW r \in Req, NEW b \in Bodies,
         NEW target \in Targets(b), KeyRequest(r, b, target)
  PROVE  \E n \in Slot : /\ Begin(r, n) /\ n.op \in Ops \ {"login"} /\ Carries(n)
                         /\ n.op = "logout" => n.token \in Token
<1>1. PICK s \in Slot : /\ s = Arriving(b, target) /\ s.op = b.op
                        /\ s.op \in Ops \ {"login"} /\ Carries(s) /\ s.at = "idle"
  BY ArrivingSlot
<1>2. PICK token \in IF b.op = "logout" THEN held ELSE {None} :
             Begin(r, [s EXCEPT !.token = token])
  BY <1>1 DEF KeyRequest
<1>3. token \in Token \cup {None} /\ (b.op = "logout" => token \in Token)  BY <1>2
<1>4. PICK n \in Slot : n = [s EXCEPT !.token = token]  BY <1>3 DEF Slot
<1>5. /\ n.op = s.op /\ n.at = s.at /\ n.new = s.new /\ n.patch = s.patch
      /\ n.token = token /\ n.pw = s.pw /\ n.subj = s.subj /\ n.sess = s.sess
  BY <1>4 DEF Slot
<1>6. Carries(n)  BY <1>1, <1>5 DEF Carries
<1>7. Begin(r, n)  BY <1>2, <1>4
<1>8. n.op \in Ops \ {"login"}  BY <1>1, <1>5
<1>9. n.op = "logout" => n.token \in Token  BY <1>1, <1>3, <1>5
<1> QED  BY <1>6, <1>7, <1>8, <1>9

LEMMA KeyRequestSlots ==
  ASSUME FlowAssumption, StoreInv, Slots, held \subseteq Token, NEW r \in Req, NEW b \in Bodies,
         NEW target \in Targets(b), KeyRequest(r, b, target)
  PROVE  Slots'
<1>1. Grows  BY QuietGrows DEF KeyRequest
<1>2. PICK n \in Slot : /\ Begin(r, n) /\ n.op \in Ops \ {"login"} /\ Carries(n)
                        /\ n.op = "logout" => n.token \in Token
  BY KeySlot
<1>3. n.op = "logout" => n.token \in Token  BY <1>2
<1>4. Begin(r, n) /\ n.op \in Ops \ {"login"} /\ Carries(n)  BY <1>2
<1> QED  BY <1>1, <1>3, <1>4, BeginSlots

LEMMA LogoutFindSlots ==
  ASSUME FlowAssumption, StoreInv, Slots, NEW r \in Req, LogoutFind(r)
  PROVE  Slots'
<1>1. Grows  BY QuietGrows DEF LogoutFind
<1>2. CASE Answer(r)  BY <1>1, <1>2, AnswerSlots
<1>3. ASSUME NEW i \in First(LiveWith(req[r].token)),
             req' = [req EXCEPT ![r].at = "revoke", ![r].sess = i]
      PROVE  Slots'
  <2>1. PICK old \in Slot : old = req[r]  BY DEF Slots
  <2>2. Reaches(old) /\ Carries(old) /\ old.at = "refind"  BY <2>1 DEF Slots, LogoutFind
  <2>3. i \in 1..lastSession  BY DEF First, LiveWith, StoreInv, Tables, IsSessions
  <2>4. i \in Nat  BY <2>3 DEF StoreInv, Counters
  <2>5. PICK n \in Slot : n = [old EXCEPT !.at = "revoke", !.sess = i]
    BY <2>4 DEF Slot, Steps
  <2>6. n.op = old.op /\ n.at = "revoke" /\ n.sess = i /\ n.new = old.new /\ n.patch = old.patch
    BY <2>5 DEF Slot
  <2>7. old.op = "logout"  BY <2>2 DEF FlowAssumption, Reaches
  <2>8. Reaches(n)  BY <2>6, <2>7 DEF Reaches
  <2>9. Carries(n)  BY <2>3, <2>6, <2>7 DEF Carries
  <2>10. req' = [req EXCEPT ![r] = n]  BY <1>3, <2>1, <2>5 DEF Slots
  <2> QED  BY <1>1, <2>8, <2>9, <2>10, SlotWritten
<1> QED  BY <1>2, <1>3 DEF LogoutFind

LEMMA ChangeReloadSlots ==
  ASSUME FlowAssumption, StoreInv, Slots, NEW r \in Req, ChangeReload(r)
  PROVE  Slots'
<1>1. Grows  BY QuietGrows DEF ChangeReload
<1>2. CASE Answer(r)  BY <1>1, <1>2, AnswerSlots
<1>3. ASSUME NEW id \in DOMAIN users,
             req' = [req EXCEPT ![r].at = "setHash", ![r].subj = id]
      PROVE  Slots'
  <2>1. PICK old \in Slot : old = req[r]  BY DEF Slots
  <2>2. Reaches(old) /\ Carries(old) /\ old.at = "reload"  BY <2>1 DEF Slots, ChangeReload
  <2>3. id \in Nat  BY DEF StoreInv, Tables, IsUsers
  <2>4. PICK n \in Slot : n = [old EXCEPT !.at = "setHash", !.subj = id]
    BY <2>3 DEF Slot, Steps
  <2>5. /\ n.op = old.op /\ n.at = "setHash" /\ n.new = old.new
    BY <2>4 DEF Slot
  <2>6. old.op = "change"  BY <2>2 DEF FlowAssumption, Reaches
  <2>7. Reaches(n)  BY <2>5, <2>6 DEF Reaches
  <2>8. Carries(n)  BY <2>2, <2>5, <2>6 DEF Carries
  <2>9. req' = [req EXCEPT ![r] = n]  BY <1>3, <2>1, <2>4 DEF Slots
  <2> QED  BY <1>1, <2>7, <2>8, <2>9, SlotWritten
<1> QED  BY <1>2, <1>3 DEF ChangeReload

-----------------------------------------------------------------------------
(* What a login does when it issues its token.                             *)

LEMMA Issued ==
  ASSUME FlowAssumption, StoreInv, Slots, NEW r \in Req, NEW ok \in BOOLEAN, IssueToken(r, ok)
  PROVE  /\ StoreInv' /\ Slots' /\ Grows
         /\ \E id \in 1..lastUser, p \in Passwords, t \in Token :
              /\ id = req[r].subj /\ p = req[r].pw
              /\ CreateSession([user |-> id, token |-> t, expires |-> now + TTL,
                                revoked |-> FALSE], ok)
<1>1. PICK old \in Slot : old = req[r]  BY DEF Slots
<1>2. Reaches(old) /\ Carries(old) /\ old.at = "issue"  BY <1>1 DEF Slots, IssueToken
<1>3. old.op = "login"  BY <1>2 DEF FlowAssumption, Reaches
<1>4. old.token \in Token /\ old.pw \in Passwords /\ old.subj \in 1..lastUser
  BY <1>2 DEF Carries
<1>5. now \in Nat /\ lastUser \in Nat /\ lastSession \in Nat /\ TTL \in Nat
  BY DEF StoreInv, Counters, FlowAssumption
<1>6. PICK t \in Token : t = [old.token EXCEPT !.iat = now]  BY <1>4, <1>5 DEF Token
<1>7. PICK s \in Session : s = [user |-> old.subj, token |-> t, expires |-> now + TTL,
                               revoked |-> FALSE]
  <2>1. old.subj \in Nat /\ now + TTL \in Nat  BY <1>4, <1>5
  <2>2. \A u, e \in Nat : \A x \in Token :
          [user |-> u, token |-> x, expires |-> e, revoked |-> FALSE] \in Session
    BY DEF Session
  <2> QED  BY <2>1, <2>2
<1>8. CreateSession(s, ok)  BY <1>1, <1>6, <1>7 DEF IssueToken
<1>9. s.user \in 1..lastUser  BY <1>4, <1>7
<1>10. StoreInv'  BY <1>8, <1>9, CreateSessionInv
<1>11. Grows  BY <1>5, <1>8 DEF CreateSession, Grows
<1>12. Slots'
  <2>1. CASE Answer(r)  BY <1>11, <2>1, AnswerSlots
  <2>2. CASE req' = [req EXCEPT ![r].at = "welcome", ![r].sess = lastSession + 1,
                                ![r].token = t, ![r].pw = None]
    <3>1. lastSession + 1 \in Nat  BY <1>5
    <3>2. PICK n \in Slot : n = [old EXCEPT !.at = "welcome", !.sess = lastSession + 1,
                                           !.token = t, !.pw = None]
      BY <3>1 DEF Slot, Steps
    <3>3. n.op = "login" /\ n.at = "welcome" /\ n.token = t  BY <1>3, <3>2 DEF Slot
    <3>4. Reaches(n) /\ Carries(n)  BY <3>3 DEF Reaches, Carries
    <3>5. req' = [req EXCEPT ![r] = n]  BY <1>1, <2>2, <3>2 DEF Slots
    <3> QED  BY <1>11, <3>4, <3>5, SlotWritten
  <2> QED  BY <1>1, <1>6, <2>1, <2>2 DEF IssueToken
<1>13. CreateSession([user |-> old.subj, token |-> t, expires |-> now + TTL,
                      revoked |-> FALSE], ok)
  BY <1>7, <1>8
<1> QED  BY <1>1, <1>4, <1>6, <1>10, <1>11, <1>12, <1>13

-----------------------------------------------------------------------------
(* What handlers write into accounts.                                      *)

LEMMA Failing ==
  ASSUME FlowAssumption, NEW u \in User, u.failed < FailLimit, now \in Nat
  PROVE  Failed(u, now) \in User /\ Failed(u, now).failed < FailLimit /\ Failed(u, now).hash = u.hash
<1>1. FailLimit \in Nat \ {0} /\ LockTime \in Nat /\ now + LockTime \in Nat
  BY DEF FlowAssumption
<1>2. u.failed \in Nat  BY DEF User
<1>3. CASE u.failed + 1 >= FailLimit
  <2>1. Failed(u, now) = [u EXCEPT !.failed = 0, !.lockedUntil = now + LockTime]
    BY <1>3 DEF Failed
  <2>2. PICK k \in Nat : k = now + LockTime  BY <1>1
  <2>3. LET v == [u EXCEPT !.failed = 0, !.lockedUntil = k]
        IN v \in User /\ v.failed = 0 /\ v.hash = u.hash
    BY DEF User
  <2>4. 0 < FailLimit  BY <1>1
  <2> QED  BY <2>1, <2>2, <2>3, <2>4
<1>4. CASE ~(u.failed + 1 >= FailLimit)
  <2>1. Failed(u, now) = [u EXCEPT !.failed = u.failed + 1]  BY <1>4 DEF Failed
  <2>2. \A k \in Nat : LET v == [u EXCEPT !.failed = k]
                      IN v \in User /\ v.failed = k /\ v.hash = u.hash
    BY DEF User
  <2>3. u.failed + 1 \in Nat /\ u.failed + 1 < FailLimit  BY <1>1, <1>2, <1>4
  <2> QED  BY <2>1, <2>2, <2>3
<1> QED  BY <1>3, <1>4

LEMMA Clearing ==
  ASSUME FlowAssumption, NEW u \in User
  PROVE  Cleared(u) \in User /\ Cleared(u).failed < FailLimit /\ Cleared(u).hash = u.hash
<1>1. Cleared(u) \in User /\ Cleared(u).failed = 0 /\ Cleared(u).hash = u.hash
  BY DEF Cleared, User
<1>2. 0 < FailLimit  BY DEF FlowAssumption
<1> QED  BY <1>1, <1>2

LEMMA Rehashing ==
  ASSUME FlowAssumption, NEW u \in User, u.failed < FailLimit, NEW slot, slot.new \in Passwords
  PROVE  Rehashed(u, slot) \in User /\ Rehashed(u, slot).failed < FailLimit
<1>1. PICK p \in Passwords : p = slot.new  OBVIOUS
<1>2. CASE slot.op = "change"
  <2>1. Rehashed(u, slot) = [u EXCEPT !.hash = p]  BY <1>1, <1>2 DEF Rehashed
  <2>2. [u EXCEPT !.hash = p] \in User /\ [u EXCEPT !.hash = p].failed = u.failed  BY DEF User
  <2> QED  BY <2>1, <2>2
<1>3. CASE slot.op # "change"
  <2> DEFINE v == [u EXCEPT !.hash = p, !.failed = 0, !.lockedUntil = 0]
  <2>1. Rehashed(u, slot) = v  BY <1>1, <1>3 DEF Rehashed
  <2>2. v \in User /\ v.failed = 0  BY DEF User
  <2> QED  BY <2>1, <2>2 DEF FlowAssumption
<1> QED  BY <1>2, <1>3

LEMMA Patching ==
  ASSUME FlowAssumption, NEW u \in User, u.failed < FailLimit, NEW p \in Patch
  PROVE  /\ Patched(u, p) \in User /\ Patched(u, p).failed < FailLimit
         /\ Patched(u, p).hash = u.hash
<1>1. PICK e \in Emails : e = IF p.email = Keep THEN u.email ELSE p.email
  BY DEF User, Patch
<1>2. PICK ro \in Roles : ro = IF p.role \in {Keep, BadRole} THEN u.role ELSE p.role
  BY DEF User, Patch
<1>3. PICK a \in BOOLEAN : a = IF p.active = Keep \/ p.role = BadRole THEN u.active ELSE p.active
  BY DEF User, Patch
<1>4. Patched(u, p) = [u EXCEPT !.email = e, !.role = ro, !.active = a]
  BY <1>1, <1>2, <1>3 DEF Patched
<1>5. LET v == [u EXCEPT !.email = e, !.role = ro, !.active = a]
      IN v \in User /\ v.failed = u.failed /\ v.hash = u.hash
  BY DEF User
<1> QED  BY <1>4, <1>5

LEMMA Creating ==
  ASSUME StoreAssumption, FlowAssumption, NEW s \in Slot, Reaches(s), Carries(s), s.at = "create"
  PROVE  NewUser(s) \in User /\ NewUser(s).failed = 0
<1>1. s.op = "create"  BY DEF Reaches, FlowAssumption
<1>2. s.new \in Passwords /\ s.patch \in Patch /\ s.patch.email \in Emails /\ s.patch.role # BadRole
  BY <1>1 DEF Carries
<1>3. PICK ro \in Roles : ro = IF s.patch.role = Keep THEN DefaultRole ELSE s.patch.role
  BY <1>2 DEF Patch, FlowAssumption
<1>4. PICK a \in BOOLEAN : a = IF s.patch.active = Keep THEN TRUE ELSE s.patch.active
  BY <1>2 DEF Patch
<1>5. PICK e \in Emails, p \in Passwords : e = s.patch.email /\ p = s.new  BY <1>2
<1>6. NewUser(s) = [email |-> e, role |-> ro, active |-> a, hash |-> p, failed |-> 0, lockedUntil |-> 0]
  BY <1>3, <1>4, <1>5 DEF NewUser
<1> QED  BY <1>6 DEF User

-----------------------------------------------------------------------------
(* Every step keeps the store, the requests and the failure counters.      *)

Core == StoreInv /\ Slots /\ Below(users) /\ Below(disk.users)

\* An account written by UpdateUser.
LEMMA Writing ==
  ASSUME StoreInv, Below(users), Below(disk.users), NEW id, NEW u \in User,
         u.failed < FailLimit, NEW ok \in BOOLEAN, UpdateUser(id, u, ok)
  PROVE  StoreInv' /\ Below(users)' /\ Below(disk.users)' /\ Grows
<1>1. StoreInv'  BY UpdateUserInv
<1>2. Grows  BY DEF UpdateUser, StoreInv, Counters, Grows
<1>3. id \in DOMAIN users /\ users' = [users EXCEPT ![id] = u] /\ Save(ok)  BY DEF UpdateUser
<1>4. Below(users)'  BY <1>3 DEF Below
<1>5. Below(disk.users)'
  <2>1. CASE ok  BY <1>3, <1>4, <2>1 DEF Save, Below
  <2>2. CASE ~ok  BY <1>3, <2>2 DEF Save, Below
  <2> QED  BY <2>1, <2>2
<1> QED  BY <1>1, <1>2, <1>4, <1>5

LEMMA Reading ==
  ASSUME StoreInv, Below(users), Below(disk.users), UNCHANGED storeVars
  PROVE  StoreInv' /\ Below(users)' /\ Below(disk.users)' /\ Grows
<1>1. StoreInv' /\ Grows  BY UnchangedInv, QuietGrows
<1>2. UNCHANGED <<users, disk>>  BY DEF storeVars, memory
<1> QED  BY <1>1, <1>2 DEF Below

\* A method that leaves the accounts alone.
LEMMA Sparing ==
  ASSUME StoreInv, Below(users), Below(disk.users), NEW ok \in BOOLEAN, Save(ok), UNCHANGED users
  PROVE  Below(users)' /\ Below(disk.users)'
<1>1. Below(users)'  BY DEF Below
<1>2. CASE ok  BY <1>1, <1>2 DEF Save, Below
<1>3. CASE ~ok  BY <1>1, <1>3 DEF Save, Below
<1> QED  BY <1>1, <1>2, <1>3

LEMMA LoginFailedCore ==
  ASSUME FlowAssumption, Core, NEW r \in Req, NEW ok \in BOOLEAN, LoginFailed(r, ok)
  PROVE  Core'
<1> USE DEF Core
<1>1. req[r].at = "failed" /\ Goto(r, "audit")  BY DEF LoginFailed
<1>2. CASE UNCHANGED storeVars
  <2>1. StoreInv' /\ Below(users)' /\ Below(disk.users)' /\ Grows  BY <1>2, Reading
  <2> QED  BY <1>1, <2>1, GotoSlots
<1>3. CASE UpdateUser(req[r].subj, Failed(users[req[r].subj], now), ok)
  <2>1. PICK id : id = req[r].subj  OBVIOUS
  <2>2. id \in DOMAIN users  BY <1>3, <2>1 DEF UpdateUser
  <2>3. PICK old \in User : old = users[id] /\ old.failed < FailLimit
    BY <2>2 DEF StoreInv, Tables, IsUsers, Below
  <2>4. now \in Nat  BY DEF StoreInv, Counters
  <2>5. PICK u \in User : u = Failed(old, now) /\ u.failed < FailLimit  BY <2>3, <2>4, Failing
  <2>6. UpdateUser(id, u, ok)  BY <1>3, <2>1, <2>3, <2>5
  <2>7. StoreInv' /\ Below(users)' /\ Below(disk.users)' /\ Grows  BY <2>5, <2>6, Writing
  <2> QED  BY <1>1, <2>7, GotoSlots
<1> QED  BY <1>2, <1>3 DEF LoginFailed

LEMMA LoginWelcomeCore ==
  ASSUME FlowAssumption, Core, NEW r \in Req, NEW ok \in BOOLEAN, LoginWelcome(r, ok)
  PROVE  Core'
<1> USE DEF Core
<1>1. req[r].at = "welcome" /\ Goto(r, "audit")  BY DEF LoginWelcome
<1>2. CASE UNCHANGED storeVars
  <2>1. StoreInv' /\ Below(users)' /\ Below(disk.users)' /\ Grows  BY <1>2, Reading
  <2> QED  BY <1>1, <2>1, GotoSlots
<1>3. CASE UpdateUser(req[r].subj, Cleared(users[req[r].subj]), ok)
  <2>1. PICK id : id = req[r].subj  OBVIOUS
  <2>2. id \in DOMAIN users  BY <1>3, <2>1 DEF UpdateUser
  <2>3. PICK old \in User : old = users[id]  BY <2>2 DEF StoreInv, Tables, IsUsers
  <2>4. PICK u \in User : u = Cleared(old) /\ u.failed < FailLimit  BY Clearing
  <2>5. UpdateUser(id, u, ok)  BY <1>3, <2>1, <2>3, <2>4
  <2>6. StoreInv' /\ Below(users)' /\ Below(disk.users)' /\ Grows  BY <2>4, <2>5, Writing
  <2> QED  BY <1>1, <2>6, GotoSlots
<1> QED  BY <1>2, <1>3 DEF LoginWelcome

LEMMA IssueTokenCore ==
  ASSUME FlowAssumption, Core, NEW r \in Req, NEW ok \in BOOLEAN, IssueToken(r, ok)
  PROVE  Core'
<1> USE DEF Core
<1>1. StoreInv' /\ Slots'  BY Issued
<1>2. Save(ok) /\ UNCHANGED users
  <2>1. PICK s : CreateSession(s, ok)  BY Issued
  <2> QED  BY <2>1 DEF CreateSession
<1> QED  BY <1>1, <1>2, Sparing

LEMMA LogoutRevokeCore ==
  ASSUME FlowAssumption, Core, NEW r \in Req, NEW ok \in BOOLEAN, LogoutRevoke(r, ok)
  PROVE  Core'
<1> USE DEF Core
<1>1. req[r].at = "revoke" /\ Goto(r, "audit")  BY DEF LogoutRevoke
<1>2. CASE UNCHANGED storeVars
  <2>1. StoreInv' /\ Below(users)' /\ Below(disk.users)' /\ Grows  BY <1>2, Reading
  <2> QED  BY <1>1, <2>1, GotoSlots
<1>3. CASE RevokeSession(req[r].sess, ok)
  <2>1. PICK s : s = req[r].sess  OBVIOUS
  <2>2. RevokeSession(s, ok)  BY <1>3, <2>1
  <2>3. StoreInv'  BY <2>2, RevokeSessionInv
  <2>4. Save(ok) /\ UNCHANGED <<users, lastUser, lastSession>>  BY <2>2 DEF RevokeSession
  <2>5. Below(users)' /\ Below(disk.users)'  BY <2>4, Sparing
  <2>6. Grows  BY <2>4 DEF StoreInv, Counters, Grows
  <2> QED  BY <1>1, <2>3, <2>5, <2>6, GotoSlots
<1> QED  BY <1>2, <1>3 DEF LogoutRevoke

LEMMA SetHashCore ==
  ASSUME FlowAssumption, Core, NEW r \in Req, NEW ok \in BOOLEAN, SetHash(r, ok)
  PROVE  Core'
<1> USE DEF Core
<1>1. req[r].at = "setHash" /\ (Goto(r, "revokeAll") \/ Answer(r))  BY DEF SetHash
<1>2. CASE UNCHANGED storeVars
  <2>1. StoreInv' /\ Below(users)' /\ Below(disk.users)' /\ Grows  BY <1>2, Reading
  <2> QED  BY <1>1, <2>1, GotoSlots, AnswerSlots
<1>3. CASE UpdateUser(req[r].subj, Rehashed(users[req[r].subj], req[r]), ok)
  <2>1. PICK id : id = req[r].subj  OBVIOUS
  <2>2. id \in DOMAIN users  BY <1>3, <2>1 DEF UpdateUser
  <2>3. PICK old \in User : old = users[id] /\ old.failed < FailLimit
    BY <2>2 DEF StoreInv, Tables, IsUsers, Below
  <2>4. PICK s \in Slot : s = req[r] /\ Reaches(s) /\ Carries(s)  BY DEF Slots
  <2>5. s.new \in Passwords
    <3>1. s.op \in {"change", "reset"}  BY <1>1, <2>4 DEF Reaches
    <3> QED  BY <2>4, <3>1 DEF Carries
  <2>6. PICK u \in User : u = Rehashed(old, s) /\ u.failed < FailLimit  BY <2>3, <2>5, Rehashing
  <2>7. UpdateUser(id, u, ok)  BY <1>3, <2>1, <2>3, <2>4, <2>6
  <2>8. StoreInv' /\ Below(users)' /\ Below(disk.users)' /\ Grows  BY <2>6, <2>7, Writing
  <2> QED  BY <1>1, <2>8, GotoSlots, AnswerSlots
<1> QED  BY <1>2, <1>3 DEF SetHash

LEMMA RevokeAllCore ==
  ASSUME FlowAssumption, Core, NEW r \in Req, NEW ok \in BOOLEAN, RevokeAll(r, ok)
  PROVE  Core'
<1> USE DEF Core
<1>1. req[r].at = "revokeAll" /\ Goto(r, "audit")  BY DEF RevokeAll
<1>2. PICK id : RevokeUserSessions(id, ok)  BY DEF RevokeAll
<1>3. StoreInv'  BY <1>2, RevokeUserSessionsInv
<1>4. Save(ok) /\ UNCHANGED <<users, lastUser, lastSession>>  BY <1>2 DEF RevokeUserSessions
<1>5. Below(users)' /\ Below(disk.users)'  BY <1>4, Sparing
<1>6. Grows  BY <1>4 DEF StoreInv, Counters, Grows
<1> QED  BY <1>1, <1>3, <1>5, <1>6, GotoSlots

LEMMA AdminCreateCore ==
  ASSUME FlowAssumption, Core, NEW r \in Req, NEW ok \in BOOLEAN, AdminCreate(r, ok)
  PROVE  Core'
<1> USE DEF Core
<1>1. req[r].at = "create" /\ (Goto(r, "audit") \/ Answer(r))  BY DEF AdminCreate
<1>2. CASE UNCHANGED storeVars
  <2>1. StoreInv' /\ Below(users)' /\ Below(disk.users)' /\ Grows  BY <1>2, Reading
  <2> QED  BY <1>1, <2>1, GotoSlots, AnswerSlots
<1>3. CASE CreateUser(NewUser(req[r]), ok)
  <2>1. PICK s \in Slot : s = req[r] /\ Reaches(s) /\ Carries(s)  BY DEF Slots
  <2>2. PICK u \in User : u = NewUser(s) /\ u.failed = 0  BY <1>1, <2>1, StoreAssumption, Creating
  <2>3. CreateUser(u, ok)  BY <1>3, <2>1, <2>2
  <2>4. StoreInv'  BY <2>3, CreateUserInv
  <2>5. Grows  BY <2>3 DEF CreateUser, StoreInv, Counters, Grows
  <2>6. users' = Put(users, lastUser + 1, u) /\ Save(ok)  BY <2>3 DEF CreateUser
  <2>7. u.failed < FailLimit  BY <2>2 DEF FlowAssumption
  <2>8. Below(users)'  BY <2>6, <2>7 DEF Below, Put
  <2>9. Below(disk.users)'
    <3>1. CASE ok  BY <2>6, <2>8, <3>1 DEF Save, Below
    <3>2. CASE ~ok  BY <2>6, <3>2 DEF Save, Below
    <3> QED  BY <3>1, <3>2
  <2> QED  BY <1>1, <2>4, <2>5, <2>8, <2>9, GotoSlots, AnswerSlots
<1> QED  BY <1>2, <1>3 DEF AdminCreate

LEMMA AdminUpdateCore ==
  ASSUME FlowAssumption, Core, NEW r \in Req, NEW ok \in BOOLEAN, AdminUpdate(r, ok)
  PROVE  Core'
<1> USE DEF Core
<1>1. req[r].at = "update" /\ (Goto(r, "audit") \/ Answer(r))  BY DEF AdminUpdate
<1>2. CASE UNCHANGED storeVars
  <2>1. StoreInv' /\ Below(users)' /\ Below(disk.users)' /\ Grows  BY <1>2, Reading
  <2> QED  BY <1>1, <2>1, GotoSlots, AnswerSlots
<1> DEFINE u == Patched(users[req[r].subj], req[r].patch)
<1>3. ASSUME req[r].subj \in DOMAIN users
      PROVE  \E id \in DOMAIN users, v \in User :
               id = req[r].subj /\ v = u /\ v.failed < FailLimit
  <2>1. PICK id \in DOMAIN users : id = req[r].subj  BY <1>3
  <2>2. PICK old \in User : old = users[id] /\ old.failed < FailLimit
    BY DEF StoreInv, Tables, IsUsers, Below
  <2>3. PICK s \in Slot : s = req[r] /\ Reaches(s) /\ Carries(s)  BY DEF Slots
  <2>4. s.op = "update"  BY <1>1, <2>3 DEF Reaches, FlowAssumption
  <2>5. PICK p \in Patch : p = s.patch  BY <2>3, <2>4 DEF Carries
  <2>6. Patched(old, p) \in User /\ Patched(old, p).failed < FailLimit  BY <2>2, Patching
  <2> QED  BY <2>1, <2>2, <2>3, <2>5, <2>6
<1> HIDE DEF u
<1>4. CASE UpdateUser(req[r].subj, u, ok)
  <2>1. req[r].subj \in DOMAIN users  BY <1>4 DEF UpdateUser
  <2>2. PICK id \in DOMAIN users, v \in User : id = req[r].subj /\ v = u /\ v.failed < FailLimit
    BY <1>3, <2>1
  <2>3. UpdateUser(id, v, ok)  BY <1>4, <2>2
  <2>4. StoreInv' /\ Below(users)' /\ Below(disk.users)' /\ Grows  BY <2>2, <2>3, Writing
  <2> QED  BY <1>1, <2>4, GotoSlots, AnswerSlots
<1>5. CASE UpdateUserRefused(req[r].subj, u)
  <2>1. req[r].subj \in DOMAIN users  BY <1>5 DEF UpdateUserRefused
  <2>2. PICK id \in DOMAIN users, v \in User : id = req[r].subj /\ v = u /\ v.failed < FailLimit
    BY <1>3, <2>1
  <2>3. UpdateUserRefused(id, v)  BY <1>5, <2>2
  <2>4. StoreInv'  BY <2>3, UpdateUserRefusedInv
  <2>5. users' = [users EXCEPT ![id] = v] /\ UNCHANGED <<disk, lastUser, lastSession>>
    BY <2>3 DEF UpdateUserRefused
  <2>6. Grows  BY <2>5 DEF StoreInv, Counters, Grows
  <2>7. Below(users)' /\ Below(disk.users)'  BY <2>2, <2>5 DEF Below
  <2> QED  BY <1>1, <2>4, <2>6, <2>7, GotoSlots, AnswerSlots
<1> QED  BY <1>2, <1>4, <1>5 DEF AdminUpdate, u

LEMMA AdminDeleteCore ==
  ASSUME FlowAssumption, Core, NEW r \in Req, NEW ok \in BOOLEAN, AdminDelete(r, ok)
  PROVE  Core'
<1> USE DEF Core
<1>1. req[r].at = "delete" /\ (Goto(r, "audit") \/ Answer(r))  BY DEF AdminDelete
<1>2. CASE UNCHANGED storeVars
  <2>1. StoreInv' /\ Below(users)' /\ Below(disk.users)' /\ Grows  BY <1>2, Reading
  <2> QED  BY <1>1, <2>1, GotoSlots, AnswerSlots
<1>3. CASE DeleteUser(req[r].subj, ok)
  <2>1. PICK id : id = req[r].subj  OBVIOUS
  <2>2. DeleteUser(id, ok)  BY <1>3, <2>1
  <2>3. StoreInv'  BY <2>2, DeleteUserInv
  <2>4. users' = Only(users, DOMAIN users \ {id}) /\ Save(ok) /\ UNCHANGED <<lastUser, lastSession>>
    BY <2>2 DEF DeleteUser
  <2>5. Grows  BY <2>4 DEF StoreInv, Counters, Grows
  <2>6. Below(users)'  BY <2>4 DEF Below, Only
  <2>7. Below(disk.users)'
    <3>1. CASE ok  BY <2>4, <2>6, <3>1 DEF Save, Below
    <3>2. CASE ~ok  BY <2>4, <3>2 DEF Save, Below
    <3> QED  BY <3>1, <3>2
  <2> QED  BY <1>1, <2>3, <2>5, <2>6, <2>7, GotoSlots, AnswerSlots
<1> QED  BY <1>2, <1>3 DEF AdminDelete

LEMMA AuditCore ==
  ASSUME FlowAssumption, Core, NEW r \in Req, NEW ok \in BOOLEAN, Audit(r, ok)
  PROVE  Core'
<1> USE DEF Core
<1>1. Answer(r) /\ \E e : LogActivity(e, ok)  BY DEF Audit
<1>2. PICK e : LogActivity(e, ok)  BY <1>1
<1>3. StoreInv'  BY <1>2, LogActivityInv
<1>4. Save(ok) /\ UNCHANGED <<users, lastUser, lastSession>>  BY <1>2 DEF LogActivity
<1>5. Below(users)' /\ Below(disk.users)'  BY <1>4, Sparing
<1>6. Grows  BY <1>4 DEF StoreInv, Counters, Grows
<1> QED  BY <1>1, <1>3, <1>5, <1>6, AnswerSlots

\* No request moves.
LEMMA SlotsKept ==
  ASSUME StoreInv, Slots, Grows, UNCHANGED req
  PROVE  Slots'
<1>1. 1..lastUser \subseteq 1..lastUser' /\ 1..lastSession \subseteq 1..lastSession'
  BY DEF StoreInv, Counters, Grows
<1>2. ASSUME NEW r \in Req  PROVE Reaches(req[r])' /\ Carries(req[r])'
  <2>1. Reaches(req[r]) /\ Carries(req[r])  BY DEF Slots
  <2> QED  BY <1>1, <2>1 DEF Reaches, Carries
<1> QED  BY <1>2 DEF Slots

LEMMA PurgeCore ==
  ASSUME Core, NEW ok \in BOOLEAN, Purge(ok)
  PROVE  Core'
<1> USE DEF Core
<1>1. PurgeExpiredSessions(ok) /\ UNCHANGED req  BY DEF Purge
<1>2. StoreInv'  BY <1>1, PurgeInv
<1>3. Save(ok) /\ UNCHANGED <<users, lastUser, lastSession>>  BY <1>1 DEF PurgeExpiredSessions
<1>4. Below(users)' /\ Below(disk.users)'  BY <1>3, Sparing
<1>5. Grows  BY <1>3 DEF StoreInv, Counters, Grows
<1> QED  BY <1>1, <1>2, <1>4, <1>5, SlotsKept

LEMMA ClockCore ==
  ASSUME Core, Clock
  PROVE  Core'
<1> USE DEF Core
<1>1. Tick /\ UNCHANGED req  BY DEF Clock
<1>2. StoreInv'  BY <1>1, TickInv
<1>3. UNCHANGED <<users, disk, lastUser, lastSession>>  BY <1>1 DEF Tick, memory
<1>4. Below(users)' /\ Below(disk.users)'  BY <1>3 DEF Below
<1>5. Grows  BY <1>3 DEF StoreInv, Counters, Grows
<1> QED  BY <1>1, <1>2, <1>4, <1>5, SlotsKept

LEMMA CrashCore ==
  ASSUME FlowAssumption, Core, NEW ok \in BOOLEAN, Crash(ok)
  PROVE  Core'
<1> USE DEF Core
<1>1. Restart(ok) /\ req' = [r \in Req |-> Idle]  BY DEF Crash
<1>2. StoreInv'  BY <1>1, StoreAssumption, RestartInv
<1>3. Below(users)' /\ Below(disk.users)'
  <2>1. CASE users' = disk.users /\ UNCHANGED disk  BY <2>1 DEF Below
  <2>2. CASE users' = [i \in {lastUser + 1} |-> DefaultAdmin] /\ Save(ok)
    <3>1. Below(users)'  BY <2>2 DEF Below, FlowAssumption
    <3>2. CASE ok  BY <2>2, <3>1, <3>2 DEF Save, Below
    <3>3. CASE ~ok  BY <2>2, <3>1, <3>3 DEF Save, Below
    <3> QED  BY <3>1, <3>2, <3>3
  <2> QED  BY <1>1, <2>1, <2>2 DEF Restart
<1>4. Slots'
  <2>1. Idle \in Slot /\ Reaches(Idle)  BY IdleSlot
  <2>2. Carries(Idle)'  BY DEF FlowAssumption, Carries, Idle, Ops, AdminOps
  <2>3. \A r \in Req : req'[r] = Idle  BY <1>1
  <2>4. req' \in [Req -> Slot]  BY <1>1, <2>1
  <2>5. ASSUME NEW r \in Req  PROVE Reaches(req[r])' /\ Carries(req[r])'
    <3>1. req'[r] = Idle  BY <2>3
    <3> QED  BY <2>1, <2>2, <3>1 DEF Reaches, Carries
  <2> QED  BY <2>4, <2>5 DEF Slots
<1> QED  BY <1>2, <1>3, <1>4

LEMMA QuietCore ==
  ASSUME Core, UNCHANGED storeVars, Slots'
  PROVE  Core'
BY Reading DEF Core

LEMMA CoreStep ==
  ASSUME FlowAssumption, Core, held \subseteq Token, [Next]_vars
  PROVE  Core'
<1>1. ASSUME NEW r \in Req, Start(r)  PROVE Core'
  <2>1. ASSUME NEW e \in Emails, NEW p \in Passwords, LoginLookup(r, e, p)  PROVE Core'
    BY <2>1, LoginLookupSlots, QuietCore DEF Core, LoginLookup
  <2>2. ASSUME NEW b \in Bodies, NEW target \in Targets(b), NEW token \in held,
               Authenticate(r, b, target, token)
        PROVE  Core'
    <3>1. PICK t \in Token : t = token  OBVIOUS
    <3>2. Authenticate(r, b, target, t)  BY <2>2, <3>1
    <3>3. Slots'  BY <3>2, AuthenticateSlots DEF Core
    <3>4. UNCHANGED storeVars  BY <2>2 DEF Authenticate
    <3> QED  BY <3>3, <3>4, QuietCore
  <2>3. ASSUME NEW b \in Bodies, NEW target \in Targets(b), KeyRequest(r, b, target)  PROVE Core'
    BY <2>3, KeyRequestSlots, QuietCore DEF Core, KeyRequest
  <2> QED  BY <1>1, <2>1, <2>2, <2>3 DEF Start
<1>2. ASSUME NEW r \in Req, Step(r)  PROVE Core'
  <2>1. CASE LoadUser(r)  BY <2>1, LoadUserSlots, QuietCore DEF Core, LoadUser
  <2>2. CASE LogoutFind(r)  BY <2>2, LogoutFindSlots, QuietCore DEF Core, LogoutFind
  <2>3. CASE ChangeReload(r)  BY <2>3, ChangeReloadSlots, QuietCore DEF Core, ChangeReload
  <2>4. ASSUME NEW ok \in BOOLEAN,
               \/ LoginFailed(r, ok) \/ IssueToken(r, ok) \/ LoginWelcome(r, ok)
               \/ LogoutRevoke(r, ok) \/ SetHash(r, ok) \/ RevokeAll(r, ok)
               \/ AdminCreate(r, ok) \/ AdminUpdate(r, ok) \/ AdminDelete(r, ok)
               \/ Audit(r, ok)
        PROVE  Core'
    BY <2>4, LoginFailedCore, IssueTokenCore, LoginWelcomeCore, LogoutRevokeCore, SetHashCore,
       RevokeAllCore, AdminCreateCore, AdminUpdateCore, AdminDeleteCore, AuditCore
  <2> QED  BY <1>2, <2>1, <2>2, <2>3, <2>4 DEF Step
<1>3. ASSUME NEW ok \in BOOLEAN, Purge(ok) \/ Crash(ok)  PROVE Core'
  BY <1>3, PurgeCore, CrashCore
<1>4. CASE Clock  BY <1>4, ClockCore
<1>5. CASE UNCHANGED vars
  <2>1. UNCHANGED storeVars /\ UNCHANGED req  BY <1>5 DEF vars
  <2>2. Slots'  BY <2>1, SlotsUnchanged DEF Core
  <2> QED  BY <2>1, <2>2, QuietCore
<1> QED  BY <1>1, <1>2, <1>3, <1>4, <1>5 DEF Next

-----------------------------------------------------------------------------
(* The activity log.                                                       *)

LEMMA LogsKept ==
  ASSUME Logs, UNCHANGED activity, (\E ok \in BOOLEAN : Save(ok)) \/ UNCHANGED disk
  PROVE  Logs'
<1>1. CASE UNCHANGED disk  BY <1>1 DEF Logs
<1>2. ASSUME NEW ok \in BOOLEAN, Save(ok)  PROVE Logs'
  <2>1. CASE ok  BY <1>2, <2>1 DEF Logs, Save
  <2>2. CASE ~ok  BY <1>2, <2>2 DEF Logs, Save
  <2> QED  BY <2>1, <2>2
<1> QED  BY <1>1, <1>2

LEMMA AuditLogs ==
  ASSUME FlowAssumption, Slots, Logs, NEW r \in Req, NEW ok \in BOOLEAN, Audit(r, ok)
  PROVE  Logs'
<1>1. PICK s \in Slot : s = req[r] /\ Reaches(s) /\ s.at = "audit"  BY DEF Slots, Audit
<1>2. s.op \in Ops  BY <1>1 DEF Reaches, Ops, AdminOps
<1>3. PICK u \in Nat : u = IF s.op = "login" THEN s.subj ELSE s.actor  BY <1>1 DEF Slot
<1>4. PICK b \in BOOLEAN : b = (s.op # "login" \/ s.sess # 0)  OBVIOUS
<1>5. PICK e \in Entry : e = [user |-> u, op |-> s.op, ok |-> b]  BY <1>2, <1>3, <1>4 DEF Entry
<1>6. LogActivity(e, ok)  BY <1>1, <1>3, <1>4, <1>5 DEF Audit
<1> QED  BY <1>6, StoreAssumption, LogType DEF Logs

LEMMA LogsStep ==
  ASSUME FlowAssumption, Slots, Logs, [Next]_vars
  PROVE  Logs'
<1>1. ASSUME NEW r \in Req, Start(r)  PROVE Logs'
  BY <1>1, LogsKept DEF Start, LoginLookup, Authenticate, KeyRequest, storeVars, memory
<1>2. ASSUME NEW r \in Req, Step(r)  PROVE Logs'
  <2>1. CASE LoadUser(r) \/ LogoutFind(r) \/ ChangeReload(r)
    BY <2>1, LogsKept DEF LoadUser, LogoutFind, ChangeReload, storeVars, memory
  <2>2. ASSUME NEW ok \in BOOLEAN, LoginFailed(r, ok) \/ LoginWelcome(r, ok)
        PROVE  Logs'
    BY <2>2, LogsKept DEF LoginFailed, LoginWelcome, UpdateUser, storeVars, memory
  <2>3. ASSUME NEW ok \in BOOLEAN, IssueToken(r, ok)  PROVE Logs'
    BY <2>3, LogsKept DEF IssueToken, CreateSession
  <2>4. ASSUME NEW ok \in BOOLEAN, LogoutRevoke(r, ok)  PROVE Logs'
    BY <2>4, LogsKept DEF LogoutRevoke, RevokeSession, storeVars, memory
  <2>5. ASSUME NEW ok \in BOOLEAN, SetHash(r, ok)  PROVE Logs'
    BY <2>5, LogsKept DEF SetHash, UpdateUser, storeVars, memory
  <2>6. ASSUME NEW ok \in BOOLEAN, RevokeAll(r, ok)  PROVE Logs'
    BY <2>6, LogsKept DEF RevokeAll, RevokeUserSessions
  <2>7. ASSUME NEW ok \in BOOLEAN, AdminCreate(r, ok)  PROVE Logs'
    BY <2>7, LogsKept DEF AdminCreate, CreateUser, storeVars, memory
  <2>8. ASSUME NEW ok \in BOOLEAN, AdminUpdate(r, ok)  PROVE Logs'
    BY <2>8, LogsKept DEF AdminUpdate, UpdateUser, UpdateUserRefused, storeVars, memory
  <2>9. ASSUME NEW ok \in BOOLEAN, AdminDelete(r, ok)  PROVE Logs'
    BY <2>9, LogsKept DEF AdminDelete, DeleteUser, storeVars, memory
  <2>10. ASSUME NEW ok \in BOOLEAN, Audit(r, ok)  PROVE Logs'
    BY <2>10, AuditLogs
  <2> QED  BY <1>2, <2>1, <2>2, <2>3, <2>4, <2>5, <2>6, <2>7, <2>8, <2>9, <2>10 DEF Step
<1>3. ASSUME NEW ok \in BOOLEAN, Purge(ok)  PROVE Logs'
  BY <1>3, LogsKept DEF Purge, PurgeExpiredSessions
<1>4. ASSUME NEW ok \in BOOLEAN, Crash(ok)  PROVE Logs'
  <2>1. activity' = disk.activity /\ (UNCHANGED disk \/ Save(ok))  BY <1>4 DEF Crash, Restart
  <2>2. CASE UNCHANGED disk  BY <2>1, <2>2 DEF Logs
  <2>3. CASE Save(ok)
    <3>1. CASE ok  BY <2>1, <2>3, <3>1 DEF Logs, Save
    <3>2. CASE ~ok  BY <2>1, <2>3, <3>2 DEF Logs, Save
    <3> QED  BY <3>1, <3>2
  <2> QED  BY <2>1, <2>2, <2>3
<1>5. CASE Clock  BY <1>5, LogsKept DEF Clock, Tick, memory
<1>6. CASE UNCHANGED vars  BY <1>6, LogsKept DEF vars, storeVars, memory
<1> QED  BY <1>1, <1>2, <1>3, <1>4, <1>5, <1>6 DEF Next

-----------------------------------------------------------------------------
(* What the history variables may hold.                                    *)

LEMMA BooksStep ==
  ASSUME FlowAssumption, Core, Books, [Next]_vars
  PROVE  Books'
<1>1. lastUser \in Nat /\ lastSession \in Nat  BY DEF Core, StoreInv, Counters
<1>2. ASSUME UNCHANGED <<held, crashes, history, lastUser, lastSession>>  PROVE Books'
  BY <1>2 DEF Books, history, logouts
<1>3. ASSUME NEW r \in Req, Start(r)  PROVE Books'
  BY <1>2, <1>3 DEF Start, LoginLookup, Authenticate, KeyRequest, storeVars, memory
<1>4. ASSUME NEW r \in Req, Step(r)  PROVE Books'
  <2>1. CASE LoadUser(r) \/ LogoutFind(r) \/ ChangeReload(r)
    BY <1>2, <2>1 DEF LoadUser, LogoutFind, ChangeReload, storeVars, memory
  <2>2. ASSUME NEW ok \in BOOLEAN, LoginFailed(r, ok) \/ LoginWelcome(r, ok)
        PROVE  Books'
    BY <1>2, <2>2 DEF LoginFailed, LoginWelcome, UpdateUser, storeVars, memory
  <2>3. ASSUME NEW ok \in BOOLEAN, IssueToken(r, ok)  PROVE Books'
    <3>1. PICK p \in Passwords : p = req[r].pw  BY <2>3, Issued DEF Core
    <3>2. verified' = Append(verified, p)  BY <2>3, <3>1 DEF IssueToken
    <3>3. verified' \in Seq(Passwords) /\ Len(verified') = Len(verified) + 1
      BY <3>2, AppendProperties DEF Books
    <3>4. lastSession' = lastSession + 1 /\ lastUser' = lastUser
      BY <2>3 DEF IssueToken, CreateSession
    <3>5. raced' \subseteq raced \cup {lastSession + 1}
      BY <2>3 DEF IssueToken
    <3>6. UNCHANGED <<held, crashes, cutShort, gone, logouts>>  BY <2>3 DEF IssueToken
    <3>7. 1..lastSession' = 1..lastSession \cup {lastSession + 1}  BY <1>1, <3>4
    <3> QED  BY <3>3, <3>4, <3>5, <3>6, <3>7 DEF Books, logouts
  <2>4. ASSUME NEW ok \in BOOLEAN, LogoutRevoke(r, ok)  PROVE Books'
    <3>1. UNCHANGED <<held, crashes, verified, raced, cutShort, gone, left, lastUser, lastSession>>
      BY <2>4 DEF LogoutRevoke, RevokeSession, storeVars, memory
    <3>2. PICK i \in 1..lastSession : i = req[r].sess
      <4>1. PICK old \in Slot : old = req[r] /\ Reaches(old) /\ Carries(old) /\ old.at = "revoke"
        BY <2>4 DEF Core, Slots, LogoutRevoke
      <4>2. old.op = "logout"  BY <4>1 DEF Reaches, FlowAssumption, Ops, AdminOps
      <4> QED  BY <4>1, <4>2 DEF Carries
    <3>3. dropped' \in {dropped \ {i}, dropped \cup {i}} /\ revived' = revived \ {i}
      BY <2>4, <3>2 DEF LogoutRevoke
    <3> QED  BY <3>1, <3>2, <3>3 DEF Books
  <2>5. ASSUME NEW ok \in BOOLEAN, SetHash(r, ok)  PROVE Books'
    <3>1. /\ UNCHANGED <<held, crashes, verified, raced, gone, logouts, lastUser, lastSession>>
          /\ cutShort' \subseteq cutShort \cup DOMAIN users
      BY <2>5 DEF SetHash, UpdateUser, storeVars, memory
    <3>2. DOMAIN users \subseteq 1..lastUser  BY DEF Core, StoreInv, Tables, IsUsers
    <3> QED  BY <3>1, <3>2 DEF Books, logouts
  <2>6. ASSUME NEW ok \in BOOLEAN, RevokeAll(r, ok)  PROVE Books'
    <3>1. /\ UNCHANGED <<held, crashes, verified, raced, gone, logouts, lastUser, lastSession>>
          /\ cutShort' \subseteq cutShort
      BY <2>6 DEF RevokeAll, RevokeUserSessions
    <3> QED  BY <3>1 DEF Books, logouts
  <2>7. ASSUME NEW ok \in BOOLEAN, AdminCreate(r, ok)  PROVE Books'
    <3>1. UNCHANGED <<held, crashes, history, lastSession>>
      BY <2>7 DEF AdminCreate, CreateUser, storeVars, memory
    <3>2. lastUser' \in {lastUser, lastUser + 1}
      BY <2>7 DEF AdminCreate, CreateUser, storeVars, memory
    <3>3. 1..lastUser \subseteq 1..lastUser'  BY <1>1, <3>2
    <3> QED  BY <3>1, <3>3 DEF Books, history, logouts
  <2>8. ASSUME NEW ok \in BOOLEAN, AdminUpdate(r, ok)  PROVE Books'
    BY <1>2, <2>8 DEF AdminUpdate, UpdateUser, UpdateUserRefused, storeVars, memory
  <2>9. ASSUME NEW ok \in BOOLEAN, AdminDelete(r, ok)  PROVE Books'
    <3>1. /\ UNCHANGED <<held, crashes, verified, raced, cutShort, logouts, lastUser, lastSession>>
          /\ gone' \subseteq gone \cup DOMAIN users
      BY <2>9 DEF AdminDelete, DeleteUser, storeVars, memory
    <3>2. DOMAIN users \subseteq 1..lastUser  BY DEF Core, StoreInv, Tables, IsUsers
    <3> QED  BY <3>1, <3>2 DEF Books, logouts
  <2>10. ASSUME NEW ok \in BOOLEAN, Audit(r, ok)  PROVE Books'
    <3>1. PICK s \in Slot : s = req[r] /\ Carries(s) /\ s.at = "audit"
      BY <2>10 DEF Core, Slots, Audit
    <3>2. UNCHANGED <<crashes, verified, raced, cutShort, gone, dropped, revived,
                     lastUser, lastSession>>
      BY <2>10 DEF Audit, LogActivity
    <3>3. held' = held \/ (held' = held \cup {s.token} /\ s.op = "login" /\ s.sess # 0)
      BY <2>10, <3>1 DEF Audit
    <3>4. left' = left \/ (left' = left \cup {s.sess} /\ s.op = "logout")
      BY <2>10, <3>1 DEF Audit
    <3>5. held' \subseteq Token  BY <3>1, <3>3 DEF Books, Carries
    <3>6. left' \subseteq 1..lastSession  BY <3>1, <3>4 DEF Books, Carries
    <3> QED  BY <3>2, <3>5, <3>6 DEF Books
  <2> QED  BY <1>4, <2>1, <2>2, <2>3, <2>4, <2>5, <2>6, <2>7, <2>8, <2>9, <2>10 DEF Step
<1>5. ASSUME NEW ok \in BOOLEAN, Purge(ok)  PROVE Books'
  BY <1>2, <1>5 DEF Purge, PurgeExpiredSessions
<1>6. ASSUME NEW ok \in BOOLEAN, Crash(ok)  PROVE Books'
  <2>1. /\ UNCHANGED <<held, verified, raced, gone, left, dropped, lastSession>>
        /\ crashes' = crashes + 1
        /\ revived' \subseteq revived \cup dropped
        /\ cutShort' \subseteq cutShort \cup 1..lastUser
        /\ lastUser' \in {lastUser, lastUser + 1}
    BY <1>6 DEF Crash, Restart
  <2>2. 1..lastUser \subseteq 1..lastUser'  BY <1>1, <2>1
  <2>3. crashes' \in Nat  BY <2>1 DEF Books
  <2> QED  BY <2>1, <2>2, <2>3 DEF Books
<1>7. CASE Clock  BY <1>2, <1>7 DEF Clock, Tick, memory
<1>8. CASE UNCHANGED vars  BY <1>2, <1>8 DEF vars, storeVars, memory
<1> QED  BY <1>3, <1>4, <1>5, <1>6, <1>7, <1>8 DEF Next

-----------------------------------------------------------------------------
(* A deletion is final.                                                    *)

\* No step brings an old id back: the accounts are those there were, and at
\* most one with the next id.
LEMMA NoComeback ==
  ASSUME Core, Books, DeletionSticks, UNCHANGED gone,
         DOMAIN users' \subseteq DOMAIN users \cup DOMAIN disk.users \cup {lastUser + 1},
         UNCHANGED disk \/ \E ok \in BOOLEAN : Save(ok)
  PROVE  DeletionSticks'
<1>1. gone \subseteq 1..lastUser /\ lastUser \in Nat
  BY DEF Books, Core, StoreInv, Counters
<1>2. lastUser + 1 \notin gone  BY <1>1
<1>3. \A u \in gone : u \notin DOMAIN users'  BY <1>2 DEF DeletionSticks
<1>4. disk' = disk \/ disk'.users = users'  BY DEF Save
<1> QED  BY <1>3, <1>4 DEF DeletionSticks

LEMMA DeletionStep ==
  ASSUME FlowAssumption, Core, Books, DeletionSticks, [Next]_vars
  PROVE  DeletionSticks'
<1>1. ASSUME UNCHANGED <<users, disk, gone>>  PROVE DeletionSticks'
  BY <1>1 DEF DeletionSticks
<1>2. ASSUME NEW r \in Req, Start(r)  PROVE DeletionSticks'
  BY <1>1, <1>2 DEF Start, LoginLookup, Authenticate, KeyRequest, storeVars, memory, history
<1>3. ASSUME NEW r \in Req, Step(r)  PROVE DeletionSticks'
  <2>1. CASE LoadUser(r) \/ LogoutFind(r) \/ ChangeReload(r)
    BY <1>1, <2>1 DEF LoadUser, LogoutFind, ChangeReload, storeVars, memory, history
  <2>2. ASSUME NEW ok \in BOOLEAN,
               \/ LoginFailed(r, ok) \/ LoginWelcome(r, ok) \/ SetHash(r, ok) \/ AdminUpdate(r, ok)
        PROVE  DeletionSticks'
    <3>1. CASE UNCHANGED storeVars
      BY <1>1, <2>2, <3>1
         DEF LoginFailed, LoginWelcome, SetHash, AdminUpdate, storeVars, memory, history
    <3>2. ASSUME NEW id, NEW u, UpdateUser(id, u, ok)  PROVE DeletionSticks'
      <4>1. DOMAIN users' = DOMAIN users /\ Save(ok)  BY <3>2 DEF UpdateUser
      <4>2. UNCHANGED gone
        BY <2>2 DEF LoginFailed, LoginWelcome, SetHash, AdminUpdate, history
      <4> QED  BY <4>1, <4>2, NoComeback
    <3>3. ASSUME NEW id, NEW u, UpdateUserRefused(id, u), AdminUpdate(r, ok)
          PROVE  DeletionSticks'
      <4>1. DOMAIN users' = DOMAIN users /\ UNCHANGED disk  BY <3>3 DEF UpdateUserRefused
      <4>2. UNCHANGED gone  BY <3>3 DEF AdminUpdate, history
      <4> QED  BY <4>1, <4>2, NoComeback
    <3> QED  BY <2>2, <3>1, <3>2, <3>3 DEF LoginFailed, LoginWelcome, SetHash, AdminUpdate
  <2>3. ASSUME NEW ok \in BOOLEAN, IssueToken(r, ok)  PROVE DeletionSticks'
    <3>1. UNCHANGED <<users, gone>> /\ Save(ok)  BY <2>3 DEF IssueToken, CreateSession
    <3> QED  BY <3>1, NoComeback
  <2>4. ASSUME NEW ok \in BOOLEAN, LogoutRevoke(r, ok)  PROVE DeletionSticks'
    <3>1. UNCHANGED <<users, gone>> /\ (Save(ok) \/ UNCHANGED disk)
      BY <2>4 DEF LogoutRevoke, RevokeSession, storeVars, memory, history
    <3> QED  BY <3>1, NoComeback
  <2>5. ASSUME NEW ok \in BOOLEAN, RevokeAll(r, ok)  PROVE DeletionSticks'
    <3>1. UNCHANGED <<users, gone>> /\ Save(ok)  BY <2>5 DEF RevokeAll, RevokeUserSessions
    <3> QED  BY <3>1, NoComeback
  <2>6. ASSUME NEW ok \in BOOLEAN, AdminCreate(r, ok)  PROVE DeletionSticks'
    <3>1. CASE UNCHANGED storeVars
      BY <1>1, <2>6, <3>1 DEF AdminCreate, storeVars, memory, history
    <3>2. ASSUME NEW u, CreateUser(u, ok)  PROVE DeletionSticks'
      <4>1. DOMAIN users' \subseteq DOMAIN users \cup {lastUser + 1} /\ Save(ok)
        BY <3>2 DEF CreateUser, Put
      <4>2. UNCHANGED gone  BY <2>6 DEF AdminCreate, history
      <4> QED  BY <4>1, <4>2, NoComeback
    <3> QED  BY <2>6, <3>1, <3>2 DEF AdminCreate
  <2>7. ASSUME NEW ok \in BOOLEAN, AdminDelete(r, ok)  PROVE DeletionSticks'
    <3>1. CASE UNCHANGED <<storeVars, gone>>
      BY <1>1, <3>1 DEF storeVars, memory
    <3>2. CASE /\ DeleteUser(req[r].subj, ok)
               /\ gone' = IF ok THEN gone \cup {req[r].subj} ELSE gone
      <4>1. DOMAIN users' = DOMAIN users \ {req[r].subj} /\ Save(ok)
        BY <3>2 DEF DeleteUser, Only
      <4>2. CASE ok
        <5>1. disk'.users = users'  BY <4>1, <4>2 DEF Save
        <5> QED  BY <3>2, <4>1, <4>2, <5>1 DEF DeletionSticks
      <4>3. CASE ~ok
        <5>1. UNCHANGED gone  BY <3>2, <4>3
        <5> QED  BY <4>1, <5>1, NoComeback
      <4> QED  BY <4>2, <4>3
    <3> QED  BY <2>7, <3>1, <3>2 DEF AdminDelete
  <2>8. ASSUME NEW ok \in BOOLEAN, Audit(r, ok)  PROVE DeletionSticks'
    <3>1. UNCHANGED <<users, gone>> /\ Save(ok)  BY <2>8 DEF Audit, LogActivity
    <3> QED  BY <3>1, NoComeback
  <2> QED  BY <1>3, <2>1, <2>2, <2>3, <2>4, <2>5, <2>6, <2>7, <2>8 DEF Step
<1>4. ASSUME NEW ok \in BOOLEAN, Purge(ok)  PROVE DeletionSticks'
  <2>1. UNCHANGED <<users, gone>> /\ Save(ok)  BY <1>4 DEF Purge, PurgeExpiredSessions, history
  <2> QED  BY <2>1, NoComeback
<1>5. ASSUME NEW ok \in BOOLEAN, Crash(ok)  PROVE DeletionSticks'
  <2>1. /\ UNCHANGED gone
        /\ UNCHANGED disk \/ Save(ok)
        /\ DOMAIN users' \subseteq DOMAIN disk.users \cup {lastUser + 1}
    BY <1>5 DEF Crash, Restart
  <2> QED  BY <2>1, NoComeback
<1>6. CASE Clock  BY <1>1, <1>6 DEF Clock, Tick, history, memory
<1>7. CASE UNCHANGED vars  BY <1>1, <1>7 DEF vars, storeVars, memory, history
<1> QED  BY <1>2, <1>3, <1>4, <1>5, <1>6, <1>7 DEF Next

-----------------------------------------------------------------------------
(* A logout is final for its row.                                          *)

\* A step leaves the other requests alone.
LEMMA OthersWait ==
  ASSUME Slots, NEW r \in Req, Start(r) \/ Step(r)
  PROVE  \A q \in Req \ {r} : req'[q] = req[q]
<1>1. req \in [Req -> Slot]  BY DEF Slots
<1>2. ASSUME NEW n, req' = [req EXCEPT ![r] = n]  PROVE \A q \in Req \ {r} : req'[q] = req[q]
  BY <1>1, <1>2
<1>3. CASE Start(r)
  <2>1. \A slot : Begin(r, slot) => \A q \in Req \ {r} : req'[q] = req[q]
    BY <1>1 DEF Begin
  <2> QED  BY <1>1, <1>3, <2>1 DEF Start, LoginLookup, Authenticate, KeyRequest
<1>4. CASE Step(r)
  <2>1. \A slot : Begin(r, slot) => \A q \in Req \ {r} : req'[q] = req[q]
    BY <1>1 DEF Begin
  <2>2. Answer(r) => \A q \in Req \ {r} : req'[q] = req[q]  BY <1>1 DEF Answer
  <2>3. \A step : Goto(r, step) => \A q \in Req \ {r} : req'[q] = req[q]  BY <1>1 DEF Goto
  <2>4. CASE LoadUser(r) \/ LogoutFind(r) \/ ChangeReload(r)
    BY <1>1, <2>1, <2>2, <2>4 DEF LoadUser, LogoutFind, ChangeReload
  <2>5. ASSUME NEW ok \in BOOLEAN,
               \/ LoginFailed(r, ok) \/ IssueToken(r, ok) \/ LoginWelcome(r, ok)
               \/ LogoutRevoke(r, ok) \/ SetHash(r, ok) \/ RevokeAll(r, ok)
        PROVE  \A q \in Req \ {r} : req'[q] = req[q]
    BY <1>1, <2>2, <2>3, <2>5
       DEF LoginFailed, IssueToken, LoginWelcome, LogoutRevoke, SetHash, RevokeAll
  <2>6. ASSUME NEW ok \in BOOLEAN,
               AdminCreate(r, ok) \/ AdminUpdate(r, ok) \/ AdminDelete(r, ok) \/ Audit(r, ok)
        PROVE  \A q \in Req \ {r} : req'[q] = req[q]
    BY <2>2, <2>3, <2>6 DEF AdminCreate, AdminUpdate, AdminDelete, Audit
  <2> QED  BY <1>4, <2>4, <2>5, <2>6 DEF Step
<1> QED  BY <1>3, <1>4

\* Only LogoutRevoke brings a logout to its last step.
LEMMA OnlyRevokeLeaves ==
  ASSUME FlowAssumption, Core, held \subseteq Token, NEW r \in Req, Start(r) \/ Step(r),
         \A ok \in BOOLEAN : ~LogoutRevoke(r, ok)
  PROVE  \/ req'[r] = req[r]
         \/ req'[r].op # "logout" \/ req'[r].at # "audit"
<1>1. PICK old \in Slot : old = req[r] /\ Reaches(old)  BY DEF Core, Slots
<1>2. req \in [Req -> Slot]  BY DEF Core, Slots
<1>3. None # "logout"  BY DEF FlowAssumption, Ops
<1>4. Answer(r) => req'[r].op # "logout"  BY <1>2, <1>3 DEF Answer, Idle
<1>5. ASSUME NEW slot \in Slot, slot.op \in Ops, Begin(r, slot)
      PROVE  req'[r].op # "logout" \/ req'[r].at # "audit"
  <2>1. CASE req' = [req EXCEPT ![r] = Idle]  BY <1>4, <2>1 DEF Answer
  <2>2. ASSUME NEW step, step # "audit", req' = [req EXCEPT ![r] = [slot EXCEPT !.at = step]]
        PROVE  req'[r].at # "audit"
    <3>1. [slot EXCEPT !.at = step].at = step  BY DEF Slot
    <3> QED  BY <1>2, <2>2, <3>1
  <2>3. CASE slot.op \notin {"logout", "change", "reset"}
    <3>1. slot.op # "audit"  BY <1>5 DEF Ops, AdminOps
    <3> QED  BY <1>5, <2>1, <2>2, <2>3, <3>1 DEF Begin
  <2>4. CASE slot.op = "logout"
    <3>1. req' = [req EXCEPT ![r] = [slot EXCEPT !.at = "refind"]]  BY <1>5, <2>4 DEF Begin
    <3> QED  BY <2>2, <3>1
  <2>5. CASE slot.op = "change"
    <3>1. req' = [req EXCEPT ![r] = [slot EXCEPT !.at = "reload"]]  BY <1>5, <2>5 DEF Begin
    <3> QED  BY <2>2, <3>1
  <2>6. CASE slot.op = "reset"
    <3>1. req' = [req EXCEPT ![r] = [slot EXCEPT !.at = "setHash"]]  BY <1>5, <2>6 DEF Begin
    <3> QED  BY <2>2, <3>1
  <2> QED  BY <2>3, <2>4, <2>5, <2>6
<1>6. CASE Start(r)
  <2>1. ASSUME NEW e \in Emails, NEW p \in Passwords, LoginLookup(r, e, p)
        PROVE  req'[r] = req[r] \/ req'[r].op # "logout"
    <3>1. \A u, step : [Idle EXCEPT !.op = "login", !.subj = u, !.at = step].op = "login"
      BY DEF Idle
    <3>2. \A u, step, t : [[Idle EXCEPT !.op = "login", !.subj = u, !.at = step]
                            EXCEPT !.pw = p, !.token = t].op = "login"
      BY DEF Idle
    <3>3. ASSUME NEW n, n.op = "login", req' = [req EXCEPT ![r] = n]  PROVE req'[r].op # "logout"
      BY <1>2, <3>3
    <3>4. CASE UNCHANGED req  BY <3>4
    <3>5. CASE req' = [req EXCEPT ![r] = [Idle EXCEPT !.op = "login", !.subj = 0, !.at = "audit"]]
      BY <3>1, <3>3, <3>5
    <3>6. ASSUME NEW id, NEW step, req' = [req EXCEPT ![r] =
                   [Idle EXCEPT !.op = "login", !.subj = id, !.at = step]]
          PROVE  req'[r].op # "logout"
      BY <3>1, <3>3, <3>6
    <3>7. ASSUME NEW id, NEW t, req' = [req EXCEPT ![r] =
                   [[Idle EXCEPT !.op = "login", !.subj = id, !.at = "issue"]
                    EXCEPT !.pw = p, !.token = t]]
          PROVE  req'[r].op # "logout"
      BY <3>2, <3>3, <3>7
    <3> QED  BY <2>1, <3>4, <3>5, <3>6, <3>7 DEF LoginLookup
  <2>2. ASSUME NEW b \in Bodies, NEW target \in Targets(b), NEW token \in held,
               Authenticate(r, b, target, token)
        PROVE  req'[r] = req[r] \/ req'[r].at # "audit"
    <3>1. [Arriving(b, target) EXCEPT !.at = "load", !.token = token].at = "load"
      BY DEF Arriving, Idle
    <3> QED  BY <1>2, <2>2, <3>1 DEF Authenticate
  <2>3. ASSUME NEW b \in Bodies, NEW target \in Targets(b), KeyRequest(r, b, target)
        PROVE  req'[r].op # "logout" \/ req'[r].at # "audit"
    <3>1. PICK n \in Slot : Begin(r, n) /\ n.op \in Ops  BY <2>3, KeySlot DEF Core
    <3> QED  BY <1>5, <3>1
  <2> QED  BY <1>6, <2>1, <2>2, <2>3 DEF Start
<1>7. CASE Step(r)
  <2>1. \A step : Goto(r, step) => req'[r].op = old.op /\ req'[r].at = step
    BY <1>1, <1>2 DEF Goto, Slot
  <2>2. CASE LoadUser(r)
    <3>1. ASSUME NEW id \in DOMAIN users, Begin(r, [req[r] EXCEPT !.actor = id])
          PROVE  req'[r].op # "logout" \/ req'[r].at # "audit"
      <4>1. id \in Nat  BY DEF Core, StoreInv, Tables, IsUsers
      <4>2. PICK s \in Slot : s = [old EXCEPT !.actor = id] /\ s.op = old.op
        <5>1. [old EXCEPT !.actor = id] \in Slot /\ [old EXCEPT !.actor = id].op = old.op
          BY <4>1 DEF Slot
        <5> QED  BY <5>1
      <4>3. old.op \in Ops  BY <1>1, <2>2 DEF LoadUser, Reaches, Ops, AdminOps
      <4> QED  BY <1>1, <1>5, <3>1, <4>2, <4>3
    <3> QED  BY <1>4, <2>2, <3>1 DEF LoadUser
  <2>3. CASE LogoutFind(r)
    <3>1. ASSUME NEW i, req' = [req EXCEPT ![r].at = "revoke", ![r].sess = i]
          PROVE  req'[r].at # "audit"
      BY <1>1, <1>2, <3>1 DEF Slot
    <3> QED  BY <1>4, <2>3, <3>1 DEF LogoutFind
  <2>4. CASE ChangeReload(r)
    <3>1. ASSUME NEW i, req' = [req EXCEPT ![r].at = "setHash", ![r].subj = i]
          PROVE  req'[r].at # "audit"
      BY <1>1, <1>2, <3>1 DEF Slot
    <3> QED  BY <1>4, <2>4, <3>1 DEF ChangeReload
  <2>5. ASSUME NEW ok \in BOOLEAN, LoginFailed(r, ok) \/ LoginWelcome(r, ok)
        PROVE  req'[r].op # "logout"
    <3>1. old.op = "login"  BY <1>1, <2>5 DEF LoginFailed, LoginWelcome, Reaches, FlowAssumption
    <3> QED  BY <2>1, <2>5, <3>1 DEF LoginFailed, LoginWelcome
  <2>6. ASSUME NEW ok \in BOOLEAN, IssueToken(r, ok)  PROVE req'[r].op # "logout"
    <3>1. old.op = "login"  BY <1>1, <2>6 DEF IssueToken, Reaches, FlowAssumption
    <3>2. ASSUME NEW i, NEW t,
                 req' = [req EXCEPT ![r].at = "welcome", ![r].sess = i, ![r].token = t, ![r].pw = None]
          PROVE  req'[r].op = old.op
      BY <1>1, <1>2, <3>2 DEF Slot
    <3> QED  BY <1>4, <2>6, <3>1, <3>2 DEF IssueToken
  <2>7. ASSUME NEW ok \in BOOLEAN, SetHash(r, ok)  PROVE req'[r].op # "logout"
    <3>1. old.op # "logout"  BY <1>1, <2>7 DEF SetHash, Reaches
    <3> QED  BY <1>4, <2>1, <2>7, <3>1 DEF SetHash
  <2>8. ASSUME NEW ok \in BOOLEAN, RevokeAll(r, ok)  PROVE req'[r].op # "logout"
    <3>1. old.op # "logout"  BY <1>1, <2>8 DEF RevokeAll, Reaches
    <3> QED  BY <2>1, <2>8, <3>1 DEF RevokeAll
  <2>9. ASSUME NEW ok \in BOOLEAN, AdminCreate(r, ok) \/ AdminUpdate(r, ok) \/ AdminDelete(r, ok)
        PROVE  req'[r].op # "logout"
    <3>1. old.op # "logout"
      BY <1>1, <2>9 DEF AdminCreate, AdminUpdate, AdminDelete, Reaches
    <3> QED  BY <1>4, <2>1, <2>9, <3>1 DEF AdminCreate, AdminUpdate, AdminDelete
  <2>10. ASSUME NEW ok \in BOOLEAN, Audit(r, ok)  PROVE req'[r].op # "logout"
    BY <1>4, <2>10 DEF Audit
  <2> QED  BY <1>7, <2>2, <2>3, <2>4, <2>5, <2>6, <2>7, <2>8, <2>9, <2>10 DEF Step
<1> QED  BY <1>6, <1>7

\* Revoked rows stay revoked and removed rows stay away in one step.
Final == \A s \in DOMAIN sessions' : s \in 1..lastSession =>
           s \in DOMAIN sessions /\ (sessions[s].revoked => sessions'[s].revoked)

\* The session rows in the file are those from before the step or after it.
DiskFollows == disk'.sessions \in {disk.sessions, sessions'}

LEMMA SaveFollows == ASSUME NEW ok \in BOOLEAN, Save(ok) PROVE DiskFollows
BY DEF Save, DiskFollows

LEMMA RevocationsStay ==
  ASSUME FlowAssumption, Core, [Next]_vars, \A ok \in BOOLEAN : ~Crash(ok)
  PROVE  Final /\ DiskFollows
<1>0. StoreInv  BY DEF Core
<1>1. ASSUME UNCHANGED <<sessions, disk>>  PROVE Final /\ DiskFollows
  BY <1>1 DEF Final, DiskFollows
<1>2. ASSUME NEW ok \in BOOLEAN, Save(ok), UNCHANGED sessions  PROVE Final /\ DiskFollows
  BY <1>2, SaveFollows DEF Final
<1>3. ASSUME NEW id, NEW ok \in BOOLEAN, Save(ok), sessions' = RevokedFor(id)
      PROVE  Final /\ DiskFollows
  BY <1>0, <1>3, SaveFollows, RevokedForType DEF Final, StoreInv, Tables
<1>4. ASSUME NEW r \in Req, Start(r)  PROVE Final /\ DiskFollows
  BY <1>1, <1>4 DEF Start, LoginLookup, Authenticate, KeyRequest, storeVars, memory
<1>5. ASSUME NEW r \in Req, Step(r)  PROVE Final /\ DiskFollows
  <2>1. CASE LoadUser(r) \/ LogoutFind(r) \/ ChangeReload(r)
    BY <1>1, <2>1 DEF LoadUser, LogoutFind, ChangeReload, storeVars, memory
  <2>2. ASSUME NEW ok \in BOOLEAN,
               \/ LoginFailed(r, ok) \/ LoginWelcome(r, ok) \/ SetHash(r, ok)
               \/ AdminUpdate(r, ok) \/ AdminCreate(r, ok)
        PROVE  Final /\ DiskFollows
    BY <1>1, <1>2, <2>2 DEF LoginFailed, LoginWelcome, SetHash, AdminUpdate, AdminCreate,
       UpdateUser, UpdateUserRefused, CreateUser, storeVars, memory
  <2>3. ASSUME NEW ok \in BOOLEAN, IssueToken(r, ok)  PROVE Final /\ DiskFollows
    <3>1. PICK t : sessions' = Put(sessions, lastSession + 1, t) /\ Save(ok)
      BY <2>3 DEF IssueToken, CreateSession
    <3>2. lastSession \in Nat  BY <1>0 DEF StoreInv, Counters
    <3>3. lastSession + 1 \notin 1..lastSession  BY <3>2
    <3> QED  BY <3>1, <3>3, SaveFollows DEF Final, Put
  <2>4. ASSUME NEW ok \in BOOLEAN, LogoutRevoke(r, ok)  PROVE Final /\ DiskFollows
    <3>1. CASE UNCHANGED storeVars  BY <1>1, <3>1 DEF storeVars, memory
    <3>2. ASSUME NEW i, RevokeSession(i, ok)  PROVE Final /\ DiskFollows
      <4>1. Save(ok)  BY <3>2 DEF RevokeSession
      <4> QED  BY <1>0, <3>2, <4>1, SaveFollows, RevokeSessionInv DEF Final
    <3> QED  BY <2>4, <3>1, <3>2 DEF LogoutRevoke
  <2>5. ASSUME NEW ok \in BOOLEAN, RevokeAll(r, ok)  PROVE Final /\ DiskFollows
    BY <1>3, <2>5 DEF RevokeAll, RevokeUserSessions
  <2>6. ASSUME NEW ok \in BOOLEAN, AdminDelete(r, ok)  PROVE Final /\ DiskFollows
    BY <1>1, <1>3, <2>6 DEF AdminDelete, DeleteUser, storeVars, memory
  <2>7. ASSUME NEW ok \in BOOLEAN, Audit(r, ok)  PROVE Final /\ DiskFollows
    BY <1>2, <2>7 DEF Audit, LogActivity
  <2> QED  BY <1>5, <2>1, <2>2, <2>3, <2>4, <2>5, <2>6, <2>7 DEF Step
<1>6. ASSUME NEW ok \in BOOLEAN, Purge(ok)  PROVE Final /\ DiskFollows
  <2>1. PurgeExpiredSessions(ok)  BY <1>6 DEF Purge
  <2>2. Save(ok)  BY <2>1 DEF PurgeExpiredSessions
  <2> QED  BY <1>0, <2>1, <2>2, SaveFollows, PurgeInv DEF Final
<1>7. CASE Clock  BY <1>1, <1>7 DEF Clock, Tick, memory
<1>8. CASE UNCHANGED vars  BY <1>1, <1>8 DEF vars, storeVars, memory
<1> QED  BY <1>4, <1>5, <1>6, <1>7, <1>8 DEF Next

LEMMA OnlyAuditRecords ==
  ASSUME [Next]_vars, left' # left
  PROVE  \E r \in Req, ok \in BOOLEAN : Audit(r, ok)
<1>1. ASSUME NEW r \in Req, Start(r)  PROVE left' = left
  BY <1>1 DEF Start, LoginLookup, Authenticate, KeyRequest, history, logouts
<1>2. ASSUME NEW r \in Req, Step(r), \A ok \in BOOLEAN : ~Audit(r, ok)  PROVE left' = left
  <2>1. CASE LoadUser(r) \/ LogoutFind(r) \/ ChangeReload(r)
    BY <2>1 DEF LoadUser, LogoutFind, ChangeReload, history, logouts
  <2>2. ASSUME NEW ok \in BOOLEAN,
               \/ LoginFailed(r, ok) \/ IssueToken(r, ok) \/ LoginWelcome(r, ok)
               \/ LogoutRevoke(r, ok) \/ SetHash(r, ok) \/ RevokeAll(r, ok)
        PROVE  left' = left
    BY <2>2 DEF LoginFailed, IssueToken, LoginWelcome, LogoutRevoke, SetHash, RevokeAll, history, logouts
  <2>3. ASSUME NEW ok \in BOOLEAN, AdminCreate(r, ok) \/ AdminUpdate(r, ok) \/ AdminDelete(r, ok)
        PROVE  left' = left
    BY <2>3 DEF AdminCreate, AdminUpdate, AdminDelete, history, logouts
  <2> QED  BY <1>2, <2>1, <2>2, <2>3 DEF Step
<1>3. ASSUME NEW ok \in BOOLEAN, Purge(ok) \/ Crash(ok)  PROVE left' = left
  BY <1>3 DEF Purge, Crash, history, logouts
<1>4. Clock => left' = left  BY DEF Clock, history, logouts
<1>5. (UNCHANGED vars) => left' = left  BY DEF vars, history, logouts
<1> QED  BY <1>1, <1>2, <1>3, <1>4, <1>5 DEF Next

\* A row stays closed while neither a logout nor a restart is at it.
LEMMA ClosedStays ==
  ASSUME Final, DiskFollows, revived \subseteq dropped, NEW s \in 1..lastSession, Closed(s),
         s \in dropped' <=> s \in dropped, s \in revived' <=> s \in revived
  PROVE  Closed(s)'
<1>1. Shut(s) => Shut(s)'  BY DEF Final, Shut
<1>2. CASE s \in dropped  BY <1>1, <1>2 DEF Closed
<1>3. CASE s \notin dropped
  <2>1. Shut(s) /\ ShutOnDisk(s)  BY <1>3 DEF Closed
  <2>2. ShutOnDisk(s)'  BY <1>1, <2>1 DEF DiskFollows, ShutOnDisk, Shut
  <2> QED  BY <1>1, <2>1, <2>2 DEF Closed
<1> QED  BY <1>2, <1>3

\* A logout closes its row.
LEMMA LogoutCloses ==
  ASSUME Core, NEW r \in Req, NEW ok \in BOOLEAN, LogoutRevoke(r, ok)
  PROVE  Closed(req[r].sess)'
<1>1. PICK old \in Slot : old = req[r]  BY DEF Core, Slots
<1>2. req'[r].sess = old.sess
  BY <1>1 DEF LogoutRevoke, Goto, Core, Slots, Slot
<1>3. PICK i : i = old.sess  OBVIOUS
<1>4. CASE RevokeSession(i, ok) /\ dropped' = IF ok THEN dropped \ {i} ELSE dropped \cup {i}
  <2>1. Shut(i)'  BY <1>4, RevokeSessionInv DEF Core, Shut
  <2>2. ok => disk'.sessions = sessions'  BY <1>4 DEF RevokeSession, Save
  <2>3. ShutOnDisk(i)' \/ i \in dropped'  BY <1>4, <2>1, <2>2 DEF Shut, ShutOnDisk
  <2> QED  BY <1>2, <1>3, <2>1, <2>3 DEF Closed, Shut, ShutOnDisk
<1>5. CASE /\ i \notin DOMAIN sessions \/ sessions[i].revoked
           /\ UNCHANGED storeVars /\ dropped' = dropped \cup {i}
  BY <1>2, <1>3, <1>5 DEF Closed, Shut, storeVars, memory
<1> QED  BY <1>1, <1>3, <1>4, <1>5 DEF LogoutRevoke

\* A restart opens a closed row only if its logout dropped an error.
LEMMA CrashCloses ==
  ASSUME NEW ok \in BOOLEAN, Crash(ok), NEW s, Closed(s)
  PROVE  Closed(s)'
<1>1. /\ sessions' = disk.sessions /\ dropped' = dropped
      /\ revived' = revived \cup {i \in dropped \cap DOMAIN disk.sessions : Undone(i)}
  BY DEF Crash, Restart
<1>2. disk'.sessions = disk.sessions  BY <1>1 DEF Crash, Restart, Save
<1>3. ShutOnDisk(s)' \/ s \in dropped'  BY <1>1, <1>2 DEF Closed, ShutOnDisk
<1>4. CASE ShutOnDisk(s)
  <2>1. Shut(s)'  BY <1>1, <1>4 DEF Shut, ShutOnDisk
  <2> QED  BY <1>3, <2>1 DEF Closed
<1>5. CASE ~ShutOnDisk(s)
  <2>1. s \in dropped \cap DOMAIN disk.sessions /\ ~disk.sessions[s].revoked
    BY <1>5 DEF Closed, ShutOnDisk
  <2>2. s \in revived \/ Undone(s)  BY <2>1 DEF Closed, Shut, Undone
  <2>3. s \in revived'  BY <1>1, <2>1, <2>2
  <2> QED  BY <1>3, <2>3 DEF Closed
<1> QED  BY <1>4, <1>5

\* Only a logout and a restart write down a dropped error.
LEMMA OnlyLogoutDrops ==
  ASSUME [Next]_vars, \A ok \in BOOLEAN : ~Crash(ok)
  PROVE  \/ UNCHANGED <<dropped, revived>>
         \/ \E r \in Req, ok \in BOOLEAN : LogoutRevoke(r, ok)
<1>1. ASSUME NEW r \in Req, Start(r)  PROVE UNCHANGED <<dropped, revived>>
  BY <1>1 DEF Start, LoginLookup, Authenticate, KeyRequest, history, logouts
<1>2. ASSUME NEW r \in Req, Step(r), \A ok \in BOOLEAN : ~LogoutRevoke(r, ok)
      PROVE  UNCHANGED <<dropped, revived>>
  <2>1. CASE LoadUser(r) \/ LogoutFind(r) \/ ChangeReload(r)
    BY <2>1 DEF LoadUser, LogoutFind, ChangeReload, history, logouts
  <2>2. ASSUME NEW ok \in BOOLEAN,
               \/ LoginFailed(r, ok) \/ IssueToken(r, ok) \/ LoginWelcome(r, ok)
               \/ SetHash(r, ok) \/ RevokeAll(r, ok)
        PROVE  UNCHANGED <<dropped, revived>>
    BY <2>2 DEF LoginFailed, IssueToken, LoginWelcome, SetHash, RevokeAll, history, logouts
  <2>3. ASSUME NEW ok \in BOOLEAN,
               AdminCreate(r, ok) \/ AdminUpdate(r, ok) \/ AdminDelete(r, ok) \/ Audit(r, ok)
        PROVE  UNCHANGED <<dropped, revived>>
    BY <2>3 DEF AdminCreate, AdminUpdate, AdminDelete, Audit, history, logouts
  <2> QED  BY <1>2, <2>1, <2>2, <2>3 DEF Step
<1>3. ASSUME NEW ok \in BOOLEAN, Purge(ok)  PROVE UNCHANGED <<dropped, revived>>
  BY <1>3 DEF Purge, history, logouts
<1>4. Clock => UNCHANGED <<dropped, revived>>  BY DEF Clock, history, logouts
<1>5. (UNCHANGED vars) => UNCHANGED <<dropped, revived>>  BY DEF vars, history, logouts
<1> QED  BY <1>1, <1>2, <1>3, <1>4, <1>5 DEF Next

\* No step opens a closed row, whatever it does to the file.
LEMMA ClosedStep ==
  ASSUME FlowAssumption, Core, Books, [Next]_vars, NEW s \in 1..lastSession, Closed(s)
  PROVE  Closed(s)'
<1>1. ASSUME NEW ok \in BOOLEAN, Crash(ok)  PROVE Closed(s)'
  BY <1>1, CrashCloses
<1>2. CASE \A ok \in BOOLEAN : ~Crash(ok)
  <2>1. Final /\ DiskFollows  BY <1>2, RevocationsStay
  <2>2. revived \subseteq dropped  BY DEF Books
  <2>3. CASE UNCHANGED <<dropped, revived>>  BY <2>1, <2>2, <2>3, ClosedStays
  <2>4. ASSUME NEW r \in Req, NEW ok \in BOOLEAN, LogoutRevoke(r, ok)  PROVE Closed(s)'
    <3>1. PICK i : i = req[r].sess  OBVIOUS
    <3>2. CASE s = i
      <4>1. Closed(req[r].sess)'  BY <2>4, LogoutCloses
      <4>2. req'[r].sess = req[r].sess
        <5>1. PICK old \in Slot : old = req[r]  BY DEF Core, Slots
        <5> QED  BY <2>4, <5>1 DEF LogoutRevoke, Goto, Core, Slots, Slot
      <4> QED  BY <3>1, <3>2, <4>1, <4>2 DEF Closed, Shut, ShutOnDisk
    <3>3. CASE s # i
      <4>1. /\ s \in dropped' <=> s \in dropped
            /\ s \in revived' <=> s \in revived
        BY <2>4, <3>1, <3>3 DEF LogoutRevoke
      <4> QED  BY <2>1, <2>2, <4>1, ClosedStays
    <3> QED  BY <3>2, <3>3
  <2> QED  BY <1>2, <2>3, <2>4, OnlyLogoutDrops
<1> QED  BY <1>1, <1>2

LEMMA LogoutStep ==
  ASSUME FlowAssumption, Core, Books, LogoutInv, [Next]_vars
  PROVE  LogoutInv'
<1>1. /\ \A s \in left : Closed(s)
      /\ \A q \in Leaving : Closed(req[q].sess)
  BY DEF LogoutInv
<1>2. ASSUME NEW s \in 1..lastSession, Closed(s)  PROVE Closed(s)'
  BY <1>2, ClosedStep
<1>3. left \subseteq 1..lastSession  BY DEF Books
<1>4. \A q \in Leaving : req[q].sess \in 1..lastSession
  BY DEF Leaving, Core, Slots, Carries
<1>5. ASSUME NEW q \in Req, q \in Leaving, req'[q] = req[q]  PROVE Closed(req[q].sess)'
  <2>1. PICK i \in 1..lastSession : i = req[q].sess /\ Closed(i)  BY <1>1, <1>4, <1>5
  <2>2. Closed(i)'  BY <1>2, <2>1
  <2> QED  BY <1>5, <2>1, <2>2 DEF Closed, Shut, ShutOnDisk
<1>6. \A s \in left : Closed(s)'  BY <1>1, <1>2, <1>3
<1>7. ASSUME NEW r \in Req, Start(r) \/ Step(r)
      PROVE  \A q \in Leaving' : Closed(req[q].sess)'
  <2>1. ASSUME NEW q \in Leaving', q # r  PROVE Closed(req[q].sess)'
    <3>1. q \in Req /\ req'[q] = req[q]  BY <1>7, <2>1, OthersWait DEF Leaving, Core
    <3>2. q \in Leaving  BY <2>1, <3>1 DEF Leaving
    <3> QED  BY <1>5, <3>1, <3>2
  <2>2. ASSUME r \in Leaving'  PROVE Closed(req[r].sess)'
    <3>1. CASE \A ok \in BOOLEAN : ~LogoutRevoke(r, ok)
      <4>1. req'[r] = req[r]  BY <1>7, <2>2, <3>1, OnlyRevokeLeaves DEF Leaving, Books
      <4>2. r \in Leaving  BY <2>2, <4>1 DEF Leaving
      <4> QED  BY <1>5, <4>1, <4>2
    <3>2. ASSUME NEW ok \in BOOLEAN, LogoutRevoke(r, ok)  PROVE Closed(req[r].sess)'
      BY <3>2, LogoutCloses
    <3> QED  BY <3>1, <3>2
  <2> QED  BY <2>1, <2>2
<1>8. \A q \in Leaving' : Closed(req[q].sess)'
  <2>1. CASE UNCHANGED req
    <3>1. ASSUME NEW q \in Leaving'  PROVE q \in Req /\ q \in Leaving /\ req'[q] = req[q]
      BY <2>1, <3>1 DEF Leaving
    <3> QED  BY <1>5, <3>1
  <2>2. ASSUME NEW ok \in BOOLEAN, Crash(ok)  PROVE Leaving' = {}
    <3>1. Idle.op # "logout"  BY DEF Idle, FlowAssumption, Ops
    <3> QED  BY <2>2, <3>1 DEF Crash, Leaving
  <2> QED  BY <1>7, <2>1, <2>2 DEF Next, Purge, Clock, vars
<1>9. ASSUME NEW s \in left'  PROVE Closed(s)'
  <2>1. CASE s \in left  BY <1>6, <2>1
  <2>2. CASE s \notin left
    <3>1. PICK r \in Req, ok \in BOOLEAN : Audit(r, ok) /\ req[r].op = "logout" /\ s = req[r].sess
      <4>1. left' # left  BY <1>9, <2>2
      <4>2. PICK r \in Req, ok \in BOOLEAN : Audit(r, ok)  BY <4>1, OnlyAuditRecords
      <4> QED  BY <1>9, <2>2, <4>2 DEF Audit
    <3>2. r \in Leaving  BY <3>1 DEF Audit, Leaving
    <3>3. s \in 1..lastSession /\ Closed(s)  BY <1>1, <1>4, <3>1, <3>2
    <3> QED  BY <1>2, <3>3
  <2> QED  BY <2>1, <2>2
<1> QED  BY <1>8, <1>9 DEF LogoutInv

-----------------------------------------------------------------------------
(* A stale session is condemned.                                           *)

Excused(s) ==
  \/ sessions[s].revoked \/ Backed(s) \/ s \in raced
  \/ PendingRevoke(sessions[s].user) \/ sessions[s].user \in cutShort

LEMMA Condemned == StaleSessionsAreCondemned <=> \A s \in DOMAIN sessions : Excused(s)
BY DEF StaleSessionsAreCondemned, Excused

\* A step that changes the password of at most one account, and revokes its
\* sessions or leaves them to somebody who will.
LEMMA OneAccount ==
  ASSUME StaleSessionsAreCondemned, NEW id, raced \subseteq raced',
         \A s \in DOMAIN sessions : verified'[s] = verified[s],
         \A s \in DOMAIN sessions \cap DOMAIN sessions' :
           /\ sessions'[s].user = sessions[s].user
           /\ sessions[s].revoked => sessions'[s].revoked
           /\ sessions[s].user = id =>
                sessions'[s].revoked \/ PendingRevoke(id)' \/ id \in cutShort',
         \A u : u # id =>
           /\ u \in DOMAIN users => u \in DOMAIN users' /\ users'[u].hash = users[u].hash
           /\ u \in cutShort => u \in cutShort'
           /\ PendingRevoke(u) => PendingRevoke(u)'
  PROVE  \A s \in DOMAIN sessions \cap DOMAIN sessions' : Excused(s)'
<1> SUFFICES ASSUME NEW s \in DOMAIN sessions, s \in DOMAIN sessions'
             PROVE  Excused(s)'
  OBVIOUS
<1>1. PICK u : u = sessions[s].user  OBVIOUS
<1>2. sessions'[s].user = u /\ verified'[s] = verified[s]  BY <1>1
<1>3. CASE u = id
  <2>1. sessions'[s].revoked \/ PendingRevoke(id)' \/ id \in cutShort'  BY <1>1, <1>3
  <2>2. PendingRevoke(id)' => PendingRevoke(sessions[s].user)'  BY <1>2, <1>3 DEF PendingRevoke
  <2> QED  BY <1>2, <1>3, <2>1, <2>2 DEF Excused
<1>4. CASE u # id
  <2>1. CASE sessions[s].revoked  BY <2>1 DEF Excused
  <2>2. CASE Backed(s)
    <3>1. u \in DOMAIN users /\ users[u].hash = verified[s]  BY <1>1, <2>2 DEF Backed
    <3>2. u \in DOMAIN users' /\ users'[u].hash = verified'[s]  BY <1>2, <1>4, <3>1
    <3> QED  BY <1>2, <3>2 DEF Excused, Backed
  <2>3. CASE s \in raced  BY <2>3 DEF Excused
  <2>4. CASE PendingRevoke(u)
    <3>1. PendingRevoke(u)'  BY <1>4, <2>4
    <3>2. PendingRevoke(sessions[s].user)'  BY <1>2, <3>1 DEF PendingRevoke
    <3> QED  BY <3>2 DEF Excused
  <2>5. CASE u \in cutShort
    <3>1. u \in cutShort'  BY <1>4, <2>5
    <3> QED  BY <1>2, <3>1 DEF Excused
  <2> QED  BY <1>1, <2>1, <2>2, <2>3, <2>4, <2>5, Condemned DEF Excused
<1> QED  BY <1>3, <1>4

\* A step that changes no password.
LEMMA NoAccount ==
  ASSUME StaleSessionsAreCondemned, Core, raced \subseteq raced', cutShort \subseteq cutShort',
         \A s \in DOMAIN sessions : verified'[s] = verified[s],
         \A s \in DOMAIN sessions \cap DOMAIN sessions' :
           /\ sessions'[s].user = sessions[s].user
           /\ sessions[s].revoked => sessions'[s].revoked,
         \A u \in DOMAIN users : u \in DOMAIN users' /\ users'[u].hash = users[u].hash,
         \A u : PendingRevoke(u) => PendingRevoke(u)'
  PROVE  \A s \in DOMAIN sessions \cap DOMAIN sessions' : Excused(s)'
<1>1. \A s \in DOMAIN sessions : sessions[s].user # 0
  BY DEF Core, StoreInv, Counters, Owners, Owned
<1> QED  BY <1>1, OneAccount

\* A pending revocation waits for its own handler.
LEMMA PendingKept ==
  ASSUME Core, NEW r \in Req, Start(r) \/ Step(r), req[r].at # "revokeAll"
  PROVE  \A u : PendingRevoke(u) => PendingRevoke(u)'
<1> SUFFICES ASSUME NEW u, PendingRevoke(u)  PROVE PendingRevoke(u)'
  OBVIOUS
<1>1. PICK q \in Req : req[q].at = "revokeAll" /\ req[q].subj = u  BY DEF PendingRevoke
<1>2. req'[q] = req[q]  BY <1>1, OthersWait DEF Core
<1> QED  BY <1>1, <1>2 DEF PendingRevoke

LEMMA PendingSame ==
  ASSUME UNCHANGED req
  PROVE  \A u : PendingRevoke(u) => PendingRevoke(u)'
BY DEF PendingRevoke

LEMMA Enough ==
  ASSUME DOMAIN sessions' \subseteq DOMAIN sessions,
         \A s \in DOMAIN sessions \cap DOMAIN sessions' : Excused(s)'
  PROVE  StaleSessionsAreCondemned'
BY DEF StaleSessionsAreCondemned, Excused

\* The steps that touch no session and no password.
LEMMA StaleKept ==
  ASSUME StaleSessionsAreCondemned, Core, UNCHANGED <<sessions, raced, cutShort, verified>>,
         \A u \in DOMAIN users : u \in DOMAIN users' /\ users'[u].hash = users[u].hash,
         \A u : PendingRevoke(u) => PendingRevoke(u)'
  PROVE  StaleSessionsAreCondemned'
<1>1. \A s \in DOMAIN sessions \cap DOMAIN sessions' : Excused(s)'  BY NoAccount
<1> QED  BY <1>1, Enough

LEMMA AccountsStale ==
  ASSUME FlowAssumption, Core, StaleSessionsAreCondemned, NEW r \in Req, NEW ok \in BOOLEAN,
         LoginFailed(r, ok) \/ LoginWelcome(r, ok) \/ AdminUpdate(r, ok) \/ AdminCreate(r, ok)
  PROVE  StaleSessionsAreCondemned'
<1>1. Step(r)  BY DEF Step
<1>2. req[r].at # "revokeAll"  BY DEF LoginFailed, LoginWelcome, AdminUpdate, AdminCreate
<1>3. \A u : PendingRevoke(u) => PendingRevoke(u)'  BY <1>1, <1>2, PendingKept
<1>4. UNCHANGED <<sessions, raced, cutShort, verified>>
  BY DEF LoginFailed, LoginWelcome, AdminUpdate, AdminCreate, UpdateUser, UpdateUserRefused,
     CreateUser, storeVars, memory, history
<1> DEFINE Kept == \A u \in DOMAIN users : u \in DOMAIN users' /\ users'[u].hash = users[u].hash
<1>5. ASSUME NEW id \in DOMAIN users, NEW v, v.hash = users[id].hash,
             users' = [users EXCEPT ![id] = v]
      PROVE  Kept
  BY <1>5
<1>6. ASSUME UNCHANGED storeVars  PROVE Kept  BY <1>6 DEF storeVars, memory
<1>7. ASSUME UpdateUser(req[r].subj, Failed(users[req[r].subj], now), ok)  PROVE Kept
  <2>1. PICK id \in DOMAIN users : id = req[r].subj  BY <1>7 DEF UpdateUser
  <2>2. PICK old \in User : old = users[id] /\ old.failed < FailLimit
    BY DEF Core, StoreInv, Tables, IsUsers, Below
  <2>3. now \in Nat  BY DEF Core, StoreInv, Counters
  <2>4. PICK v : v = Failed(old, now) /\ v.hash = old.hash  BY <2>2, <2>3, Failing
  <2>5. users' = [users EXCEPT ![id] = v]  BY <1>7, <2>1, <2>2, <2>4 DEF UpdateUser
  <2> QED  BY <1>5, <2>2, <2>4, <2>5
<1>8. ASSUME UpdateUser(req[r].subj, Cleared(users[req[r].subj]), ok)  PROVE Kept
  <2>1. PICK id \in DOMAIN users : id = req[r].subj  BY <1>8 DEF UpdateUser
  <2>2. PICK old \in User : old = users[id]  BY DEF Core, StoreInv, Tables, IsUsers
  <2>3. PICK v : v = Cleared(old) /\ v.hash = old.hash  BY <2>2, Clearing
  <2>4. users' = [users EXCEPT ![id] = v]  BY <1>8, <2>1, <2>2, <2>3 DEF UpdateUser
  <2> QED  BY <1>5, <2>2, <2>3, <2>4
<1>9. ASSUME AdminUpdate(r, ok), req[r].subj \in DOMAIN users,
             users' = [users EXCEPT ![req[r].subj] = Patched(users[req[r].subj], req[r].patch)]
      PROVE  Kept
  <2>1. PICK id \in DOMAIN users : id = req[r].subj  BY <1>9
  <2>2. PICK old \in User : old = users[id] /\ old.failed < FailLimit
    BY DEF Core, StoreInv, Tables, IsUsers, Below
  <2>3. PICK s \in Slot : s = req[r] /\ Reaches(s) /\ Carries(s) /\ s.at = "update"
    BY <1>9 DEF Core, Slots, AdminUpdate
  <2>4. s.op = "update"  BY <2>3 DEF Reaches, FlowAssumption
  <2>5. PICK p \in Patch : p = s.patch  BY <2>3, <2>4 DEF Carries
  <2>6. PICK v : v = Patched(old, p) /\ v.hash = old.hash  BY <2>2, Patching
  <2>7. users' = [users EXCEPT ![id] = v]  BY <1>9, <2>1, <2>2, <2>3, <2>5, <2>6
  <2> QED  BY <1>5, <2>2, <2>6, <2>7
<1>10. ASSUME NEW u, CreateUser(u, ok)  PROVE Kept
  <2>1. users' = Put(users, lastUser + 1, u)  BY <1>10 DEF CreateUser
  <2>2. DOMAIN users \subseteq 1..lastUser /\ lastUser \in Nat
    BY DEF Core, StoreInv, Counters, Tables, IsUsers
  <2>3. lastUser + 1 \notin DOMAIN users  BY <2>2
  <2> QED  BY <2>1, <2>3 DEF Put
<1>11. Kept
  BY <1>6, <1>7, <1>8, <1>9, <1>10
     DEF LoginFailed, LoginWelcome, AdminUpdate, AdminCreate, UpdateUser, UpdateUserRefused
<1> QED  BY <1>3, <1>4, <1>11, StaleKept

LEMMA IssueStale ==
  ASSUME FlowAssumption, Core, Books, StaleSessionsAreCondemned, NEW r \in Req,
         NEW ok \in BOOLEAN, IssueToken(r, ok)
  PROVE  StaleSessionsAreCondemned'
<1>0. PICK n : n = lastSession + 1  OBVIOUS
<1>1. PICK id \in 1..lastUser, p \in Passwords, t \in Token :
        /\ id = req[r].subj /\ p = req[r].pw
        /\ CreateSession([user |-> id, token |-> t, expires |-> now + TTL, revoked |-> FALSE], ok)
  BY Issued DEF Core
<1>2. PICK s : s = [user |-> id, token |-> t, expires |-> now + TTL, revoked |-> FALSE]
  OBVIOUS
<1>3. sessions' = Put(sessions, n, s) /\ UNCHANGED users /\ s.user = id
  BY <1>0, <1>1, <1>2 DEF CreateSession
<1>4. verified' = Append(verified, p) /\ UNCHANGED cutShort
      /\ raced' = IF id \in DOMAIN users /\ users[id].hash = p THEN raced ELSE raced \cup {n}
  BY <1>0, <1>1 DEF IssueToken
<1>5. verified \in Seq(Passwords) /\ Len(verified) = lastSession /\ lastSession \in Nat
      /\ DOMAIN sessions \subseteq 1..lastSession
  BY DEF Books, Core, StoreInv, Counters, Tables, IsSessions
<1>6. n \notin DOMAIN sessions  BY <1>0, <1>5
<1>7. verified'[n] = p /\ \A i \in 1..lastSession : verified'[i] = verified[i]
  BY <1>0, <1>4, <1>5, AppendProperties
<1>8. DOMAIN sessions' = DOMAIN sessions \cup {n} /\ sessions'[n] = s
      /\ \A i \in DOMAIN sessions : sessions'[i] = sessions[i]
  BY <1>3, <1>6 DEF Put
<1>9. \A u : PendingRevoke(u) => PendingRevoke(u)'
  <2>1. Step(r) /\ req[r].at # "revokeAll"  BY DEF Step, IssueToken
  <2> QED  BY <2>1, PendingKept
<1>10. \A i \in DOMAIN sessions : Excused(i)'
  <2>1. \A i \in DOMAIN sessions : verified'[i] = verified[i]  BY <1>5, <1>7
  <2>2. \A i \in DOMAIN sessions \cap DOMAIN sessions' : Excused(i)'
    BY <1>3, <1>4, <1>8, <1>9, <2>1, NoAccount
  <2> QED  BY <1>8, <2>2
<1>11. Excused(n)'
  <2>1. CASE id \in DOMAIN users /\ users[id].hash = p
    <3>1. sessions'[n].user = id  BY <1>3, <1>8
    <3>2. Backed(n)'  BY <1>3, <1>7, <2>1, <3>1 DEF Backed
    <3> QED  BY <3>2 DEF Excused, Backed
  <2>2. CASE ~(id \in DOMAIN users /\ users[id].hash = p)
    <3>1. n \in raced'  BY <1>4, <2>2
    <3> QED  BY <3>1 DEF Excused
  <2> QED  BY <2>1, <2>2
<1> QED  BY <1>8, <1>10, <1>11 DEF StaleSessionsAreCondemned, Excused

LEMMA SetHashStale ==
  ASSUME Core, StaleSessionsAreCondemned, NEW r \in Req, NEW ok \in BOOLEAN, SetHash(r, ok)
  PROVE  StaleSessionsAreCondemned'
<1>1. Step(r) /\ req[r].at # "revokeAll" /\ UNCHANGED <<verified, raced>>  BY DEF Step, SetHash
<1>2. \A u : PendingRevoke(u) => PendingRevoke(u)'  BY <1>1, PendingKept
<1>3. CASE UNCHANGED <<storeVars, cutShort>>
  <2>1. UNCHANGED <<users, sessions, cutShort>>  BY <1>3 DEF storeVars, memory
  <2> QED  BY <1>1, <1>2, <2>1, StaleKept
<1>4. CASE /\ UpdateUser(req[r].subj, Rehashed(users[req[r].subj], req[r]), ok)
           /\ ok => Goto(r, "revokeAll")
           /\ cutShort' = IF ok THEN cutShort ELSE cutShort \cup {req[r].subj}
  <2>1. PICK id \in DOMAIN users : id = req[r].subj  BY <1>4 DEF UpdateUser
  <2>2. PICK v : users' = [users EXCEPT ![id] = v]  BY <1>4, <2>1 DEF UpdateUser
  <2>3. UNCHANGED sessions  BY <1>4 DEF UpdateUser
  <2>4. ok => PendingRevoke(id)'
    <3>1. SUFFICES ASSUME ok PROVE PendingRevoke(id)'
      OBVIOUS
    <3>2. req' = [req EXCEPT ![r].at = "revokeAll"]  BY <1>4, <3>1 DEF Goto
    <3>3. req'[r].at = "revokeAll" /\ req'[r].subj = id  BY <2>1, <3>2 DEF Core, Slots, Slot
    <3> QED  BY <3>3 DEF PendingRevoke
  <2>5. ~ok => id \in cutShort'  BY <1>4, <2>1
  <2>6. cutShort \subseteq cutShort'  BY <1>4
  <2>7. \A u : u # id => (u \in DOMAIN users => u \in DOMAIN users' /\ users'[u].hash = users[u].hash)
    BY <2>2
  <2>8. \A s \in DOMAIN sessions \cap DOMAIN sessions' : Excused(s)'
    BY <1>1, <1>2, <2>3, <2>4, <2>5, <2>6, <2>7, OneAccount
  <2> QED  BY <2>3, <2>8, Enough
<1> QED  BY <1>3, <1>4 DEF SetHash

LEMMA RevokeAllStale ==
  ASSUME Core, StaleSessionsAreCondemned, NEW r \in Req, NEW ok \in BOOLEAN, RevokeAll(r, ok)
  PROVE  StaleSessionsAreCondemned'
<1>1. PICK id : id = req[r].subj  OBVIOUS
<1>2. sessions' = RevokedFor(id) /\ UNCHANGED <<users, verified, raced>>
      /\ cutShort' = cutShort \ {id}
  BY <1>1 DEF RevokeAll, RevokeUserSessions
<1>3. DOMAIN sessions' = DOMAIN sessions
      /\ \A s \in DOMAIN sessions :
           /\ sessions'[s].user = sessions[s].user
           /\ sessions[s].revoked => sessions'[s].revoked
           /\ sessions[s].user = id => sessions'[s].revoked
  BY <1>2, RevokedForType DEF Core, StoreInv, Tables
<1>4. ASSUME NEW u, u # id, PendingRevoke(u)  PROVE PendingRevoke(u)'
  <2>1. PICK q \in Req : req[q].at = "revokeAll" /\ req[q].subj = u  BY <1>4 DEF PendingRevoke
  <2>2. q # r  BY <1>1, <1>4, <2>1
  <2>3. Step(r)  BY DEF Step
  <2>4. req'[q] = req[q]  BY <2>2, <2>3, OthersWait DEF Core
  <2> QED  BY <2>1, <2>4 DEF PendingRevoke
<1>5. \A u : u # id => (u \in cutShort => u \in cutShort')  BY <1>2
<1>6. \A s \in DOMAIN sessions \cap DOMAIN sessions' : Excused(s)'
  BY <1>2, <1>3, <1>4, <1>5, OneAccount
<1> QED  BY <1>3, <1>6, Enough

LEMMA DeleteStale ==
  ASSUME Core, StaleSessionsAreCondemned, NEW r \in Req, NEW ok \in BOOLEAN, AdminDelete(r, ok)
  PROVE  StaleSessionsAreCondemned'
<1>1. Step(r) /\ req[r].at # "revokeAll" /\ UNCHANGED <<verified, raced, cutShort>>
  BY DEF Step, AdminDelete
<1>2. \A u : PendingRevoke(u) => PendingRevoke(u)'  BY <1>1, PendingKept
<1>3. CASE UNCHANGED storeVars
  <2>1. UNCHANGED <<users, sessions>>  BY <1>3 DEF storeVars, memory
  <2> QED  BY <1>1, <1>2, <2>1, StaleKept
<1>4. CASE DeleteUser(req[r].subj, ok)
  <2>1. PICK id : id = req[r].subj  OBVIOUS
  <2>2. sessions' = RevokedFor(id) /\ users' = Only(users, DOMAIN users \ {id})
    BY <1>4, <2>1 DEF DeleteUser
  <2>3. DOMAIN sessions' = DOMAIN sessions
        /\ \A s \in DOMAIN sessions :
             /\ sessions'[s].user = sessions[s].user
             /\ sessions[s].revoked => sessions'[s].revoked
             /\ sessions[s].user = id => sessions'[s].revoked
    BY <2>2, RevokedForType DEF Core, StoreInv, Tables
  <2>4. \A u : u # id => (u \in DOMAIN users => u \in DOMAIN users' /\ users'[u].hash = users[u].hash)
    BY <2>2 DEF Only
  <2>5. \A s \in DOMAIN sessions \cap DOMAIN sessions' : Excused(s)'
    BY <1>1, <1>2, <2>3, <2>4, OneAccount
  <2> QED  BY <2>3, <2>5, Enough
<1> QED  BY <1>3, <1>4 DEF AdminDelete

LEMMA LogoutStale ==
  ASSUME Core, StaleSessionsAreCondemned, NEW r \in Req, NEW ok \in BOOLEAN, LogoutRevoke(r, ok)
  PROVE  StaleSessionsAreCondemned'
<1>1. Step(r) /\ req[r].at # "revokeAll" /\ UNCHANGED <<verified, raced, cutShort>>
  BY DEF Step, LogoutRevoke, history
<1>2. \A u : PendingRevoke(u) => PendingRevoke(u)'  BY <1>1, PendingKept
<1>3. CASE UNCHANGED storeVars
  <2>1. UNCHANGED <<users, sessions>>  BY <1>3 DEF storeVars, memory
  <2> QED  BY <1>1, <1>2, <2>1, StaleKept
<1>4. ASSUME NEW i, RevokeSession(i, ok)  PROVE StaleSessionsAreCondemned'
  <2>1. UNCHANGED users  BY <1>4 DEF RevokeSession
  <2>2. DOMAIN sessions' = DOMAIN sessions
        /\ \A s \in DOMAIN sessions : /\ sessions'[s].user = sessions[s].user
                                      /\ sessions[s].revoked => sessions'[s].revoked
    BY <1>4, RevokeSessionInv DEF Core
  <2>3. \A s \in DOMAIN sessions \cap DOMAIN sessions' : Excused(s)'
    BY <1>1, <1>2, <2>1, <2>2, NoAccount
  <2> QED  BY <2>2, <2>3, Enough
<1> QED  BY <1>3, <1>4 DEF LogoutRevoke

LEMMA PurgeStale ==
  ASSUME Core, StaleSessionsAreCondemned, NEW ok \in BOOLEAN, Purge(ok)
  PROVE  StaleSessionsAreCondemned'
<1>1. PurgeExpiredSessions(ok) /\ UNCHANGED <<req, verified, raced, cutShort>>
  BY DEF Purge, history
<1>2. UNCHANGED users  BY <1>1 DEF PurgeExpiredSessions
<1>3. DOMAIN sessions' \subseteq DOMAIN sessions /\ \A s \in DOMAIN sessions' : sessions'[s] = sessions[s]
  BY <1>1, PurgeInv DEF Core
<1>4. \A u : PendingRevoke(u) => PendingRevoke(u)'  BY <1>1, PendingSame
<1>5. \A s \in DOMAIN sessions \cap DOMAIN sessions' : Excused(s)'
  BY <1>1, <1>2, <1>3, <1>4, NoAccount
<1> QED  BY <1>3, <1>5, Enough

\* After a restart the rows are the file's: one that memory had revoked or
\* outlived by a password is owed by an interrupted handler or a failed save.
LEMMA CrashStale ==
  ASSUME Core, StaleSessionsAreCondemned, NEW ok \in BOOLEAN, Crash(ok)
  PROVE  StaleSessionsAreCondemned'
<1>1. sessions' = disk.sessions /\ UNCHANGED <<verified, raced>>
      /\ cutShort' = cutShort \cup {u \in 1..lastUser : PendingRevoke(u) \/ Unsaved(u)}
  BY DEF Crash, Restart
<1>2. users' = disk.users \/ DOMAIN disk.users = {}  BY DEF Crash, Restart
<1> SUFFICES ASSUME NEW s \in DOMAIN disk.sessions  PROVE Excused(s)'
  BY <1>1 DEF StaleSessionsAreCondemned, Excused
<1>3. PICK u \in 1..lastUser : u = disk.sessions[s].user
  BY DEF Core, StoreInv, Owners, Owned
<1>4. sessions'[s].user = u /\ sessions'[s].revoked = disk.sessions[s].revoked  BY <1>1, <1>3
<1>5. CASE disk.sessions[s].revoked  BY <1>4, <1>5 DEF Excused
<1>6. CASE PendingRevoke(u) \/ Unsaved(u) \/ u \in cutShort
  <2>1. u \in cutShort'  BY <1>1, <1>6
  <2> QED  BY <1>4, <2>1 DEF Excused
<1>7. CASE ~disk.sessions[s].revoked /\ ~(PendingRevoke(u) \/ Unsaved(u) \/ u \in cutShort)
  <2>1. s \in DOMAIN sessions /\ ~sessions[s].revoked  BY <1>3, <1>7 DEF Unsaved, Undone
  <2>2. sessions[s].user = u  BY <1>3, <2>1 DEF Core, StoreInv, Owners
  <2>3. Backed(s) \/ s \in raced
    BY <1>7, <2>1, <2>2 DEF StaleSessionsAreCondemned
  <2>4. CASE s \in raced  BY <1>1, <2>4 DEF Excused
  <2>5. CASE Backed(s)
    <3>1. u \in DOMAIN users /\ users[u].hash = verified[s]  BY <2>2, <2>5 DEF Backed
    <3>2. u \in DOMAIN disk.users /\ disk.users[u].hash = users[u].hash
      BY <1>7, <3>1 DEF Unsaved
    <3>3. users' = disk.users  BY <1>2, <3>2
    <3> QED  BY <1>1, <1>4, <3>1, <3>2, <3>3 DEF Excused, Backed
  <2> QED  BY <2>3, <2>4, <2>5
<1> QED  BY <1>5, <1>6, <1>7

LEMMA StaleStep ==
  ASSUME FlowAssumption, Core, Books, StaleSessionsAreCondemned, [Next]_vars
  PROVE  StaleSessionsAreCondemned'
<1>1. ASSUME UNCHANGED <<users, sessions, raced, cutShort, verified>>,
             \A u : PendingRevoke(u) => PendingRevoke(u)'
      PROVE  StaleSessionsAreCondemned'
  BY <1>1, StaleKept
<1>2. ASSUME NEW r \in Req, Start(r)  PROVE StaleSessionsAreCondemned'
  <2>1. UNCHANGED <<users, sessions, raced, cutShort, verified>>
    BY <1>2 DEF Start, LoginLookup, Authenticate, KeyRequest, storeVars, memory, history
  <2>2. req[r].at # "revokeAll"
    BY <1>2 DEF Start, LoginLookup, Authenticate, KeyRequest
  <2>3. \A u : PendingRevoke(u) => PendingRevoke(u)'  BY <1>2, <2>2, PendingKept
  <2> QED  BY <1>1, <2>1, <2>3
<1>3. ASSUME NEW r \in Req, Step(r)  PROVE StaleSessionsAreCondemned'
  <2>1. CASE LoadUser(r) \/ LogoutFind(r) \/ ChangeReload(r)
    <3>1. UNCHANGED <<users, sessions, raced, cutShort, verified>>
      BY <2>1 DEF LoadUser, LogoutFind, ChangeReload, storeVars, memory, history
    <3>2. req[r].at # "revokeAll"  BY <2>1 DEF LoadUser, LogoutFind, ChangeReload
    <3>3. \A u : PendingRevoke(u) => PendingRevoke(u)'  BY <1>3, <3>2, PendingKept
    <3> QED  BY <1>1, <3>1, <3>3
  <2>2. ASSUME NEW ok \in BOOLEAN, Audit(r, ok)  PROVE StaleSessionsAreCondemned'
    <3>1. UNCHANGED <<users, sessions, raced, cutShort, verified>>
      BY <2>2 DEF Audit, LogActivity
    <3>2. req[r].at # "revokeAll"  BY <2>2 DEF Audit
    <3>3. \A u : PendingRevoke(u) => PendingRevoke(u)'  BY <1>3, <3>2, PendingKept
    <3> QED  BY <1>1, <3>1, <3>3
  <2>3. ASSUME NEW ok \in BOOLEAN,
               \/ LoginFailed(r, ok) \/ IssueToken(r, ok) \/ LoginWelcome(r, ok)
               \/ LogoutRevoke(r, ok) \/ SetHash(r, ok) \/ RevokeAll(r, ok)
               \/ AdminCreate(r, ok) \/ AdminUpdate(r, ok) \/ AdminDelete(r, ok)
        PROVE  StaleSessionsAreCondemned'
    BY <2>3, AccountsStale, IssueStale, LogoutStale, SetHashStale, RevokeAllStale, DeleteStale
  <2> QED  BY <1>3, <2>1, <2>2, <2>3 DEF Step
<1>4. ASSUME NEW ok \in BOOLEAN, Purge(ok) \/ Crash(ok)  PROVE StaleSessionsAreCondemned'
  BY <1>4, PurgeStale, CrashStale
<1>5. CASE Clock
  <2>1. UNCHANGED <<users, sessions, raced, cutShort, verified, req>>
    BY <1>5 DEF Clock, Tick, memory, history
  <2> QED  BY <1>1, <2>1, PendingSame
<1>6. CASE UNCHANGED vars
  <2>1. UNCHANGED <<users, sessions, raced, cutShort, verified, req>>
    BY <1>6 DEF vars, storeVars, memory, history
  <2> QED  BY <1>1, <2>1, PendingSame
<1> QED  BY <1>2, <1>3, <1>4, <1>5, <1>6 DEF Next

-----------------------------------------------------------------------------
(* The theorems.                                                           *)

LEMMA InitInv ==
  ASSUME StoreAssumption, FlowAssumption, Init
  PROVE  IInv
<1>1. /\ StoreInv /\ activity = <<>> /\ disk.activity = <<>>
      /\ users = Roster /\ lastUser = Len(Roster) /\ sessions = [s \in {} |-> s]
  BY StoreInitInv DEF Init
<1>2. Logs  BY <1>1 DEF Logs
<1>3. Slots
  <2>1. Idle \in Slot /\ Reaches(Idle) /\ Carries(Idle)  BY IdleSlot
  <2>2. req = [r \in Req |-> Idle]  BY DEF Init
  <2> QED  BY <2>1, <2>2 DEF Slots
<1>4. Books
  <2>1. lastSession = 0  BY DEF Init, StoreInit
  <2> QED  BY <2>1 DEF Books, Init
<1>5. Below(users) /\ Below(disk.users)
  <2>1. disk.users = users  BY DEF Init, StoreInit
  <2> QED  BY <1>1, <2>1 DEF Below, FlowAssumption
<1>6. DeletionSticks  BY DEF Init, DeletionSticks
<1>7. StaleSessionsAreCondemned  BY <1>1 DEF StaleSessionsAreCondemned
<1>8. LogoutInv
  <2>1. left = {} /\ req = [r \in Req |-> Idle]  BY DEF Init
  <2> QED  BY <2>1 DEF LogoutInv, Leaving, Idle
<1> QED  BY <1>1, <1>2, <1>3, <1>4, <1>5, <1>6, <1>7, <1>8 DEF IInv

LEMMA StepInv ==
  ASSUME FlowAssumption, IInv, [Next]_vars
  PROVE  IInv'
<1>1. Core /\ Books /\ Logs /\ Slots /\ held \subseteq Token  BY DEF IInv, Core, Books
<1>2. Core'  BY <1>1, CoreStep
<1>3. Books'  BY <1>1, BooksStep
<1>4. Logs'  BY <1>1, LogsStep
<1>5. DeletionSticks'  BY <1>1, DeletionStep DEF IInv
<1>6. LogoutInv'  BY <1>1, LogoutStep DEF IInv
<1>7. StaleSessionsAreCondemned'  BY <1>1, StaleStep DEF IInv
<1> QED  BY <1>2, <1>3, <1>4, <1>5, <1>6, <1>7 DEF IInv, Core

\* The inductive invariant holds in every reachable state.
THEOREM AuthInvariant == Spec => []IInv
<1>1. Init => IInv  BY InitInv, StoreAssumption, FlowAssumption
<1>2. IInv /\ [Next]_vars => IInv'  BY StepInv, FlowAssumption
<1> QED  BY <1>1, <1>2, PTL DEF Spec

\* Accounts, sessions, the log, the file and the requests in flight keep
\* their types, and no failure counter reaches the limit (HandleLogin).
THEOREM AuthTypes == Spec => []TypeOK
<1>1. IInv => TypeOK  BY InvariantImplies
<1> QED  BY <1>1, AuthInvariant, PTL

\* Every unrevoked session is backed by the password it was opened with, or
\* raced, or its revocation is on the way or was cut short.
THEOREM StaleAreCondemned == Spec => []StaleSessionsAreCondemned
<1>1. IInv => StaleSessionsAreCondemned  BY InvariantImplies
<1> QED  BY <1>1, AuthInvariant, PTL

\* An account whose deletion was answered with 200 never comes back.
THEOREM DeletionIsFinal == Spec => []DeletionSticks
<1>1. IInv => DeletionSticks  BY InvariantImplies
<1> QED  BY <1>1, AuthInvariant, PTL

\* A row whose logout was answered with 200 is never usable again, unless that
\* logout dropped an error of its save and a restart found the row unrevoked.
THEOREM LogoutIsFinal == Spec => []LogoutSticks
<1>1. IInv => LogoutSticks  BY InvariantImplies
<1> QED  BY <1>1, AuthInvariant, PTL
=============================================================================
