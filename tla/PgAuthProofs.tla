----------------------------- MODULE PgAuthProofs -----------------------------
(***************************************************************************)
(* The account handlers over PostgreSQL, for any number of requests,       *)
(* accounts, sessions, errors of the connection and restarts: every        *)
(* invariant of PgAuthFlow follows from one inductive invariant.           *)
(***************************************************************************)
EXTENDS PgAuthFlow, TLAPS, SequenceTheorems, FiniteSetTheorems

(* The inductive invariant.                                                *)

Counters == /\ lastUser \in Nat /\ lastSession \in Nat /\ logged \in Nat
            /\ now \in Nat /\ faults \in Nat /\ sent \in Nat

Tables ==
  /\ users \in [DOMAIN users -> User] /\ DOMAIN users \subseteq 1..lastUser
  /\ sessions \in [DOMAIN sessions -> Session] /\ DOMAIN sessions \subseteq 1..lastSession

\* The data a step finds in its slot.
Carries(s) ==
  /\ s.at \notin {"log", "trim"} =>
       /\ s.op \in {"change", "reset", "create", "boot"} => s.new \in Passwords
       /\ s.op \in {"update", "create", "boot"} => s.patch \in Patch
       /\ s.op \in {"create", "boot"} => s.patch.email \in Emails
  /\ s.at \in {"checkEmail", "insert"} => s.op \in {"create", "boot"} /\ s.patch.role # BadRole
  /\ s.at \in {"load", "refind", "reload", "issue"} => s.token \in Token
  /\ s.at \in {"read", "write"} => s.op \in {"login", "change", "reset", "update"}
  /\ s.at \in {"issue", "write", "revokeAll", "condemn", "delete"} => s.subj \in 1..lastUser
  /\ s.at = "load" => s.op \in Ops \ {"login"}
  /\ s.at = "reload" => s.op = "change"
  /\ s.at = "issue" => s.op = "login" /\ s.pw \in Passwords
  /\ s.at = "write" => s.copy \in User

Slots == /\ req \in [Req -> Slot]
         /\ \A r \in Req : Carries(req[r])

Books == /\ held \subseteq Token
         /\ verified \in Seq(Passwords) /\ Len(verified) = lastSession
         /\ chosen \in Seq(Passwords) /\ Len(chosen) = lastUser
         /\ overlapped \subseteq 1..lastUser /\ raced \subseteq 1..lastSession
         /\ cutShort \subseteq 1..lastUser /\ gone \subseteq 1..lastUser

Types == Counters /\ Tables /\ Slots /\ Books

\* A request between the SELECT and the UPDATE on an account.
Writes(r, u) == req[r].at = "write" /\ req[r].subj = u

\* A new password is on its way in the copy of the request that chose it.
NewHash == \A r \in Req : req[r].at = "write" /\ Replaces(req[r].op) => req[r].copy.hash = req[r].new

\* Where no updates overlapped, at most one is under way, and its copy has the
\* hash the account has.
OneWriter == \A u \in (1..lastUser) \ overlapped : \A q, r \in Req :
               Writes(q, u) /\ Writes(r, u) => q = r
OldHash == \A r \in Req : \A u \in DOMAIN users \ overlapped :
             Writes(r, u) /\ ~Replaces(req[r].op) => req[r].copy.hash = users[u].hash

Hashes == PasswordSticks /\ NewHash /\ OneWriter /\ OldHash

Schema == NoOrphans /\ EmailsAreUnique /\ DeletionSticks

IInv == Types /\ Schema /\ Hashes /\ StaleSessionsAreCondemned /\ LogBounded

LEMMA InvariantImplies ==
  ASSUME IInv
  PROVE  /\ TypeOK /\ PasswordSticks /\ StaleSessionsAreCondemned /\ NoOrphans
         /\ EmailsAreUnique /\ DeletionSticks /\ LogBounded
BY DEF IInv, Types, Counters, Tables, Slots, Carries, Books, Schema, Hashes, TypeOK

-----------------------------------------------------------------------------
(* Requests.                                                               *)

Grows == lastUser' \in Nat /\ lastUser <= lastUser'

LEMMA SlotStored ==
  ASSUME Counters, Slots, Grows, NEW r \in Req, NEW n \in Slot, Carries(n),
         req' = [req EXCEPT ![r] = n]
  PROVE  Slots'
<1>1. 1..lastUser \subseteq 1..lastUser'  BY DEF Counters, Grows
<1>2. req' \in [Req -> Slot] /\ req'[r] = n /\ \A q \in Req \ {r} : req'[q] = req[q]
  BY DEF Slots
<1>3. Carries(n)'  BY <1>1 DEF Carries
<1>4. ASSUME NEW q \in Req  PROVE Carries(req[q])'
  <2>1. CASE q = r  BY <1>2, <1>3, <2>1 DEF Carries
  <2>2. CASE q # r
    <3>1. Carries(req[q]) /\ req'[q] = req[q]  BY <1>2, <2>2 DEF Slots
    <3> QED  BY <1>1, <3>1 DEF Carries
  <2> QED  BY <2>1, <2>2
<1> QED  BY <1>2, <1>4 DEF Slots

LEMMA SlotsUnchanged ==
  ASSUME Counters, Slots, Grows, UNCHANGED req
  PROVE  Slots'
<1>1. 1..lastUser \subseteq 1..lastUser'  BY DEF Counters, Grows
<1>2. ASSUME NEW r \in Req  PROVE Carries(req[r])'
  <2>1. Carries(req[r])  BY DEF Slots
  <2> QED  BY <1>1, <2>1 DEF Carries
<1> QED  BY <1>2 DEF Slots

\* The steps after which no property asks whether a request is there.
Early == Steps \ {"write", "revokeAll", "trim"}

\* A step that leaves the requests alone, or takes one of them to such a step.
Written(r) ==
  \/ UNCHANGED req
  \/ \E n \in Slot : Carries(n) /\ n.at \in Early /\ req' = [req EXCEPT ![r] = n]

LEMMA SlotWritten ==
  ASSUME NEW r, NEW n \in Slot, Carries(n), n.at \in Early, req' = [req EXCEPT ![r] = n]
  PROVE  Written(r)
BY DEF Written

\* The requests at a step, and their slots, stay what they are.
Same(step) == \A q \in Req : /\ req'[q].at = step <=> req[q].at = step
                             /\ req[q].at = step => req'[q] = req[q]

LEMMA WrittenSame ==
  ASSUME Counters, Slots, Grows, NEW r \in Req, Written(r)
  PROVE  /\ Slots'
         /\ \A step \in Steps \ Early : req[r].at # step => Same(step)
<1>1. CASE UNCHANGED req  BY <1>1, SlotsUnchanged DEF Same
<1>2. CASE \E n \in Slot : Carries(n) /\ n.at \in Early /\ req' = [req EXCEPT ![r] = n]
  <2>1. PICK n \in Slot : Carries(n) /\ n.at \in Early /\ req' = [req EXCEPT ![r] = n]
    BY <1>2
  <2>2. req'[r] = n /\ \A q \in Req \ {r} : req'[q] = req[q]  BY <2>1 DEF Slots
  <2>3. Slots'  BY <2>1, SlotStored
  <2> QED  BY <2>1, <2>2, <2>3 DEF Same
<1> QED  BY <1>1, <1>2 DEF Written

LEMMA IdleSlot ==
  ASSUME FlowAssumption
  PROVE  Idle \in Slot /\ Idle.at = "idle" /\ Idle.at \in Early /\ Carries(Idle)
BY DEF FlowAssumption, Idle, Slot, Steps, Ops, AdminOps, Carries, Early

LEMMA AnswerWritten ==
  ASSUME FlowAssumption, NEW r \in Req, Answer(r)
  PROVE  Written(r)
BY IdleSlot, SlotWritten DEF Answer

\* The slot of a request that is about to write its audit entry.
LEMMA FinishWritten ==
  ASSUME FlowAssumption, Slots, NEW r \in Req, Finish(r)
  PROVE  Written(r)
<1>1. PICK old \in Slot : old = req[r]  BY DEF Slots
<1>2. PICK t \in Token \cup {None} : t = IF old.op = "login" THEN old.token ELSE None
  <2>1. old.token \in Token \cup {None}  BY <1>1 DEF Slot
  <2> QED  BY <2>1
<1>3. PICK idle \in Slot : idle = Idle  BY IdleSlot
<1>4. PICK n \in Slot : n = [idle EXCEPT !.at = "log", !.op = old.op, !.token = t]
  <2>1. PICK op \in Ops \cup {None, "boot"} : op = old.op  BY DEF Slot
  <2>2. "log" \in Steps  BY DEF Steps
  <2>3. [idle EXCEPT !.at = "log", !.op = op, !.token = t] \in Slot  BY <2>2 DEF Slot
  <2> QED  BY <2>1, <2>3
<1>5. n.at = "log"  BY <1>4 DEF Slot
<1>6. Carries(n) /\ n.at \in Early  BY <1>5 DEF Carries, Early, Steps
<1>7. req' = [req EXCEPT ![r] = n]  BY <1>1, <1>2, <1>3, <1>4 DEF Finish
<1> QED  BY <1>6, <1>7, SlotWritten

LEMMA FailUpdateWritten ==
  ASSUME FlowAssumption, Slots, NEW r \in Req, FailUpdate(r)
  PROVE  Written(r)
BY AnswerWritten, FinishWritten DEF FailUpdate

\* A request that goes on with the same data.
LEMMA GotoWritten ==
  ASSUME FlowAssumption, Slots, NEW r \in Req, NEW step, Goto(r, step),
         \/ req[r].at = "checkEmail" /\ step = "insert"
         \/ req[r].at = "checkUser" /\ step = "condemn" /\ req[r].subj \in 1..lastUser
         \/ req[r].at = "condemn" /\ step = "delete"
  PROVE  Written(r)
<1>1. PICK old \in Slot : old = req[r]  BY DEF Slots
<1>2. Carries(old) /\ step \in Steps /\ step \in Early  BY <1>1 DEF Slots, Steps, Early
<1>3. PICK n \in Slot : n = [old EXCEPT !.at = step]  BY <1>1, <1>2 DEF Slot
<1>4. /\ n.op = old.op /\ n.at = step /\ n.new = old.new /\ n.patch = old.patch
      /\ n.subj = old.subj
  BY <1>1, <1>3 DEF Slot
<1>5. Carries(n)  BY <1>1, <1>2, <1>4 DEF Carries
<1>6. n.at \in Early  BY <1>2, <1>4
<1>7. req' = [req EXCEPT ![r] = n]  BY <1>1, <1>3 DEF Goto
<1> QED  BY <1>5, <1>6, <1>7, SlotWritten

LEMMA SomeToken ==
  ASSUME Counters, Tables, NEW id \in DOMAIN users, NEW e \in Emails
  PROVE  /\ id \in Nat /\ id \in 1..lastUser
         /\ [user |-> id, role |-> users[id].role, email |-> e, iat |-> 0] \in Token
<1>1. id \in 1..lastUser /\ id \in Nat /\ users[id] \in User  BY DEF Tables, Counters
<1> QED  BY <1>1 DEF User, Token

LEMMA LoginLookupWritten ==
  ASSUME FlowAssumption, Types, NEW r \in Req, NEW e \in Emails, NEW p \in Passwords,
         LoginLookup(r, e, p)
  PROVE  Written(r)
<1> DEFINE Login(u, step) == [Idle EXCEPT !.op = "login", !.subj = u, !.at = step]
<1>1. {"log", "read", "issue"} \subseteq Early  BY DEF Early, Steps
<1>2. \A u \in Nat, step \in {"log", "read", "issue"} :
        /\ Login(u, step) \in Slot
        /\ Login(u, step).op = "login" /\ Login(u, step).at = step
        /\ Login(u, step).subj = u
  BY DEF Idle, Slot, Ops, Steps, AdminOps
<1>3. ASSUME NEW u \in Nat, NEW step \in {"log", "read"},
             req' = [req EXCEPT ![r] = Login(u, step)]
      PROVE  Written(r)
  <2>1. step \in {"log", "read", "issue"}  OBVIOUS
  <2>2. PICK n \in Slot : n = Login(u, step)
    <3> HIDE DEF Login
    <3> QED  BY <1>2, <2>1
  <2>3. n.op = "login" /\ n.at \in {"log", "read"}
    <3> HIDE DEF Login
    <3> QED  BY <1>2, <2>1, <2>2
  <2>4. Carries(n)  BY <2>3 DEF Carries
  <2> QED  BY <1>1, <1>3, <2>2, <2>3, <2>4, SlotWritten
<1>4. CASE UNCHANGED req  BY <1>4 DEF Written
<1>5. ASSUME NEW id \in WithEmail(e),
             req' = [req EXCEPT ![r] =
                       [Login(id, "issue") EXCEPT
                          !.pw = p,
                          !.token = [user |-> id, role |-> users[id].role, email |-> e, iat |-> 0]]]
      PROVE  Written(r)
  <2>1. id \in Nat /\ id \in 1..lastUser  BY SomeToken DEF Types, WithEmail
  <2>2. PICK t \in Token : t = [user |-> id, role |-> users[id].role, email |-> e, iat |-> 0]
    BY SomeToken DEF Types, WithEmail
  <2>3. PICK l \in Slot : l = Login(id, "issue")  BY <1>2, <2>1
  <2>4. l.op = "login" /\ l.at = "issue" /\ l.subj = id  BY <1>2, <2>1, <2>3
  <2>5. PICK n \in Slot : n = [l EXCEPT !.pw = p, !.token = t]  BY DEF Slot
  <2>6. /\ n.op = "login" /\ n.at = "issue" /\ n.subj = id /\ n.pw = p /\ n.token = t
    BY <2>4, <2>5 DEF Slot
  <2>7. Carries(n)  BY <2>1, <2>6 DEF Carries
  <2>8. req' = [req EXCEPT ![r] = n]  BY <1>5, <2>2, <2>3, <2>5
  <2> QED  BY <1>1, <2>6, <2>7, <2>8, SlotWritten
<1>6. ASSUME NEW id \in WithEmail(e)  PROVE id \in Nat
  BY SomeToken DEF Types, WithEmail
<1> QED  BY <1>3, <1>4, <1>5, <1>6 DEF LoginLookup

LEMMA ArrivingSlot ==
  ASSUME FlowAssumption, Counters, NEW b \in Bodies, NEW target \in Targets(b)
  PROVE  LET s == Arriving(b, target) IN
         /\ s \in Slot /\ s.op = b.op /\ s.op \in Ops \ {"login"} /\ s.at = "idle"
         /\ Carries(s)
<1>1. b \in Body  BY DEF FlowAssumption
<1>2. target \in Nat  BY DEF Targets, Counters
<1>3. PICK subj \in Nat : subj = IF b.op \in AdminOps \ {"create"} THEN target ELSE 0
  BY <1>2
<1> DEFINE s == [Idle EXCEPT !.op = b.op, !.pw = b.pw, !.new = b.new, !.patch = b.patch,
                             !.subj = subj]
<1>4. s \in Slot  BY <1>1, <1>3 DEF Idle, Slot, Body, Steps
<1>5. s.op = b.op /\ s.new = b.new /\ s.patch = b.patch /\ s.at = "idle"  BY DEF Idle
<1>6. Arriving(b, target) = s  BY <1>3 DEF Arriving
<1> HIDE DEF s
<1>7. s.op \in Ops \ {"login"}  BY <1>1, <1>5 DEF Body
<1>8. /\ s.op \in {"change", "reset", "create"} => s.new \in Passwords
      /\ s.op \in {"create", "update"} => s.patch \in Patch
      /\ s.op = "create" => s.patch.email \in Emails
  BY <1>5 DEF FlowAssumption
<1>9. Carries(s)  BY <1>5, <1>7, <1>8 DEF Carries, Ops, AdminOps
<1> QED  BY <1>4, <1>5, <1>6, <1>7, <1>9

LEMMA AuthenticateWritten ==
  ASSUME FlowAssumption, Types, NEW r \in Req, NEW b \in Bodies,
         NEW target \in Targets(b), NEW token \in held, Authenticate(r, b, target, token)
  PROVE  Written(r)
<1>1. token \in Token /\ Counters  BY DEF Types, Books
<1>2. CASE req' = [req EXCEPT ![r] = [Arriving(b, target) EXCEPT !.at = "load", !.token = token]]
  <2>1. PICK s \in Slot : /\ s = Arriving(b, target) /\ s.at = "idle"
                         /\ s.op \in Ops \ {"login"} /\ Carries(s)
    BY <1>1, ArrivingSlot
  <2>2. PICK n \in Slot : n = [s EXCEPT !.at = "load", !.token = token]
    BY <1>1 DEF Slot, Steps
  <2>3. /\ n.op = s.op /\ n.at = "load" /\ n.token = token
        /\ n.new = s.new /\ n.patch = s.patch
    BY <2>2 DEF Slot
  <2>4. Carries(n)  BY <1>1, <2>1, <2>3 DEF Carries
  <2>5. n.at \in Early  BY <2>3 DEF Early, Steps
  <2>6. req' = [req EXCEPT ![r] = n]  BY <1>2, <2>1, <2>2
  <2> QED  BY <2>4, <2>5, <2>6, SlotWritten
<1>3. CASE UNCHANGED req  BY <1>3 DEF Written
<1> QED  BY <1>2, <1>3 DEF Authenticate

\* The first statement of an admitted request.
LEMMA BeginWritten ==
  ASSUME FlowAssumption, NEW r \in Req, NEW slot \in Slot, NEW actor,
         slot.op \in Ops \ {"login"}, slot.op \in {"logout", "change"} => slot.token \in Token,
         slot.at \in {"idle", "load"}, Carries(slot), Begin(r, slot, actor)
  PROVE  Written(r)
<1>1. CASE req' = [req EXCEPT ![r] = Idle]
  BY <1>1, AnswerWritten DEF Answer
<1>2. ASSUME NEW step \in Early, req' = [req EXCEPT ![r] = [slot EXCEPT !.at = step]],
             \/ slot.op = "logout" /\ step = "refind"
             \/ slot.op = "change" /\ step = "reload"
             \/ slot.op \in {"reset", "update"} /\ step = "read"
             \/ slot.op = "create" /\ step = "checkEmail" /\ slot.patch.role # BadRole
             \/ slot.op = "delete" /\ step = "checkUser"
      PROVE  Written(r)
  <2>1. PICK n \in Slot : n = [slot EXCEPT !.at = step]  BY DEF Slot, Early
  <2>2. /\ n.op = slot.op /\ n.at = step /\ n.token = slot.token
        /\ n.new = slot.new /\ n.patch = slot.patch
    BY <2>1 DEF Slot
  <2>3. Carries(n)  BY <1>2, <2>2 DEF Carries
  <2> QED  BY <1>2, <2>1, <2>2, <2>3, SlotWritten
<1>3. {"refind", "reload", "read", "checkEmail", "checkUser"} \subseteq Early
  BY DEF Early, Steps
<1>4. CASE slot.op \in {"logout", "change", "reset", "update"}
  BY <1>2, <1>3, <1>4 DEF Begin
<1>5. CASE slot.op = "create"  BY <1>1, <1>2, <1>3, <1>5 DEF Begin
<1>6. CASE slot.op = "delete"  BY <1>1, <1>2, <1>3, <1>6 DEF Begin
<1>7. CASE slot.op = "me"  BY <1>1, <1>7 DEF Begin
<1> QED  BY <1>4, <1>5, <1>6, <1>7 DEF Ops, AdminOps

LEMMA LoadUserWritten ==
  ASSUME FlowAssumption, Types, NEW r \in Req, LoadUser(r)
  PROVE  Written(r)
<1>1. PICK slot \in Slot : slot = req[r]  BY DEF Types, Slots
<1>2. slot.at = "load" /\ Carries(slot)  BY <1>1 DEF Types, Slots, LoadUser
<1>3. slot.op \in Ops \ {"login"} /\ slot.token \in Token  BY <1>2 DEF Carries
<1>4. ASSUME NEW id, Begin(r, slot, id)  PROVE Written(r)
  BY <1>2, <1>3, <1>4, BeginWritten
<1>5. CASE Answer(r)  BY <1>5, AnswerWritten
<1> QED  BY <1>1, <1>4, <1>5 DEF LoadUser

LEMMA KeyRequestWritten ==
  ASSUME FlowAssumption, Types, NEW r \in Req, NEW b \in Bodies, NEW target \in Targets(b),
         KeyRequest(r, b, target)
  PROVE  Written(r)
<1>1. PICK s \in Slot : /\ s = Arriving(b, target) /\ s.op = b.op /\ s.at = "idle"
                        /\ s.op \in Ops \ {"login"} /\ Carries(s)
  BY ArrivingSlot DEF Types
<1>2. PICK token \in IF b.op = "logout" THEN held ELSE {None} :
             Begin(r, [s EXCEPT !.token = token], 0)
  BY <1>1 DEF KeyRequest
<1>3. s.op \in AdminOps \cup {"logout"}  BY <1>1 DEF KeyRequest
<1>4. token \in Token \cup {None} /\ (s.op = "logout" => token \in Token)
  BY <1>1, <1>2 DEF Types, Books
<1>5. PICK n \in Slot : n = [s EXCEPT !.token = token]  BY <1>4 DEF Slot
<1>6. /\ n.op = s.op /\ n.at = s.at /\ n.new = s.new /\ n.patch = s.patch
      /\ n.token = token /\ n.pw = s.pw /\ n.subj = s.subj /\ n.copy = s.copy
  BY <1>5 DEF Slot
<1>7. Carries(n)  BY <1>1, <1>6 DEF Carries
<1>8. n.op \in {"logout", "change"} => n.token \in Token
  BY <1>3, <1>4, <1>6 DEF AdminOps
<1> QED  BY <1>1, <1>2, <1>5, <1>6, <1>7, <1>8, BeginWritten

LEMMA LogoutFindWritten ==
  ASSUME FlowAssumption, Types, NEW r \in Req, LogoutFind(r)
  PROVE  Written(r)
<1>1. PICK old \in Slot : old = req[r]  BY DEF Types, Slots
<1>2. old.at = "refind" /\ Carries(old)  BY <1>1 DEF Types, Slots, LogoutFind
<1>3. ASSUME NEW s \in DOMAIN sessions,
             req' = [req EXCEPT ![r].at = "revoke", ![r].sess = s]
      PROVE  Written(r)
  <2>1. s \in Nat  BY DEF Types, Tables, Counters
  <2>2. PICK n \in Slot : n = [old EXCEPT !.at = "revoke", !.sess = s]
    BY <2>1 DEF Slot, Steps
  <2>3. n.op = old.op /\ n.at = "revoke" /\ n.new = old.new /\ n.patch = old.patch
    BY <2>2 DEF Slot
  <2>4. Carries(n)  BY <1>2, <2>3 DEF Carries
  <2>5. n.at \in Early  BY <2>3 DEF Early, Steps
  <2>6. req' = [req EXCEPT ![r] = n]  BY <1>1, <1>3, <2>2 DEF Types, Slots
  <2> QED  BY <2>4, <2>5, <2>6, SlotWritten
<1>4. CASE Answer(r)  BY <1>4, AnswerWritten
<1> QED  BY <1>3, <1>4 DEF LogoutFind, LiveWith

LEMMA ChangeReloadWritten ==
  ASSUME FlowAssumption, Types, NEW r \in Req, ChangeReload(r)
  PROVE  Written(r)
<1>1. PICK old \in Slot : old = req[r]  BY DEF Types, Slots
<1>2. old.at = "reload" /\ Carries(old)  BY <1>1 DEF Types, Slots, ChangeReload
<1>3. old.token \in Token /\ old.op = "change"  BY <1>2 DEF Carries
<1>4. PICK id \in Nat : id = old.token.user  BY <1>3 DEF Token
<1>5. CASE req' = [req EXCEPT ![r].at = "read", ![r].subj = id,
                              ![r].token = None, ![r].pw = None]
  <2>1. PICK n \in Slot : n = [old EXCEPT !.at = "read", !.subj = id, !.token = None, !.pw = None]
    BY DEF Slot, Steps
  <2>2. n.op = old.op /\ n.at = "read" /\ n.new = old.new /\ n.patch = old.patch
    BY <2>1 DEF Slot
  <2>3. Carries(n)  BY <1>2, <1>3, <2>2 DEF Carries
  <2>4. n.at \in Early  BY <2>2 DEF Early, Steps
  <2>5. req' = [req EXCEPT ![r] = n]  BY <1>1, <1>5, <2>1 DEF Types, Slots
  <2> QED  BY <2>3, <2>4, <2>5, SlotWritten
<1>6. CASE Answer(r)  BY <1>6, AnswerWritten
<1> QED  BY <1>1, <1>4, <1>5, <1>6 DEF ChangeReload

-----------------------------------------------------------------------------
(* What a step that does not disturb it does to each part.                 *)

LEMMA Product ==
  ASSUME NEW m \in Nat, NEW n \in Nat, NEW k \in Nat, m <= n
  PROVE  m * k <= n * k /\ (m + 1) * k = m * k + k /\ m * k \in Nat
OBVIOUS

\* The connection only ever fails more often.
Later == faults' \in Nat /\ faults <= faults'

LEMMA InFlightFinite ==
  ASSUME FlowAssumption, NEW step
  PROVE  /\ IsFiniteSet(InFlight(step)) /\ Cardinality(InFlight(step)) \in Nat
         /\ Cardinality(Req) \in Nat /\ Cardinality(InFlight(step)) <= Cardinality(Req)
<1>1. IsFiniteSet(Req) /\ InFlight(step) \subseteq Req  BY DEF FlowAssumption, InFlight
<1> QED  BY <1>1, FS_Subset, FS_CardinalityType

LEMMA LogFrame ==
  ASSUME FlowAssumption, StoreAssumption, Counters, LogBounded, Later, Same("trim"),
         UNCHANGED logged
  PROVE  LogBounded'
<1>1. InFlight("trim")' = InFlight("trim")  BY DEF InFlight, Same
<1>2. /\ Cardinality(InFlight("trim")) \in Nat /\ Cardinality(Req) \in Nat
      /\ LogCap \in Nat /\ faults \in Nat /\ logged \in Nat
  BY InFlightFinite DEF StoreAssumption, Counters
<1>3. /\ faults * Cardinality(Req) <= faults' * Cardinality(Req)
      /\ faults * Cardinality(Req) \in Nat /\ faults' * Cardinality(Req) \in Nat
  BY <1>2, Product DEF Later
<1> QED  BY <1>1, <1>2, <1>3 DEF LogBounded

\* The accounts keep their hashes, but for those that are new.
LEMMA HashesFrame ==
  ASSUME Types, Hashes, Same("write"), UNCHANGED overlapped,
         \A u \in DOMAIN users' : \/ /\ u \in DOMAIN users /\ users'[u].hash = users[u].hash
                                     /\ chosen'[u] = chosen[u]
                                  \/ u \notin 1..lastUser /\ users'[u].hash = chosen'[u]
  PROVE  Hashes'
<1>1. ASSUME NEW q \in Req, req'[q].at = "write"
      PROVE  req[q].at = "write" /\ req'[q] = req[q] /\ req[q].subj \in 1..lastUser
  BY <1>1 DEF Types, Slots, Carries, Same
<1>2. PasswordSticks'  BY DEF Hashes, PasswordSticks
<1>3. NewHash'  BY <1>1 DEF Hashes, NewHash
<1>4. OneWriter'
  <2>1. ASSUME NEW q \in Req, NEW u, Writes(q, u)'
        PROVE  Writes(q, u) /\ u \in 1..lastUser
    BY <1>1, <2>1 DEF Writes
  <2> QED  BY <2>1 DEF Hashes, OneWriter
<1>5. OldHash'
  <2>1. ASSUME NEW q \in Req, NEW u \in DOMAIN users' \ overlapped, Writes(q, u)',
               ~Replaces(req'[q].op)
        PROVE  req'[q].copy.hash = users'[u].hash
    <3>1. Writes(q, u) /\ u \in 1..lastUser /\ req'[q] = req[q]  BY <1>1, <2>1 DEF Writes
    <3>2. u \in DOMAIN users /\ users'[u].hash = users[u].hash  BY <3>1
    <3> QED  BY <2>1, <3>1, <3>2 DEF Hashes, OldHash
  <2> QED  BY <2>1 DEF OldHash, Replaces
<1> QED  BY <1>2, <1>3, <1>4, <1>5 DEF Hashes

\* The sessions left are as they were or revoked, and so are their excuses.
LEMMA StaleFrame ==
  ASSUME StaleSessionsAreCondemned, Same("revokeAll"),
         \A s \in DOMAIN sessions' :
           /\ s \in DOMAIN sessions /\ sessions'[s].user = sessions[s].user
           /\ sessions[s].revoked => sessions'[s].revoked
           /\ verified'[s] = verified[s]
           /\ users'[sessions[s].user].hash = users[sessions[s].user].hash,
         raced \subseteq raced', cutShort \subseteq cutShort', overlapped \subseteq overlapped'
  PROVE  StaleSessionsAreCondemned'
<1>1. \A u : PendingRevoke(u) => PendingRevoke(u)'  BY DEF PendingRevoke, Same
<1>2. ASSUME NEW s \in DOMAIN sessions'
      PROVE  LET u == sessions[s].user IN
             \/ sessions'[s].revoked
             \/ users'[u].hash = verified'[s] \/ s \in raced'
             \/ PendingRevoke(u)' \/ u \in cutShort' \/ u \in overlapped'
  <2> DEFINE u == sessions[s].user
  <2>1. /\ s \in DOMAIN sessions /\ verified'[s] = verified[s] /\ users'[u].hash = users[u].hash
        /\ sessions[s].revoked => sessions'[s].revoked
    OBVIOUS
  <2>2. \/ sessions[s].revoked \/ users[u].hash = verified[s] \/ s \in raced
        \/ PendingRevoke(u) \/ u \in cutShort \/ u \in overlapped
    BY <2>1 DEF StaleSessionsAreCondemned, Backed
  <2>3. PendingRevoke(u) => PendingRevoke(u)'  BY <1>1
  <2> HIDE DEF u
  <2> QED  BY <2>1, <2>2, <2>3 DEF u
<1>3. \A s \in DOMAIN sessions' : sessions'[s].user = sessions[s].user  OBVIOUS
<1> QED  BY <1>2, <1>3 DEF StaleSessionsAreCondemned, Backed

\* Steps that leave the tables alone.
LEMMA SchemaFrame ==
  ASSUME Schema, UNCHANGED <<users, sessions, gone>>
  PROVE  Schema'
BY DEF Schema, NoOrphans, EmailsAreUnique, WithEmail, DeletionSticks

LEMMA TablesFrame ==
  ASSUME Counters, Tables, Later, UNCHANGED tables, now' \in Nat, sent' \in Nat
  PROVE  Counters' /\ Tables' /\ Grows
BY DEF Counters, Tables, Later, Grows, tables

LEMMA QuietKeeps ==
  ASSUME FlowAssumption, StoreAssumption, IInv, NEW r \in Req, Written(r), req[r].at \in Early,
         UNCHANGED <<tables, history>>, held' \subseteq Token, Later, now' \in Nat, sent' \in Nat
  PROVE  IInv'
<1>1. Counters' /\ Tables' /\ Grows  BY TablesFrame DEF IInv, Types
<1>2. Slots' /\ \A step \in {"write", "revokeAll", "trim"} : Same(step)
  BY <1>1, WrittenSame DEF IInv, Types, Early, Steps
<1>3. Books'  BY DEF IInv, Types, Books, history, tables
<1>4. Schema'  BY SchemaFrame DEF IInv, history, tables
<1>5. Hashes'  BY <1>2, HashesFrame DEF IInv, history, tables
<1>6. StaleSessionsAreCondemned'  BY <1>2, StaleFrame DEF IInv, history, tables
<1>7. LogBounded'  BY <1>2, LogFrame DEF IInv, Types, tables
<1> QED  BY <1>1, <1>2, <1>3, <1>4, <1>5, <1>6, <1>7 DEF IInv, Types

-----------------------------------------------------------------------------
(* Queries.                                                                *)

\* What the first step of a request does to anything but its slot.
LEMMA StartQuiet ==
  ASSUME Counters, NEW r, Start(r)
  PROVE  /\ req[r].at = "idle" /\ sent' \in Nat /\ Later
         /\ UNCHANGED <<tables, now, held, history>>
<1>1. ASSUME NEW e, NEW p, LoginLookup(r, e, p)
      PROVE  Arrives(r) /\ UNCHANGED <<tables, now, history>>
             /\ (UNCHANGED faults \/ Fault)
  BY <1>1 DEF LoginLookup, Misses
<1>2. ASSUME NEW b, NEW target, NEW token, Authenticate(r, b, target, token)
      PROVE  Arrives(r) /\ UNCHANGED <<tables, now, history>>
             /\ (UNCHANGED faults \/ Fault)
  BY <1>2 DEF Authenticate, Misses
<1>3. ASSUME NEW b, NEW target, KeyRequest(r, b, target)
      PROVE  Arrives(r) /\ UNCHANGED <<tables, now, history>>
             /\ (UNCHANGED faults \/ Fault)
  BY <1>3 DEF KeyRequest, storeVars
<1>4. /\ Arrives(r) /\ UNCHANGED <<tables, now, history>>
      /\ UNCHANGED faults \/ Fault
  BY <1>1, <1>2, <1>3 DEF Start
<1> QED  BY <1>4 DEF Arrives, Fault, Later, Counters

LEMMA StartKeeps ==
  ASSUME FlowAssumption, StoreAssumption, IInv, NEW r \in Req, Start(r)
  PROVE  IInv'
<1>1. /\ req[r].at = "idle" /\ sent' \in Nat /\ Later
      /\ UNCHANGED <<tables, now, held, history>>
  BY StartQuiet DEF IInv, Types
<1>2. Written(r)
  BY LoginLookupWritten, AuthenticateWritten, KeyRequestWritten DEF Start, IInv
<1>3. /\ req[r].at \in Early /\ held' \subseteq Token /\ now' \in Nat
  BY <1>1 DEF Early, Steps, IInv, Types, Books, Counters
<1> QED  BY <1>1, <1>2, <1>3, QuietKeeps

LEMMA QueryKeeps ==
  ASSUME FlowAssumption, StoreAssumption, IInv, NEW r \in Req,
         \/ LoadUser(r) \/ LogoutFind(r) \/ ChangeReload(r) \/ CheckEmail(r) \/ CheckUser(r)
  PROVE  IInv'
<1>1. req[r].at \in {"load", "refind", "reload", "checkEmail", "checkUser"}
  BY DEF LoadUser, LogoutFind, ChangeReload, CheckEmail, CheckUser
<1>2. UNCHANGED <<tables, now, held, sent, history>>
  BY DEF LoadUser, LogoutFind, ChangeReload, CheckEmail, CheckUser, clients
<1>3. Later
  BY DEF LoadUser, LogoutFind, ChangeReload, CheckEmail, CheckUser, Misses, Fault, Later, IInv,
         Types, Counters
<1>4. Written(r)
  <2>1. CASE CheckEmail(r)
    BY <2>1, AnswerWritten, GotoWritten DEF CheckEmail, IInv, Types
  <2>2. CASE CheckUser(r)
    BY <2>2, AnswerWritten, GotoWritten DEF CheckUser, IInv, Types, Tables
  <2> QED  BY <2>1, <2>2, LoadUserWritten, LogoutFindWritten, ChangeReloadWritten DEF IInv
<1>5. /\ req[r].at \in Early /\ held' \subseteq Token /\ now' \in Nat /\ sent' \in Nat
  BY <1>1, <1>2 DEF Early, Steps, IInv, Types, Books, Counters
<1> QED  BY <1>2, <1>3, <1>4, <1>5, QuietKeeps

-----------------------------------------------------------------------------
(* UpdateUser.                                                             *)

\* The copy of the row: an account, with the hash of the row or the new one.
LEMMA PatchingUser ==
  ASSUME FlowAssumption, StoreAssumption, Counters, NEW u \in User, NEW slot \in Slot,
         Carries(slot), slot.at = "read"
  PROVE  /\ Patching(u, slot) \in User
         /\ Patching(u, slot).hash = IF Replaces(slot.op) THEN slot.new ELSE u.hash
<1>1. slot.op \in {"login", "change", "reset", "update"}  BY DEF Carries
<1>2. CASE slot.op = "update"
  <2>1. slot.patch \in Patch  BY <1>2 DEF Carries
  <2> DEFINE p == slot.patch
             e == IF p.email = Keep THEN u.email ELSE p.email
             o == IF p.role \in {Keep, BadRole} THEN u.role ELSE p.role
             a == IF p.active = Keep \/ p.role = BadRole THEN u.active ELSE p.active
  <2>2. e \in Emails /\ o \in Roles /\ a \in BOOLEAN  BY <2>1 DEF Patch, User
  <2>3. Patched(u, p) = [u EXCEPT !.email = e, !.role = o, !.active = a]
    BY DEF Patched, User
  <2> HIDE DEF e, o, a
  <2>4. Patched(u, p) \in User /\ Patched(u, p).hash = u.hash  BY <2>2, <2>3 DEF User
  <2> QED  BY <1>2, <2>4 DEF Patching, Replaces
<1>3. CASE slot.op = "login"
  <2>1. Failed(u, now) \in User /\ Failed(u, now).hash = u.hash
    <3>1. PICK t \in Nat : t = now + LockTime  BY DEF FlowAssumption, Counters
    <3>2. PICK n \in Nat : n = u.failed + 1  BY DEF User
    <3>3. Failed(u, now) = IF n >= FailLimit THEN [u EXCEPT !.failed = 0, !.lockedUntil = t]
                                             ELSE [u EXCEPT !.failed = n]
      BY <3>1, <3>2 DEF Failed, User
    <3>4. [u EXCEPT !.failed = 0, !.lockedUntil = t] \in User  BY DEF User
    <3>5. [u EXCEPT !.failed = n] \in User  BY DEF User
    <3> QED  BY <3>3, <3>4, <3>5 DEF User
  <2>2. Cleared(u) \in User /\ Cleared(u).hash = u.hash  BY DEF Cleared, User
  <2> QED  BY <1>3, <2>1, <2>2 DEF Patching, Replaces
<1>4. CASE slot.op \in {"change", "reset"}
  <2>1. slot.new \in Passwords  BY <1>4 DEF Carries
  <2>2. Rehashed(u, slot) \in User /\ Rehashed(u, slot).hash = slot.new
    BY <2>1 DEF Rehashed, User
  <2> QED  BY <1>4, <2>2 DEF Patching, Replaces
<1> QED  BY <1>1, <1>2, <1>3, <1>4

LEMMA ReadRowSlots ==
  ASSUME FlowAssumption, StoreAssumption, Types, NEW r \in Req, req[r].at = "read",
         NEW id, id = req[r].subj, id \in DOMAIN users,
         req' = [req EXCEPT ![r].at = "write", ![r].copy = Patching(users[id], req[r])],
         UNCHANGED lastUser
  PROVE  /\ Slots' /\ \A q \in Req \ {r} : req'[q] = req[q]
         /\ req'[r].at = "write" /\ req'[r].subj = id
         /\ req'[r].op = req[r].op /\ req'[r].new = req[r].new
         /\ req'[r].copy.hash = IF Replaces(req[r].op) THEN req[r].new ELSE users[id].hash
<1>1. PICK old \in Slot : old = req[r]  BY DEF Types, Slots
<1>2. old.at = "read" /\ Carries(old)  BY <1>1 DEF Types, Slots
<1>3. id \in 1..lastUser /\ users[id] \in User  BY DEF Types, Tables
<1>4. PICK c \in User : /\ c = Patching(users[id], old)
                        /\ c.hash = IF Replaces(old.op) THEN old.new ELSE users[id].hash
  BY <1>2, <1>3, PatchingUser DEF Types
<1>5. PICK n \in Slot : n = [old EXCEPT !.at = "write", !.copy = c]  BY DEF Slot, Steps
<1>6. /\ n.op = old.op /\ n.at = "write" /\ n.new = old.new /\ n.patch = old.patch
      /\ n.subj = old.subj /\ n.copy = c
  BY <1>5 DEF Slot
<1>7. Carries(n)  BY <1>1, <1>2, <1>3, <1>6 DEF Carries
<1>8. req' = [req EXCEPT ![r] = n]  BY <1>1, <1>4, <1>5 DEF Types, Slots
<1>9. Counters /\ Slots  BY DEF Types
<1>10. Grows  BY <1>9 DEF Counters, Grows
<1>11. Slots'  BY <1>9, <1>10, <1>7, <1>8, SlotStored
<1>12. req'[r] = n /\ \A q \in Req \ {r} : req'[q] = req[q]  BY <1>8 DEF Types, Slots
<1> QED  BY <1>1, <1>4, <1>6, <1>11, <1>12

LEMMA ReadRowKeeps ==
  ASSUME FlowAssumption, StoreAssumption, IInv, NEW r \in Req, ReadRow(r)
  PROVE  IInv'
<1> DEFINE id == req[r].subj
<1>1. /\ req[r].at = "read"
      /\ UNCHANGED <<tables, now, held, sent, verified, chosen, raced, cutShort, gone>>
  BY DEF ReadRow, clients
<1>2. Later  BY DEF ReadRow, Misses, Fault, Later, IInv, Types, Counters
<1>3. CASE (Answer(r) \/ FailUpdate(r)) /\ UNCHANGED overlapped
  <2>1. Written(r)  BY <1>3, AnswerWritten, FailUpdateWritten DEF IInv, Types
  <2>2. /\ req[r].at \in Early /\ held' \subseteq Token /\ now' \in Nat /\ sent' \in Nat
    BY <1>1 DEF Early, Steps, IInv, Types, Books, Counters
  <2> QED  BY <1>1, <1>2, <1>3, <2>1, <2>2, QuietKeeps DEF history
<1>4. CASE /\ id \in DOMAIN users
           /\ req' = [req EXCEPT ![r].at = "write", ![r].copy = Patching(users[id], req[r])]
           /\ overlapped' = IF Updating(id, r) = {} THEN overlapped ELSE overlapped \cup {id}
  <2>1. UNCHANGED <<users, sessions, lastUser, lastSession, logged>>  BY <1>1 DEF tables
  <2>2. /\ Slots' /\ \A q \in Req \ {r} : req'[q] = req[q]
        /\ req'[r].at = "write" /\ req'[r].subj = id
        /\ req'[r].op = req[r].op /\ req'[r].new = req[r].new
        /\ req'[r].copy.hash = IF Replaces(req[r].op) THEN req[r].new ELSE users[id].hash
    BY <1>1, <1>4, <2>1, ReadRowSlots DEF IInv
  <2> HIDE DEF id
  <2>3. Same("revokeAll") /\ Same("trim")  BY <1>1, <2>2 DEF Same
  <2>4. Counters' /\ Tables' /\ Grows  BY <1>1, <1>2, TablesFrame DEF IInv, Types, Counters
  <2>5. id \in 1..lastUser /\ overlapped \subseteq overlapped'
    BY <1>4 DEF IInv, Types, Tables
  <2>6. Books'  BY <1>1, <1>4, <2>1, <2>5 DEF IInv, Types, Books
  <2>7. Schema'  BY <1>1, <2>1, SchemaFrame DEF IInv
  <2>8. Hashes'
    <3>1. PasswordSticks'  BY <1>1, <2>1, <2>5 DEF IInv, Hashes, PasswordSticks
    <3>2. NewHash'  BY <2>2 DEF IInv, Hashes, NewHash, Replaces
    <3>3. OneWriter'
      <4>1. ASSUME NEW u \in (1..lastUser) \ overlapped', NEW q \in Req, Writes(q, u)', q # r
            PROVE  u # id /\ Writes(q, u)
        <5>1. Writes(q, u)  BY <2>2, <4>1 DEF Writes
        <5>2. u = id => q \in Updating(id, r)  BY <4>1, <5>1 DEF Writes, Updating
        <5> QED  BY <1>4, <4>1, <5>1, <5>2
      <4>2. ASSUME NEW u, Writes(r, u)'  PROVE u = id  BY <2>2, <4>2 DEF Writes
      <4> QED  BY <2>1, <2>5, <4>1, <4>2 DEF IInv, Hashes, OneWriter
    <3>4. OldHash'
      <4>1. ASSUME NEW q \in Req, NEW u \in DOMAIN users \ overlapped', Writes(q, u)',
                   ~Replaces(req'[q].op)
            PROVE  req'[q].copy.hash = users[u].hash
        <5>1. CASE q = r  BY <2>2, <4>1, <5>1 DEF Writes
        <5>2. CASE q # r
          <6>1. Writes(q, u) /\ req'[q] = req[q]  BY <2>2, <4>1, <5>2 DEF Writes
          <6> QED  BY <2>5, <4>1, <6>1 DEF IInv, Hashes, OldHash
        <5> QED  BY <5>1, <5>2
      <4> QED  BY <2>1, <4>1 DEF OldHash, Replaces
    <3> QED  BY <3>1, <3>2, <3>3, <3>4 DEF Hashes
  <2>9. StaleSessionsAreCondemned'  BY <1>1, <2>1, <2>3, <2>5, StaleFrame DEF IInv
  <2>10. LogBounded'  BY <1>2, <2>1, <2>3, LogFrame DEF IInv, Types
  <2> QED  BY <2>2, <2>4, <2>6, <2>7, <2>8, <2>9, <2>10 DEF IInv, Types
<1> QED  BY <1>3, <1>4 DEF ReadRow

\* A statement leaves the connection as it was, or fails it once more.
LEMMA OutcomeLater ==
  ASSUME Counters, NEW legal \in BOOLEAN, NEW out, Outcome(legal, out)
  PROVE  Later /\ (Ran(out) => legal)
BY DEF Outcome, Fault, Later, Counters, Ran

\* The steps of a request whose handler is at its end.
LEMMA EndSteps ==
  ASSUME FlowAssumption, Slots, NEW r \in Req, Answer(r) \/ Finish(r)
  PROVE  req'[r].at \in {"idle", "log"} /\ \A q \in Req \ {r} : req'[q] = req[q]
<1>1. req \in [Req -> Slot]  BY DEF Slots
<1>2. ASSUME Answer(r)  PROVE req'[r].at = "idle" /\ \A q \in Req \ {r} : req'[q] = req[q]
  BY <1>1, <1>2 DEF Answer, Idle
<1>3. ASSUME Finish(r)  PROVE req'[r].at = "log" /\ \A q \in Req \ {r} : req'[q] = req[q]
  BY <1>1, <1>3 DEF Finish, Idle
<1> QED  BY <1>2, <1>3

LEMMA WriteRowSlots ==
  ASSUME FlowAssumption, StoreAssumption, Types, NEW r \in Req, NEW out \in Outs,
         WriteRow(r, out)
  PROVE  /\ Slots' /\ \A q \in Req \ {r} : req'[q] = req[q]
         /\ req'[r].at \notin {"write", "trim"}
         /\ Replaces(req[r].op) /\ out = "done" =>
              req'[r].at = "revokeAll" /\ req'[r].subj = req[r].subj
<1>1. Counters /\ Slots /\ req[r].at = "write" /\ UNCHANGED lastUser
  BY DEF Types, WriteRow, UpdateRow
<1>2. Grows  BY <1>1 DEF Counters, Grows
<1>3. ASSUME Answer(r) \/ Finish(r), ~(Replaces(req[r].op) /\ out = "done")
      PROVE  /\ Slots' /\ \A q \in Req \ {r} : req'[q] = req[q]
             /\ req'[r].at \notin {"write", "trim"}
  BY <1>1, <1>2, <1>3, EndSteps, AnswerWritten, FinishWritten, WrittenSame
<1>4. CASE out # "done"  BY <1>3, <1>4 DEF WriteRow, FailUpdate
<1>5. CASE out = "done" /\ ~Replaces(req[r].op)  BY <1>3, <1>5 DEF WriteRow
<1>6. CASE out = "done" /\ Replaces(req[r].op)
  <2>1. PICK old \in Slot : old = req[r]  BY <1>1 DEF Slots
  <2>2. old.at = "write" /\ Carries(old)  BY <1>1, <2>1 DEF Slots
  <2>3. PICK n \in Slot : n = [old EXCEPT !.at = "revokeAll", !.copy = None]
    BY DEF Slot, Steps
  <2>4. n.op = old.op /\ n.at = "revokeAll" /\ n.new = old.new /\ n.patch = old.patch
        /\ n.subj = old.subj
    BY <2>3 DEF Slot
  <2>5. Carries(n)  BY <2>2, <2>4 DEF Carries
  <2>6. req' = [req EXCEPT ![r] = n]  BY <1>1, <1>6, <2>1, <2>3 DEF WriteRow, Slots
  <2>7. Slots'  BY <1>1, <1>2, <2>5, <2>6, SlotStored
  <2>8. req'[r] = n /\ \A q \in Req \ {r} : req'[q] = req[q]  BY <1>1, <2>6 DEF Slots
  <2> QED  BY <2>1, <2>4, <2>7, <2>8
<1> QED  BY <1>4, <1>5, <1>6

\* The UPDATE writes one account, and only where its email is free.
LEMMA WriteRowUsers ==
  ASSUME Types, NEW r \in Req, NEW out \in Outs, WriteRow(r, out),
         NEW id, id = req[r].subj
  PROVE  LET wrote == Ran(out) /\ id \in DOMAIN users
             copy  == req[r].copy
         IN
         /\ id \in 1..lastUser /\ copy \in User /\ Later
         /\ users' \in [DOMAIN users -> User]
         /\ \A u \in DOMAIN users : u # id => users'[u] = users[u]
         /\ wrote => users'[id] = copy /\ Free(copy.email, id)
         /\ ~wrote => users' = users
<1>1. req[r].at = "write" /\ UpdateRow(id, req[r].copy, out)  BY DEF WriteRow
<1>2. id \in 1..lastUser /\ req[r].copy \in User  BY <1>1 DEF Types, Slots, Carries
<1>3. Later /\ (Ran(out) => id \notin DOMAIN users \/ Free(req[r].copy.email, id))
  BY <1>1, OutcomeLater DEF UpdateRow, Types
<1>4. users' = IF Ran(out) /\ id \in DOMAIN users THEN [users EXCEPT ![id] = req[r].copy]
                                                   ELSE users
  BY <1>1 DEF UpdateRow
<1> QED  BY <1>2, <1>3, <1>4 DEF Types, Tables

LEMMA WriteRowKeeps ==
  ASSUME FlowAssumption, StoreAssumption, IInv, NEW r \in Req, NEW out \in Outs,
         WriteRow(r, out)
  PROVE  IInv'
<1>0. PICK id : id = req[r].subj  OBVIOUS
<1> DEFINE copy == req[r].copy
           wrote == Ran(out) /\ id \in DOMAIN users
           chose == Replaces(req[r].op) /\ wrote
<1>1. /\ req[r].at = "write"
      /\ chosen' = IF chose THEN [chosen EXCEPT ![id] = req[r].new] ELSE chosen
      /\ overlapped' = IF chose /\ Updating(id, r) = {} THEN overlapped \ {id} ELSE overlapped
      /\ cutShort' = IF chose /\ out = "lost" THEN cutShort \cup {id} ELSE cutShort
      /\ UNCHANGED <<lastUser, sessions, lastSession, logged, now>>
      /\ UNCHANGED <<held, sent, verified, raced, gone>>
  BY <1>0 DEF WriteRow, UpdateRow, clients
<1>2. /\ Slots' /\ \A q \in Req \ {r} : req'[q] = req[q]
      /\ req'[r].at \notin {"write", "trim"}
      /\ Replaces(req[r].op) /\ out = "done" => req'[r].at = "revokeAll" /\ req'[r].subj = id
  BY <1>0, WriteRowSlots DEF IInv
<1>3. /\ id \in 1..lastUser /\ copy \in User /\ Later
      /\ users' \in [DOMAIN users -> User]
      /\ \A u \in DOMAIN users : u # id => users'[u] = users[u]
      /\ wrote => users'[id] = copy /\ Free(copy.email, id)
      /\ ~wrote => users' = users
  BY <1>0, WriteRowUsers DEF IInv, Types
<1>4. Replaces(req[r].op) => req[r].new \in Passwords /\ copy.hash = req[r].new
  BY <1>1 DEF IInv, Types, Slots, Carries, Hashes, NewHash, Replaces
<1>5. Writes(r, id)  BY <1>0, <1>1 DEF Writes
<1>6. DOMAIN users' = DOMAIN users  BY <1>3
<1>7. out # "refused" /\ out # "done" => out = "lost"  BY DEF Outs
<1> HIDE DEF copy, wrote
<1>8. Types'
  <2>1. Counters'  BY <1>1, <1>3 DEF IInv, Types, Counters, Later
  <2>2. Tables'  BY <1>1, <1>3, <1>6 DEF IInv, Types, Tables
  <2>3. chosen' \in Seq(Passwords) /\ Len(chosen') = lastUser
    <3>1. chosen \in Seq(Passwords) /\ Len(chosen) = lastUser  BY DEF IInv, Types, Books
    <3> QED  BY <1>1, <1>3, <1>4, <3>1, ExceptSeq
  <2>4. Books'  BY <1>1, <1>3, <2>3 DEF IInv, Types, Books
  <2> QED  BY <1>2, <2>1, <2>2, <2>4 DEF Types
<1>9. Schema'
  <2>1. NoOrphans' /\ DeletionSticks'
    BY <1>1, <1>6 DEF IInv, Schema, NoOrphans, DeletionSticks
  <2>2. ASSUME NEW u \in DOMAIN users, NEW v \in DOMAIN users, users'[u].email = users'[v].email
        PROVE  u = v
    <3>1. CASE ~wrote  BY <1>3, <2>2, <3>1 DEF IInv, Schema, EmailsAreUnique
    <3>2. CASE wrote
      <4>1. \A x \in DOMAIN users : users[x].email = copy.email => x = id
        BY <1>3, <3>2 DEF Free, WithEmail
      <4> QED  BY <1>3, <2>2, <3>2, <4>1 DEF IInv, Schema, EmailsAreUnique
    <3> QED  BY <3>1, <3>2
  <2>3. EmailsAreUnique'  BY <1>6, <2>2 DEF EmailsAreUnique
  <2> QED  BY <2>1, <2>3 DEF Schema
<1>10. Hashes'
  <2>1. ASSUME NEW q \in Req, NEW u, Writes(q, u)'
        PROVE  q # r /\ Writes(q, u) /\ req'[q] = req[q]
    BY <1>2, <2>1 DEF Writes
  <2>2. ASSUME NEW q \in Req, NEW u \in 1..lastUser, Writes(q, u)', u \notin overlapped'
        PROVE  u # id /\ u \notin overlapped
    <3>1. q # r /\ Writes(q, u)  BY <2>1, <2>2
    <3>2. u = id => q \in Updating(id, r)  BY <3>1 DEF Writes, Updating
    <3>3. u \notin overlapped  BY <1>1, <2>2, <3>2
    <3> QED  BY <1>3, <1>5, <2>2, <3>1, <3>3 DEF IInv, Hashes, OneWriter
  <2>3. PasswordSticks'
    <3>1. ASSUME NEW u \in DOMAIN users  PROVE users'[u].hash = chosen'[u] \/ u \in overlapped'
      <4>1. users[u].hash = chosen[u] \/ u \in overlapped
        BY DEF IInv, Hashes, PasswordSticks
      <4>2. chosen \in Seq(Passwords) /\ u \in 1..Len(chosen) /\ id \in 1..Len(chosen)
        BY <1>3 DEF IInv, Types, Books, Tables
      <4>3. CASE u # id
        <5>1. chosen'[u] = chosen[u]  BY <1>1, <4>2, <4>3
        <5> QED  BY <1>1, <1>3, <4>1, <4>3, <5>1
      <4>4. CASE u = id /\ chose
        <5>1. chosen'[u] = req[r].new  BY <1>1, <4>2, <4>4
        <5> QED  BY <1>3, <1>4, <4>4, <5>1
      <4>5. CASE u = id /\ ~chose
        <5>1. chosen' = chosen /\ overlapped' = overlapped  BY <1>1, <4>5
        <5>2. wrote => ~Replaces(req[r].op)  BY <4>5
        <5>3. wrote /\ u \notin overlapped => users'[u].hash = users[u].hash
          BY <1>3, <1>5, <4>5, <5>2 DEF IInv, Hashes, OldHash, copy
        <5> QED  BY <1>3, <4>1, <5>1, <5>3
      <4> QED  BY <4>3, <4>4, <4>5
    <3> QED  BY <1>6, <3>1 DEF PasswordSticks
  <2>4. NewHash'
    BY <2>1, <1>2 DEF IInv, Hashes, NewHash, Writes, Replaces
  <2>5. OneWriter'  BY <1>1, <2>1, <2>2 DEF IInv, Hashes, OneWriter
  <2>6. OldHash'
    <3>1. ASSUME NEW q \in Req, NEW u \in DOMAIN users \ overlapped', Writes(q, u)',
                 ~Replaces(req'[q].op)
          PROVE  req'[q].copy.hash = users'[u].hash
      <4>1. u \in 1..lastUser  BY DEF IInv, Types, Tables
      <4>2. u # id /\ u \notin overlapped  BY <2>2, <3>1, <4>1
      <4>3. Writes(q, u) /\ req'[q] = req[q] /\ users'[u] = users[u]
        BY <1>3, <2>1, <3>1, <4>2
      <4> QED  BY <3>1, <4>2, <4>3 DEF IInv, Hashes, OldHash
    <3> QED  BY <1>6, <3>1 DEF OldHash, Replaces
  <2> QED  BY <2>3, <2>4, <2>5, <2>6 DEF Hashes
<1>11. StaleSessionsAreCondemned'
  <2>1. \A u : PendingRevoke(u) => PendingRevoke(u)'
    BY <1>1, <1>2 DEF PendingRevoke
  <2>2. chose => PendingRevoke(id)' \/ id \in cutShort'
    <3>1. chose /\ out = "done" => PendingRevoke(id)'  BY <1>2 DEF PendingRevoke
    <3>2. chose => out = "done" \/ out = "lost"  BY <1>7 DEF wrote, Ran
    <3> QED  BY <1>1, <3>1, <3>2
  <2>3. ASSUME NEW s \in DOMAIN sessions, NEW u, u = sessions[s].user
        PROVE  \/ sessions[s].revoked \/ users'[u].hash = verified[s] \/ s \in raced
               \/ PendingRevoke(u)' \/ u \in cutShort' \/ u \in overlapped'
    <3>1. \/ sessions[s].revoked \/ users[u].hash = verified[s] \/ s \in raced
          \/ PendingRevoke(u) \/ u \in cutShort \/ u \in overlapped
      BY <2>3 DEF IInv, StaleSessionsAreCondemned, Backed
    <3>2. u \in DOMAIN users  BY <2>3 DEF IInv, Schema, NoOrphans
    <3>3. PendingRevoke(u) => PendingRevoke(u)'  BY <2>1
    <3>4. CASE u = id /\ chose  BY <2>2, <3>4
    <3>5. CASE u # id
      BY <1>1, <1>3, <3>1, <3>2, <3>3, <3>5
    <3>6. CASE u = id /\ ~chose
      <4>1. wrote /\ u \notin overlapped => users'[u].hash = users[u].hash
        BY <1>3, <1>5, <3>2, <3>6 DEF IInv, Hashes, OldHash, copy
      <4> QED  BY <1>1, <1>3, <3>1, <3>3, <3>6, <4>1
    <3> QED  BY <3>4, <3>5, <3>6
  <2> QED  BY <1>1, <2>3 DEF StaleSessionsAreCondemned, Backed
<1>12. LogBounded'
  <2>1. Same("trim")  BY <1>1, <1>2 DEF Same
  <2> QED  BY <1>1, <1>3, <2>1, LogFrame DEF IInv, Types
<1> QED  BY <1>8, <1>9, <1>10, <1>11, <1>12 DEF IInv

-----------------------------------------------------------------------------
(* Sessions revoked and purged, the clock, and the activity log.           *)

\* Sessions may go or be revoked.
Shrinks ==
  /\ sessions' \in [DOMAIN sessions' -> Session] /\ DOMAIN sessions' \subseteq DOMAIN sessions
  /\ \A s \in DOMAIN sessions' : /\ sessions'[s].user = sessions[s].user
                                 /\ sessions[s].revoked => sessions'[s].revoked

LEMMA RevokeShrinks ==
  ASSUME Counters, Tables, NEW ids, NEW out, Revoke(ids, out)
  PROVE  /\ Shrinks /\ Later /\ UNCHANGED <<users, lastUser, lastSession, logged, now>>
         /\ Ran(out) => \A s \in DOMAIN sessions' : s \in ids => sessions'[s].revoked
<1>1. Later  BY OutcomeLater DEF Revoke
<1>2. CASE Ran(out)
  <2>1. sessions' = Revoked(ids)  BY <1>2 DEF Revoke
  <2>2. /\ DOMAIN sessions' = DOMAIN sessions
        /\ \A s \in DOMAIN sessions :
             sessions'[s] = [sessions[s] EXCEPT !.revoked = sessions[s].revoked \/ s \in ids]
    BY <2>1 DEF Revoked
  <2>3. ASSUME NEW s \in DOMAIN sessions
        PROVE  /\ sessions'[s] \in Session /\ sessions'[s].user = sessions[s].user
               /\ sessions[s].revoked => sessions'[s].revoked
               /\ s \in ids => sessions'[s].revoked
    <3>1. sessions[s] \in Session  BY DEF Tables
    <3>2. PICK b \in BOOLEAN : b = (sessions[s].revoked \/ s \in ids)
      BY <3>1 DEF Session
    <3>3. sessions'[s] = [sessions[s] EXCEPT !.revoked = b]  BY <2>2, <3>2
    <3>4. sessions'[s] \in Session /\ sessions'[s].user = sessions[s].user
          /\ sessions'[s].revoked = b
      BY <3>1, <3>3 DEF Session
    <3> QED  BY <3>2, <3>4
  <2>4. sessions' \in [DOMAIN sessions' -> Session]  BY <2>1, <2>2, <2>3 DEF Revoked
  <2> QED  BY <1>1, <2>2, <2>3, <2>4 DEF Shrinks, Revoke
<1>3. CASE ~Ran(out)
  <2>1. sessions' = sessions  BY <1>3 DEF Revoke
  <2> QED  BY <1>1, <1>3, <2>1 DEF Shrinks, Revoke, Tables
<1> QED  BY <1>2, <1>3

LEMMA PurgeShrinks ==
  ASSUME Counters, Tables, NEW out, PurgeExpiredSessions(out)
  PROVE  Shrinks /\ Later /\ UNCHANGED <<users, lastUser, lastSession, logged, now>>
<1>1. Later  BY OutcomeLater DEF PurgeExpiredSessions
<1>2. CASE Ran(out)
  <2>1. PICK kept \in SUBSET DOMAIN sessions : sessions' = [s \in kept |-> sessions[s]]
    <3> DEFINE kept == {s \in DOMAIN sessions : sessions[s].expires >= now - PurgeAge}
    <3>1. sessions' = [s \in kept |-> sessions[s]]  BY <1>2 DEF PurgeExpiredSessions, Only
    <3> QED  BY <3>1
  <2> QED  BY <1>1, <2>1 DEF Shrinks, PurgeExpiredSessions, Tables
<1>3. CASE ~Ran(out)
  <2>1. sessions' = sessions  BY <1>3 DEF PurgeExpiredSessions
  <2> QED  BY <1>1, <2>1 DEF Shrinks, PurgeExpiredSessions, Tables
<1> QED  BY <1>2, <1>3

\* What such steps keep: everything but the bound of the log.
LEMMA SessionsKeep ==
  ASSUME IInv, Slots', Same("write"), Same("revokeAll"), Shrinks, Later,
         UNCHANGED <<users, lastUser, lastSession, history>>,
         logged' \in Nat, now' \in Nat, sent' \in Nat, held' \subseteq Token
  PROVE  Types' /\ Schema' /\ Hashes' /\ StaleSessionsAreCondemned'
<1>1. Counters'  BY DEF IInv, Types, Counters, Later
<1>2. Tables'  BY DEF IInv, Types, Tables, Shrinks
<1>3. Books'  BY DEF IInv, Types, Books, history
<1>4. Schema'
  BY DEF IInv, Schema, NoOrphans, EmailsAreUnique, DeletionSticks, Shrinks, history
<1>5. Hashes'  BY HashesFrame DEF IInv, history
<1>6. StaleSessionsAreCondemned'  BY StaleFrame DEF IInv, Shrinks, history
<1> QED  BY <1>1, <1>2, <1>3, <1>4, <1>5, <1>6 DEF Types

LEMMA LogoutRevokeKeeps ==
  ASSUME FlowAssumption, StoreAssumption, IInv, NEW r \in Req, NEW out, LogoutRevoke(r, out)
  PROVE  IInv'
<1>1. Counters /\ Tables /\ Slots  BY DEF IInv, Types
<1>2. /\ Shrinks /\ Later /\ UNCHANGED <<users, lastUser, lastSession, logged, now>>
      /\ UNCHANGED <<clients, history>> /\ req[r].at = "revoke" /\ Finish(r)
  BY <1>1, RevokeShrinks DEF LogoutRevoke
<1>3. Grows  BY <1>1, <1>2 DEF Counters, Grows
<1>4. Slots' /\ \A step \in {"write", "revokeAll", "trim"} : Same(step)
  BY <1>1, <1>2, <1>3, FinishWritten, WrittenSame DEF Early, Steps
<1>5. /\ logged' \in Nat /\ now' \in Nat /\ sent' \in Nat /\ held' \subseteq Token
  BY <1>2 DEF IInv, Types, Counters, Books, clients
<1>6. Types' /\ Schema' /\ Hashes' /\ StaleSessionsAreCondemned'
  BY <1>2, <1>4, <1>5, SessionsKeep
<1>7. LogBounded'  BY <1>1, <1>2, <1>4, LogFrame DEF IInv
<1> QED  BY <1>6, <1>7 DEF IInv

LEMMA CondemnKeeps ==
  ASSUME FlowAssumption, StoreAssumption, IInv, NEW r \in Req, NEW out, Condemn(r, out)
  PROVE  IInv'
<1>1. Counters /\ Tables /\ Slots  BY DEF IInv, Types
<1>2. /\ Shrinks /\ Later /\ UNCHANGED <<users, lastUser, lastSession, logged, now>>
      /\ UNCHANGED <<clients, history>> /\ req[r].at = "condemn"
      /\ Goto(r, "delete") \/ Answer(r)
  BY <1>1, RevokeShrinks DEF Condemn
<1>3. Grows  BY <1>1, <1>2 DEF Counters, Grows
<1>4. Written(r)  BY <1>1, <1>2, GotoWritten, AnswerWritten
<1>5. Slots' /\ \A step \in {"write", "revokeAll", "trim"} : Same(step)
  BY <1>1, <1>2, <1>3, <1>4, WrittenSame DEF Early, Steps
<1>6. /\ logged' \in Nat /\ now' \in Nat /\ sent' \in Nat /\ held' \subseteq Token
  BY <1>2 DEF IInv, Types, Counters, Books, clients
<1>7. Types' /\ Schema' /\ Hashes' /\ StaleSessionsAreCondemned'
  BY <1>2, <1>5, <1>6, SessionsKeep
<1>8. LogBounded'  BY <1>1, <1>2, <1>5, LogFrame DEF IInv
<1> QED  BY <1>7, <1>8 DEF IInv

\* The steps of no request: the purge, the clock, and none at all.
LEMMA AroundKeeps ==
  ASSUME FlowAssumption, StoreAssumption, IInv,
         (\E out : Purge(out)) \/ Clock \/ UNCHANGED vars
  PROVE  IInv'
<1>1. Counters /\ Tables /\ Slots  BY DEF IInv, Types
<1>2. UNCHANGED <<users, lastUser, lastSession, logged, req, clients, history>>
  BY <1>1, PurgeShrinks DEF Purge, Clock, Tick, vars, storeVars, tables
<1>3. Shrinks /\ Later /\ now' \in Nat
  <2>1. CASE \E out : Purge(out)
    BY <1>1, <2>1, PurgeShrinks DEF Purge, Counters
  <2>2. CASE Clock \/ UNCHANGED vars
    <3>1. UNCHANGED <<sessions, faults>> /\ now' \in Nat
      BY <1>1, <2>2 DEF Clock, Tick, vars, storeVars, tables, Counters
    <3> QED  BY <1>1, <3>1 DEF Shrinks, Later, Counters, Tables
  <2> QED  BY <2>1, <2>2
<1>4. Grows  BY <1>1, <1>2 DEF Counters, Grows
<1>5. Slots' /\ \A step : Same(step)  BY <1>1, <1>2, <1>4, SlotsUnchanged DEF Same
<1>6. /\ logged' \in Nat /\ sent' \in Nat /\ held' \subseteq Token
  BY <1>2 DEF IInv, Types, Counters, Books, clients
<1>7. Types' /\ Schema' /\ Hashes' /\ StaleSessionsAreCondemned'
  BY <1>2, <1>3, <1>5, <1>6, SessionsKeep
<1>8. LogBounded'  BY <1>1, <1>2, <1>3, <1>5, LogFrame DEF IInv
<1> QED  BY <1>7, <1>8 DEF IInv

LEMMA RevokeAllKeeps ==
  ASSUME FlowAssumption, StoreAssumption, IInv, NEW r \in Req, NEW out, RevokeAll(r, out)
  PROVE  IInv'
<1>0. PICK id : id = req[r].subj  OBVIOUS
<1>1. Counters /\ Tables /\ Slots /\ Books  BY DEF IInv, Types
<1>2. /\ req[r].at = "revokeAll" /\ Revoke(Of(id), out) /\ Finish(r)
      /\ cutShort' = IF Ran(out) THEN cutShort \ {id} ELSE cutShort \cup {id}
      /\ UNCHANGED <<clients, verified, chosen, overlapped, raced, gone>>
  BY <1>0 DEF RevokeAll
<1>3. /\ Shrinks /\ Later /\ UNCHANGED <<users, lastUser, lastSession, logged, now>>
      /\ Ran(out) => \A s \in DOMAIN sessions' : s \in Of(id) => sessions'[s].revoked
  BY <1>1, <1>2, RevokeShrinks
<1>4. Grows  BY <1>1, <1>3 DEF Counters, Grows
<1>5. /\ Slots' /\ Same("write") /\ Same("trim")
      /\ \A q \in Req \ {r} : req'[q] = req[q]
  BY <1>1, <1>2, <1>4, FinishWritten, WrittenSame, EndSteps DEF Early, Steps
<1>6. id \in 1..lastUser  BY <1>0, <1>1, <1>2 DEF Slots, Carries
<1>7. Counters' /\ Tables'  BY <1>1, <1>2, <1>3 DEF Counters, Tables, Shrinks, Later, clients
<1>8. Books'  BY <1>1, <1>2, <1>3, <1>6 DEF Books, clients
<1>9. Schema'
  BY <1>2, <1>3 DEF IInv, Schema, NoOrphans, EmailsAreUnique, DeletionSticks, Shrinks
<1>10. Hashes'  BY <1>2, <1>3, <1>5, HashesFrame DEF IInv
<1>11. StaleSessionsAreCondemned'
  <2>1. \A u : u # id /\ PendingRevoke(u) => PendingRevoke(u)'
    BY <1>0, <1>5 DEF PendingRevoke
  <2>2. ASSUME NEW s \in DOMAIN sessions', NEW u, u = sessions'[s].user
        PROVE  \/ sessions'[s].revoked \/ users'[u].hash = verified'[s] \/ s \in raced'
               \/ PendingRevoke(u)' \/ u \in cutShort' \/ u \in overlapped'
    <3>1. s \in DOMAIN sessions /\ u = sessions[s].user
          /\ (sessions[s].revoked => sessions'[s].revoked)
      BY <1>3, <2>2 DEF Shrinks
    <3>2. CASE u = id
      <4>1. s \in Of(id)  BY <3>1, <3>2 DEF Of
      <4> QED  BY <1>2, <1>3, <2>2, <3>2, <4>1
    <3>3. CASE u # id
      <4>1. \/ sessions[s].revoked \/ users[u].hash = verified[s] \/ s \in raced
            \/ PendingRevoke(u) \/ u \in cutShort \/ u \in overlapped
        BY <3>1 DEF IInv, StaleSessionsAreCondemned, Backed
      <4> QED  BY <1>2, <1>3, <2>1, <3>1, <3>3, <4>1
    <3> QED  BY <3>2, <3>3
  <2> QED  BY <2>2 DEF StaleSessionsAreCondemned, Backed
<1>12. LogBounded'  BY <1>1, <1>3, <1>5, LogFrame DEF IInv
<1> QED  BY <1>5, <1>7, <1>8, <1>9, <1>10, <1>11, <1>12 DEF IInv, Types

LEMMA LogEntryKeeps ==
  ASSUME FlowAssumption, StoreAssumption, IInv, NEW r \in Req, NEW out, LogEntry(r, out)
  PROVE  IInv'
<1>1. Counters /\ Tables /\ Slots  BY DEF IInv, Types
<1>2. /\ req[r].at = "log" /\ Goto(r, "trim")
      /\ logged' \in Nat /\ logged' <= logged + 1
      /\ UNCHANGED <<users, lastUser, sessions, lastSession, now, clients, history>>
  BY <1>1 DEF LogEntry, InsertEntry, Counters
<1>3. Later  BY <1>1, OutcomeLater DEF LogEntry, InsertEntry
<1>4. Grows  BY <1>1, <1>2 DEF Counters, Grows
<1>5. PICK old \in Slot : old = req[r]  BY <1>1 DEF Slots
<1>6. PICK n \in Slot : n = [old EXCEPT !.at = "trim"]  BY DEF Slot, Steps
<1>7. n.at = "trim" /\ Carries(n)  BY <1>6 DEF Slot, Carries
<1>8. req' = [req EXCEPT ![r] = n]  BY <1>1, <1>2, <1>5, <1>6 DEF Goto, Slots
<1>9. Slots'  BY <1>1, <1>4, <1>7, <1>8, SlotStored
<1>10. req'[r].at = "trim" /\ \A q \in Req \ {r} : req'[q] = req[q]
  BY <1>1, <1>7, <1>8 DEF Slots
<1>11. Same("write") /\ Same("revokeAll")  BY <1>2, <1>10 DEF Same
<1>12. Shrinks /\ now' \in Nat /\ sent' \in Nat /\ held' \subseteq Token
  BY <1>1, <1>2 DEF Shrinks, Tables, Counters, IInv, Types, Books, clients
<1>13. Types' /\ Schema' /\ Hashes' /\ StaleSessionsAreCondemned'
  BY <1>2, <1>3, <1>9, <1>11, <1>12, SessionsKeep
<1>14. LogBounded'
  <2> DEFINE before == InFlight("trim")
  <2>1. before' = before \cup {r} /\ r \notin before  BY <1>2, <1>10 DEF InFlight
  <2>2. IsFiniteSet(before) /\ Cardinality(before) \in Nat /\ Cardinality(Req) \in Nat
    BY InFlightFinite
  <2>3. Cardinality(before') = Cardinality(before) + 1
    <3> HIDE DEF before
    <3> QED  BY <2>1, <2>2, FS_AddElement
  <2>4. /\ faults * Cardinality(Req) <= faults' * Cardinality(Req)
        /\ faults * Cardinality(Req) \in Nat /\ faults' * Cardinality(Req) \in Nat
    BY <1>1, <1>3, <2>2, Product DEF Later, Counters
  <2>5. LogCap \in Nat /\ logged \in Nat
        /\ logged <= LogCap + Cardinality(before) + faults * Cardinality(Req)
    BY <1>1 DEF StoreAssumption, Counters, IInv, LogBounded
  <2>6. logged' <= LogCap + Cardinality(before') + faults' * Cardinality(Req)
    <3> HIDE DEF before
    <3> QED  BY <1>2, <2>2, <2>3, <2>4, <2>5
  <2> QED  BY <2>6 DEF LogBounded
<1> QED  BY <1>13, <1>14 DEF IInv

LEMMA TrimKeeps ==
  ASSUME FlowAssumption, StoreAssumption, IInv, NEW r \in Req, NEW out, Trim(r, out)
  PROVE  IInv'
<1>1. Counters /\ Tables /\ Slots  BY DEF IInv, Types
<1>2. /\ req[r].at = "trim" /\ Answer(r) /\ Outcome(TRUE, out)
      /\ logged' = IF Ran(out) /\ logged > LogCap THEN LogCap ELSE logged
      /\ UNCHANGED <<users, lastUser, sessions, lastSession, now, sent, history>>
  BY DEF Trim, TrimLog
<1>3. Later /\ (~Ran(out) => faults' = faults + 1)
  BY <1>1, <1>2, OutcomeLater DEF Outcome, Ran, Fault
<1>4. Grows  BY <1>1, <1>2 DEF Counters, Grows
<1>5. /\ Slots' /\ Same("write") /\ Same("revokeAll")
      /\ req'[r].at # "trim" /\ \A q \in Req \ {r} : req'[q] = req[q]
  BY <1>1, <1>2, <1>4, AnswerWritten, WrittenSame, EndSteps DEF Early, Steps
<1>6. held' \subseteq Token
  <2>1. held' = IF req[r].token = None THEN held ELSE held \cup {req[r].token}
    BY DEF Trim
  <2>2. req[r].token \in Token \cup {None}  BY <1>1 DEF Slots, Slot
  <2> QED  BY <2>1, <2>2 DEF IInv, Types, Books
<1>7. Shrinks /\ now' \in Nat /\ sent' \in Nat /\ logged' \in Nat
  BY <1>1, <1>2 DEF Shrinks, Tables, Counters, StoreAssumption
<1>8. Types' /\ Schema' /\ Hashes' /\ StaleSessionsAreCondemned'
  BY <1>2, <1>3, <1>5, <1>6, <1>7, SessionsKeep
<1>9. LogBounded'
  <2> DEFINE before == InFlight("trim")
  <2>1. before' = before \ {r} /\ r \in before  BY <1>2, <1>5 DEF InFlight
  <2>2. IsFiniteSet(before) /\ Cardinality(before) \in Nat /\ Cardinality(Req) \in Nat
        /\ Cardinality(before) <= Cardinality(Req)
    BY InFlightFinite
  <2>3. Cardinality(before') = Cardinality(before) - 1 /\ Cardinality(before') \in Nat
    <3>1. IsFiniteSet(before')  BY <2>1, <2>2, FS_Subset
    <3>2. Cardinality(before') \in Nat  BY <3>1, FS_CardinalityType
    <3> HIDE DEF before
    <3> QED  BY <2>1, <2>2, <3>2, FS_RemoveElement
  <2>4. /\ faults * Cardinality(Req) <= faults' * Cardinality(Req)
        /\ faults * Cardinality(Req) \in Nat /\ faults' * Cardinality(Req) \in Nat
        /\ (faults + 1) * Cardinality(Req) = faults * Cardinality(Req) + Cardinality(Req)
    BY <1>1, <1>3, <2>2, Product DEF Later, Counters
  <2>5. LogCap \in Nat /\ logged \in Nat
        /\ logged <= LogCap + Cardinality(before) + faults * Cardinality(Req)
    BY <1>1 DEF StoreAssumption, Counters, IInv, LogBounded
  <2>6. logged' <= LogCap + Cardinality(before') + faults' * Cardinality(Req)
    <3>1. CASE Ran(out)
      <4>1. logged' <= LogCap /\ logged' \in Nat  BY <1>2, <2>5, <3>1
      <4> HIDE DEF before
      <4> QED  BY <2>3, <2>4, <2>5, <4>1
    <3>2. CASE ~Ran(out)
      <4>1. logged' = logged /\ faults' = faults + 1  BY <1>2, <1>3, <3>2
      <4>2. PICK m \in Nat : m = faults * Cardinality(Req)  BY <2>4
      <4>3. faults' * Cardinality(Req) = m + Cardinality(Req)  BY <2>4, <4>1, <4>2
      <4> HIDE DEF before
      <4>4. logged <= LogCap + Cardinality(before) + m  BY <2>5, <4>2
      <4>5. logged' <= LogCap + Cardinality(before') + (m + Cardinality(Req))
        BY <2>2, <2>3, <2>5, <4>1, <4>4
      <4> QED  BY <4>3, <4>5
    <3> QED  BY <3>1, <3>2
  <2> QED  BY <2>6 DEF LogBounded
<1> QED  BY <1>8, <1>9 DEF IInv

-----------------------------------------------------------------------------
(* Sessions and accounts that come and go.                                 *)

LEMMA IssueWritten ==
  ASSUME FlowAssumption, Types, NEW r \in Req, NEW out, IssueToken(r, out)
  PROVE  Written(r)
<1>1. PICK old \in Slot : old = req[r]  BY DEF Types, Slots
<1>2. old.at = "issue" /\ Carries(old)  BY <1>1 DEF Types, Slots, IssueToken
<1>3. CASE Answer(r)  BY <1>3, AnswerWritten
<1>4. ASSUME NEW t \in Token, NEW s \in Nat,
             req' = [req EXCEPT ![r].at = "read", ![r].sess = s, ![r].token = t, ![r].pw = None]
      PROVE  Written(r)
  <2>1. PICK n \in Slot : n = [old EXCEPT !.at = "read", !.sess = s, !.token = t, !.pw = None]
    BY DEF Slot, Steps
  <2>2. n.op = old.op /\ n.at = "read" /\ n.new = old.new /\ n.patch = old.patch
    BY <2>1 DEF Slot
  <2>3. Carries(n)  BY <1>2, <2>2 DEF Carries
  <2>4. n.at \in Early  BY <2>2 DEF Early, Steps
  <2>5. req' = [req EXCEPT ![r] = n]  BY <1>1, <1>4, <2>1 DEF Types, Slots
  <2> QED  BY <2>3, <2>4, <2>5, SlotWritten
<1>5. [old.token EXCEPT !.iat = now] \in Token
  <2>1. old.token \in Token /\ now \in Nat  BY <1>2 DEF Carries, Types, Counters
  <2> QED  BY <2>1 DEF Token
<1>6. lastSession + 1 \in Nat  BY DEF Types, Counters
<1>7. CASE out = "done"
  <2>1. req' = [req EXCEPT ![r].at = "read", ![r].sess = lastSession + 1,
                           ![r].token = [old.token EXCEPT !.iat = now], ![r].pw = None]
    BY <1>1, <1>7 DEF IssueToken
  <2>2. PICK t \in Token : t = [old.token EXCEPT !.iat = now]  BY <1>5
  <2>3. PICK s \in Nat : s = lastSession + 1  BY <1>6
  <2>4. req' = [req EXCEPT ![r].at = "read", ![r].sess = s, ![r].token = t, ![r].pw = None]
    BY <2>1, <2>2, <2>3
  <2> QED  BY <1>4, <2>4
<1> QED  BY <1>3, <1>7 DEF IssueToken

\* The session a login inserts.
LEMMA IssuedSession ==
  ASSUME FlowAssumption, Types, NEW r \in Req, NEW out, IssueToken(r, out), Ran(out)
  PROVE  \E sess \in Session :
           /\ sess.user = req[r].subj /\ sess.user \in DOMAIN users
           /\ sessions' = Put(sessions, lastSession + 1, sess)
           /\ lastSession' = lastSession + 1
<1>1. PICK old \in Slot : old = req[r]  BY DEF Types, Slots
<1>2. old.at = "issue" /\ Carries(old)  BY <1>1 DEF Types, Slots, IssueToken
<1>3. PICK t \in Token : t = [old.token EXCEPT !.iat = now]
  <2>1. old.token \in Token /\ now \in Nat  BY <1>2 DEF Carries, Types, Counters
  <2>2. [old.token EXCEPT !.iat = now] \in Token  BY <2>1 DEF Token
  <2> QED  BY <2>2
<1>4. PICK sess \in Session : sess = [user |-> old.subj, token |-> t, expires |-> now + TTL,
                                      revoked |-> FALSE]
  <2>1. old.subj \in Nat  BY <1>1 DEF Slot
  <2>2. now + TTL \in Nat  BY DEF FlowAssumption, Types, Counters
  <2>3. [user |-> old.subj, token |-> t, expires |-> now + TTL, revoked |-> FALSE] \in Session
    BY <2>1, <2>2 DEF Session
  <2> QED  BY <2>3
<1>5. sess \in Session /\ sess.user = old.subj  BY <1>4
<1>6. CreateSession(sess, out)  BY <1>1, <1>3, <1>4 DEF IssueToken
<1>7. sess.user \in DOMAIN users
  BY <1>6 DEF CreateSession, Outcome, Ran
<1>8. /\ sessions' = Put(sessions, lastSession + 1, sess)
      /\ lastSession' = lastSession + 1
  BY <1>6 DEF CreateSession
<1> QED  BY <1>1, <1>5, <1>7, <1>8

LEMMA IssueTokenKeeps ==
  ASSUME FlowAssumption, StoreAssumption, IInv, NEW r \in Req, NEW out, IssueToken(r, out)
  PROVE  IInv'
<1>1. Counters /\ Tables /\ Slots /\ Books  BY DEF IInv, Types
<1>2. /\ req[r].at = "issue"
      /\ UNCHANGED <<users, lastUser, logged, now, held, sent>>
      /\ UNCHANGED <<chosen, overlapped, cutShort, gone>>
  BY DEF IssueToken, CreateSession, clients
<1>3. Later
  <2>1. UNCHANGED faults \/ Fault  BY DEF IssueToken, CreateSession, Outcome
  <2> QED  BY <1>1, <2>1 DEF Fault, Later, Counters
<1>4. Written(r)  BY IssueWritten DEF IInv
<1>5. Grows  BY <1>1, <1>2 DEF Counters, Grows
<1>6. Slots' /\ \A step \in {"write", "revokeAll", "trim"} : Same(step)
  BY <1>1, <1>2, <1>4, <1>5, WrittenSame DEF Early, Steps
<1>7. Hashes'  BY <1>2, <1>6, HashesFrame DEF IInv
<1>8. LogBounded'  BY <1>1, <1>2, <1>3, <1>6, LogFrame DEF IInv
<1>9. CASE ~Ran(out)
  <2>1. UNCHANGED <<sessions, lastSession, verified, raced>>
    BY <1>9 DEF IssueToken, CreateSession
  <2>2. Counters' /\ Tables'  BY <1>1, <1>2, <1>3, <2>1 DEF Counters, Tables, Later
  <2>3. Books'  BY <1>1, <1>2, <2>1 DEF Books
  <2>4. Schema'  BY <1>2, <2>1, SchemaFrame DEF IInv
  <2>5. StaleSessionsAreCondemned'  BY <1>2, <1>6, <2>1, StaleFrame DEF IInv
  <2> QED  BY <1>6, <1>7, <1>8, <2>2, <2>3, <2>4, <2>5 DEF IInv, Types
<1>10. CASE Ran(out)
  <2>1. PICK sess \in Session :
          /\ sess.user = req[r].subj /\ sess.user \in DOMAIN users
          /\ sessions' = Put(sessions, lastSession + 1, sess)
          /\ lastSession' = lastSession + 1
    BY <1>10, IssuedSession DEF IInv
  <2>2. PICK k \in Nat : k = lastSession + 1  BY <1>1 DEF Counters
  <2>3. k \notin DOMAIN sessions /\ k \notin 1..lastSession
        /\ \A s \in DOMAIN sessions : s \in 1..lastSession
    BY <1>1, <2>2 DEF Tables, Counters
  <2>4. /\ DOMAIN sessions' = DOMAIN sessions \cup {k} /\ sessions'[k] = sess
        /\ \A s \in DOMAIN sessions : sessions'[s] = sessions[s]
        /\ sessions' \in [DOMAIN sessions' -> Session]
    BY <1>1, <2>1, <2>2, <2>3 DEF Put, Tables
  <2>5. PICK pw \in Passwords : pw = req[r].pw  BY <1>1, <1>2 DEF Slots, Carries
  <2>6. /\ verified' = Append(verified, pw)
        /\ raced' = IF users[sess.user].hash = pw THEN raced ELSE raced \cup {k}
    BY <1>10, <2>1, <2>2, <2>5 DEF IssueToken
  <2>7. verified \in Seq(Passwords) /\ Len(verified) = lastSession  BY <1>1 DEF Books
  <2>8. /\ verified' \in Seq(Passwords) /\ Len(verified') = k /\ verified'[k] = pw
        /\ \A s \in 1..lastSession : verified'[s] = verified[s]
    BY <2>2, <2>6, <2>7, AppendProperties
  <2>9. Counters' /\ lastSession' = k  BY <1>1, <1>2, <1>3, <2>1, <2>2 DEF Counters, Later
  <2>10. Tables'  BY <1>1, <1>2, <2>1, <2>2, <2>4, <2>9 DEF Tables, Counters
  <2>11. Books'
    <3>1. raced' \subseteq 1..k  BY <1>1, <2>2, <2>6 DEF Books, Counters
    <3> QED  BY <1>1, <1>2, <2>8, <2>9, <3>1 DEF Books
  <2>12. Schema'
    BY <1>2, <2>1, <2>4 DEF IInv, Schema, NoOrphans, EmailsAreUnique, DeletionSticks
  <2>13. StaleSessionsAreCondemned'
    <3>1. \A u : PendingRevoke(u) => PendingRevoke(u)'  BY <1>6 DEF PendingRevoke, Same
    <3>2. ASSUME NEW s \in DOMAIN sessions', NEW u, u = sessions'[s].user
          PROVE  \/ sessions'[s].revoked \/ users'[u].hash = verified'[s] \/ s \in raced'
                 \/ PendingRevoke(u)' \/ u \in cutShort' \/ u \in overlapped'
      <4>1. CASE s = k  BY <1>2, <2>4, <2>6, <2>8, <3>2, <4>1
      <4>2. CASE s # k
        <5>1. s \in DOMAIN sessions /\ sessions'[s] = sessions[s] /\ verified'[s] = verified[s]
          BY <2>3, <2>4, <2>8, <3>2, <4>2
        <5>2. \/ sessions[s].revoked \/ users[u].hash = verified[s] \/ s \in raced
              \/ PendingRevoke(u) \/ u \in cutShort \/ u \in overlapped
          BY <3>2, <5>1 DEF IInv, StaleSessionsAreCondemned, Backed
        <5> QED  BY <1>2, <2>6, <3>1, <5>1, <5>2
      <4> QED  BY <4>1, <4>2
    <3> QED  BY <3>2 DEF StaleSessionsAreCondemned, Backed
  <2> QED  BY <1>6, <1>7, <1>8, <2>9, <2>10, <2>11, <2>12, <2>13 DEF IInv, Types
<1> QED  BY <1>9, <1>10

LEMMA NewAccount ==
  ASSUME FlowAssumption, StoreAssumption, Types, NEW r \in Req, req[r].at = "insert"
  PROVE  /\ NewUser(req[r]) \in User /\ NewUser(req[r]).hash = req[r].new
         /\ req[r].new \in Passwords
<1>1. PICK old \in Slot : old = req[r]  BY DEF Types, Slots
<1>2. old.at = "insert" /\ Carries(old)  BY <1>1 DEF Types, Slots
<1>3. /\ old.new \in Passwords /\ old.patch \in Patch /\ old.patch.email \in Emails
      /\ old.patch.role # BadRole
  BY <1>2 DEF Carries
<1>4. PICK role \in Roles :
        role = IF old.patch.role = Keep THEN DefaultRole ELSE old.patch.role
  BY <1>3 DEF Patch, FlowAssumption
<1>5. PICK active \in BOOLEAN :
        active = IF old.patch.active = Keep THEN TRUE ELSE old.patch.active
  BY <1>3 DEF Patch
<1>6. NewUser(old) = [email |-> old.patch.email, role |-> role, active |-> active,
                      hash |-> old.new, failed |-> 0, lockedUntil |-> 0]
  BY <1>4, <1>5 DEF NewUser
<1> QED  BY <1>1, <1>3, <1>6 DEF User

LEMMA InsertKeeps ==
  ASSUME FlowAssumption, StoreAssumption, IInv, NEW r \in Req, NEW out, Insert(r, out)
  PROVE  IInv'
<1>0. PICK n : n = NewUser(req[r])  OBVIOUS
<1>1. Counters /\ Tables /\ Slots /\ Books  BY DEF IInv, Types
<1>2. /\ req[r].at = "insert" /\ (Answer(r) \/ Finish(r))
      /\ UNCHANGED <<sessions, lastSession, logged, now, held, sent>>
      /\ UNCHANGED <<verified, overlapped, raced, cutShort, gone>>
      /\ InsertUser(n, out)
      /\ chosen' = IF Ran(out) THEN Append(chosen, req[r].new) ELSE chosen
  BY <1>0 DEF Insert, InsertUser, clients
<1>3. /\ n \in User /\ n.hash = req[r].new /\ req[r].new \in Passwords
  BY <1>0, <1>2, NewAccount DEF IInv
<1>4. Later
  <2>1. UNCHANGED faults \/ Fault  BY <1>2 DEF InsertUser, Outcome
  <2> QED  BY <1>1, <2>1 DEF Fault, Later, Counters
<1>5. Written(r)  BY <1>1, <1>2, AnswerWritten, FinishWritten
<1>6. Grows  BY <1>1, <1>2 DEF Counters, Grows, InsertUser
<1>7. Slots' /\ \A step \in {"write", "revokeAll", "trim"} : Same(step)
  BY <1>1, <1>2, <1>5, <1>6, WrittenSame DEF Early, Steps
<1>8. LogBounded'  BY <1>1, <1>2, <1>4, <1>7, LogFrame DEF IInv
<1>9. CASE ~Ran(out)
  <2>1. UNCHANGED <<users, lastUser, chosen>>  BY <1>2, <1>9 DEF InsertUser
  <2>2. Counters' /\ Tables'  BY <1>1, <1>2, <1>4, <2>1 DEF Counters, Tables, Later
  <2>3. Books'  BY <1>1, <1>2, <2>1 DEF Books
  <2>4. Schema'  BY <1>2, <2>1, SchemaFrame DEF IInv
  <2>5. Hashes'  BY <1>2, <1>7, <2>1, HashesFrame DEF IInv
  <2>6. StaleSessionsAreCondemned'  BY <1>2, <1>7, <2>1, StaleFrame DEF IInv
  <2> QED  BY <1>7, <1>8, <2>2, <2>3, <2>4, <2>5, <2>6 DEF IInv, Types
<1>10. CASE Ran(out)
  <2>1. PICK k \in Nat : k = lastUser + 1  BY <1>1 DEF Counters
  <2>2. /\ users' = Put(users, k, n) /\ lastUser' = k /\ Free(n.email, k)
    BY <1>2, <1>10, <2>1 DEF InsertUser, Outcome, Ran
  <2>3. k \notin DOMAIN users /\ k \notin 1..lastUser
        /\ \A u \in DOMAIN users : u \in 1..lastUser
    BY <1>1, <2>1 DEF Tables, Counters
  <2>4. /\ DOMAIN users' = DOMAIN users \cup {k} /\ users'[k] = n
        /\ \A u \in DOMAIN users : users'[u] = users[u]
        /\ users' \in [DOMAIN users' -> User]
    BY <1>1, <1>3, <2>2, <2>3 DEF Put, Tables
  <2>5. chosen \in Seq(Passwords) /\ Len(chosen) = lastUser  BY <1>1 DEF Books
  <2>6. /\ chosen' \in Seq(Passwords) /\ Len(chosen') = k /\ chosen'[k] = n.hash
        /\ \A u \in 1..lastUser : chosen'[u] = chosen[u]
    BY <1>2, <1>3, <1>10, <2>1, <2>5, AppendProperties
  <2>7. Counters'  BY <1>1, <1>2, <1>4, <2>2 DEF Counters, Later
  <2>8. 1..lastUser \subseteq 1..k /\ k \in 1..k  BY <1>1, <2>1 DEF Counters
  <2>9. DOMAIN users' \subseteq 1..lastUser'  BY <2>2, <2>3, <2>4, <2>8
  <2>10. Tables'  BY <1>1, <1>2, <2>4, <2>9 DEF Tables
  <2>11. Books'  BY <1>1, <1>2, <2>2, <2>6, <2>8 DEF Books
  <2>12. Schema'
    <3>1. NoOrphans'  BY <1>2, <2>4 DEF IInv, Schema, NoOrphans
    <3>2. \A u \in DOMAIN users : users[u].email # n.email
      BY <2>2, <2>3 DEF Free, WithEmail
    <3>3. EmailsAreUnique'  BY <2>4, <3>2 DEF IInv, Schema, EmailsAreUnique
    <3>4. DeletionSticks'
      BY <1>1, <1>2, <2>3, <2>4 DEF IInv, Schema, DeletionSticks, Books
    <3> QED  BY <3>1, <3>3, <3>4 DEF Schema
  <2>13. Hashes'  BY <1>2, <1>7, <2>3, <2>4, <2>6, HashesFrame DEF IInv
  <2>14. StaleSessionsAreCondemned'
    <3>1. \A s \in DOMAIN sessions : users'[sessions[s].user] = users[sessions[s].user]
      BY <2>4 DEF IInv, Schema, NoOrphans
    <3> QED  BY <1>2, <1>7, <3>1, StaleFrame DEF IInv
  <2> QED  BY <1>7, <1>8, <2>7, <2>10, <2>11, <2>12, <2>13, <2>14 DEF IInv, Types
<1> QED  BY <1>9, <1>10

LEMMA DeleteKeeps ==
  ASSUME FlowAssumption, StoreAssumption, IInv, NEW r \in Req, NEW out \in Outs, Delete(r, out)
  PROVE  IInv'
<1>0. PICK id : id = req[r].subj  OBVIOUS
<1>1. Counters /\ Tables /\ Slots /\ Books  BY DEF IInv, Types
<1>2. /\ req[r].at = "delete" /\ (Answer(r) \/ Finish(r))
      /\ UNCHANGED <<lastUser, lastSession, logged, now, held, sent>>
      /\ UNCHANGED <<verified, chosen, overlapped, raced, cutShort>>
      /\ DeleteRow(id, out)
      /\ gone' = IF out = "done" THEN gone \cup {id} ELSE gone
  BY <1>0 DEF Delete, DeleteRow, clients
<1>3. id \in 1..lastUser  BY <1>0, <1>1, <1>2 DEF Slots, Carries
<1>4. Later
  <2>1. UNCHANGED faults \/ Fault  BY <1>2 DEF DeleteRow, Outcome
  <2> QED  BY <1>1, <2>1 DEF Fault, Later, Counters
<1>5. Written(r)  BY <1>1, <1>2, AnswerWritten, FinishWritten
<1>6. Grows  BY <1>1, <1>2 DEF Counters, Grows
<1>7. Slots' /\ \A step \in {"write", "revokeAll", "trim"} : Same(step)
  BY <1>1, <1>2, <1>5, <1>6, WrittenSame DEF Early, Steps
\* Accounts and sessions go, none changes, and a session goes with its account.
<1>8. /\ users' \in [DOMAIN users' -> User] /\ DOMAIN users' \subseteq DOMAIN users
      /\ \A u \in DOMAIN users' : users'[u] = users[u]
      /\ sessions' \in [DOMAIN sessions' -> Session]
      /\ DOMAIN sessions' \subseteq DOMAIN sessions
      /\ \A s \in DOMAIN sessions' : /\ sessions'[s] = sessions[s]
                                     /\ sessions[s].user \in DOMAIN users'
      /\ out = "done" => id \notin DOMAIN users'
  <2>1. \A s \in DOMAIN sessions : sessions[s].user \in DOMAIN users
    BY DEF IInv, Schema, NoOrphans
  <2>2. CASE Ran(out)
    <3>1. /\ users' = [u \in DOMAIN users \ {id} |-> users[u]]
          /\ sessions' = [s \in {t \in DOMAIN sessions : sessions[t].user # id} |-> sessions[s]]
      BY <1>2, <2>2 DEF DeleteRow, Only
    <3> QED  BY <1>1, <2>1, <3>1 DEF Tables
  <2>3. CASE ~Ran(out)
    <3>1. UNCHANGED <<users, sessions>> /\ out # "done"  BY <1>2, <2>3 DEF DeleteRow, Ran
    <3> QED  BY <1>1, <2>1, <3>1 DEF Tables
  <2> QED  BY <2>2, <2>3
<1>9. Counters' /\ Tables'  BY <1>1, <1>2, <1>4, <1>8 DEF Counters, Tables, Later
<1>10. Books'  BY <1>1, <1>2, <1>3 DEF Books
<1>11. Schema'
  <2>1. NoOrphans'  BY <1>8 DEF NoOrphans
  <2>2. EmailsAreUnique'  BY <1>8 DEF IInv, Schema, EmailsAreUnique
  <2>3. DeletionSticks'  BY <1>2, <1>8 DEF IInv, Schema, DeletionSticks
  <2> QED  BY <2>1, <2>2, <2>3 DEF Schema
<1>12. Hashes'  BY <1>2, <1>7, <1>8, HashesFrame DEF IInv
<1>13. StaleSessionsAreCondemned'  BY <1>2, <1>7, <1>8, StaleFrame DEF IInv
<1>14. LogBounded'  BY <1>1, <1>2, <1>4, <1>7, LogFrame DEF IInv
<1> QED  BY <1>7, <1>9, <1>10, <1>11, <1>12, <1>13, <1>14 DEF IInv, Types

-----------------------------------------------------------------------------
(* A stop, the first state, and every step.                                *)

LEMMA BootSlot ==
  ASSUME FlowAssumption, StoreAssumption
  PROVE  Boot \in Slot /\ Boot.at = "checkEmail" /\ Carries(Boot)
<1>1. PICK p \in Patch : p = [email |-> DefaultAdmin.email, role |-> DefaultAdmin.role,
                              active |-> DefaultAdmin.active]
  BY DEF FlowAssumption, User, Patch
<1>2. p.email \in Emails /\ p.role # BadRole /\ DefaultAdmin.hash \in Passwords
  BY <1>1 DEF FlowAssumption, StoreAssumption, User
<1>3. Boot = [Idle EXCEPT !.op = "boot", !.at = "checkEmail", !.new = DefaultAdmin.hash,
                          !.patch = p]
  BY <1>1 DEF Boot
<1>4. /\ Boot \in Slot /\ Boot.op = "boot" /\ Boot.at = "checkEmail"
      /\ Boot.new = DefaultAdmin.hash /\ Boot.patch = p
  BY <1>2, <1>3 DEF Idle, Slot, Steps
<1> QED  BY <1>2, <1>4 DEF Carries

LEMMA CrashKeeps ==
  ASSUME FlowAssumption, StoreAssumption, IInv, Crash
  PROVE  IInv'
<1>1. Counters /\ Tables /\ Slots /\ Books  BY DEF IInv, Types
<1>2. /\ faults' = faults + 1
      /\ cutShort' = cutShort \cup {u \in 1..lastUser : PendingRevoke(u)}
      /\ UNCHANGED <<users, lastUser, sessions, lastSession, logged, now, held, sent>>
      /\ UNCHANGED <<verified, chosen, overlapped, raced, gone>>
  BY DEF Crash, Fault, tables, clients
<1>3. Later  BY <1>1, <1>2 DEF Later, Counters
<1>4. /\ req' \in [Req -> Slot]
      /\ \A r \in Req : Carries(req'[r]) /\ req'[r].at \in {"idle", "checkEmail"}
  <2>1. /\ Idle \in Slot /\ Idle.at = "idle" /\ Carries(Idle)
        /\ Boot \in Slot /\ Boot.at = "checkEmail" /\ Carries(Boot)
    BY IdleSlot, BootSlot
  <2>2. CASE req' = [r \in Req |-> Idle]  BY <2>1, <2>2
  <2>3. CASE \E b \in Req : req' = [r \in Req |-> IF r = b THEN Boot ELSE Idle]
    <3>1. PICK b \in Req : req' = [r \in Req |-> IF r = b THEN Boot ELSE Idle]  BY <2>3
    <3> QED  BY <2>1, <3>1
  <2> QED  BY <2>2, <2>3 DEF Crash
<1>5. Slots'
  <2>1. ASSUME NEW r \in Req  PROVE Carries(req[r])'
    <3>1. Carries(req'[r])  BY <1>4
    <3> QED  BY <1>2, <3>1 DEF Carries
  <2> QED  BY <1>4, <2>1 DEF Slots
<1>6. Counters' /\ Tables'  BY <1>1, <1>2 DEF Counters, Tables
<1>7. Books'  BY <1>1, <1>2 DEF Books
<1>8. Schema'  BY <1>2, SchemaFrame DEF IInv
<1>9. Hashes'
  <2>1. \A r \in Req : req'[r].at # "write"  BY <1>4
  <2>2. PasswordSticks'  BY <1>2 DEF IInv, Hashes, PasswordSticks
  <2> QED  BY <2>1, <2>2 DEF Hashes, NewHash, OneWriter, OldHash, Writes
<1>10. StaleSessionsAreCondemned'
  <2>1. ASSUME NEW s \in DOMAIN sessions, NEW u, u = sessions[s].user
        PROVE  \/ sessions[s].revoked \/ users[u].hash = verified[s] \/ s \in raced
               \/ u \in cutShort' \/ u \in overlapped
    <3>1. \/ sessions[s].revoked \/ users[u].hash = verified[s] \/ s \in raced
          \/ PendingRevoke(u) \/ u \in cutShort \/ u \in overlapped
      BY <2>1 DEF IInv, StaleSessionsAreCondemned, Backed
    <3>2. u \in 1..lastUser  BY <1>1, <2>1 DEF Tables, IInv, Schema, NoOrphans
    <3> QED  BY <1>2, <3>1, <3>2
  <2> QED  BY <1>2, <2>1 DEF StaleSessionsAreCondemned, Backed
<1>11. LogBounded'
  <2>1. InFlight("trim")' = {}  BY <1>4 DEF InFlight
  <2>2. PICK c \in Nat, k \in Nat : c = Cardinality(InFlight("trim")) /\ k = Cardinality(Req)
                                    /\ c <= k
    BY InFlightFinite
  <2>3. PICK m \in Nat : m = faults * k /\ (faults + 1) * k = m + k
    BY <1>1, <2>2, Product DEF Counters
  <2>4. LogCap \in Nat /\ logged \in Nat /\ logged <= LogCap + c + m
    BY <1>1, <2>2, <2>3 DEF StoreAssumption, Counters, IInv, LogBounded
  <2>5. logged <= LogCap + 0 + (m + k)  BY <2>2, <2>4
  <2>6. Cardinality(InFlight("trim"))' = 0  BY <2>1, FS_EmptySet
  <2>7. faults' * Cardinality(Req) = m + k  BY <1>2, <2>2, <2>3
  <2> QED  BY <1>2, <2>5, <2>6, <2>7 DEF LogBounded
<1> QED  BY <1>5, <1>6, <1>7, <1>8, <1>9, <1>10, <1>11 DEF IInv, Types

LEMMA InitEstablishes ==
  ASSUME FlowAssumption, StoreAssumption, Init
  PROVE  IInv
<1>1. Roster \in Seq(User) /\ lastUser = Len(Roster) /\ users = Roster
  BY DEF StoreAssumption, Init, StoreInit
<1>2. /\ DOMAIN users = 1..lastUser /\ lastUser \in Nat
      /\ \A u \in 1..lastUser : users[u] \in User
  BY <1>1
<1>3. users \in [DOMAIN users -> User]  BY <1>1, <1>2
<1>4. /\ DOMAIN chosen = 1..lastUser
      /\ \A u \in 1..lastUser : chosen[u] = users[u].hash /\ chosen[u] \in Passwords
  BY <1>1, <1>2 DEF Init, User
<1>5. chosen \in Seq(Passwords) /\ Len(chosen) = lastUser
  <2>1. chosen \in [1..lastUser -> Passwords]  BY <1>1, <1>2, <1>4 DEF Init
  <2> QED  BY <1>2, <2>1, SeqDef
<1>6. \A r \in Req : req[r] = Idle  BY DEF Init
<1>7. Idle \in Slot /\ Idle.at = "idle" /\ Carries(Idle)  BY IdleSlot
<1>8. /\ sessions = [s \in {} |-> s] /\ lastSession = 0 /\ logged = 0 /\ faults = 0 /\ now = 1
      /\ held = {} /\ sent = 0 /\ verified = <<>>
      /\ overlapped = {} /\ raced = {} /\ cutShort = {} /\ gone = {}
      /\ req = [r \in Req |-> Idle]
  BY DEF Init, StoreInit
<1>9. DOMAIN sessions = {} /\ sessions \in [DOMAIN sessions -> Session]  BY <1>8
<1>10. Types
  <2>1. Counters /\ Tables  BY <1>2, <1>3, <1>8, <1>9 DEF Counters, Tables
  <2>2. Slots  BY <1>7, <1>8 DEF Slots
  <2>3. Books  BY <1>5, <1>8 DEF Books
  <2> QED  BY <2>1, <2>2, <2>3 DEF Types
<1>11. Schema
  BY <1>1, <1>2, <1>8, <1>9
     DEF Schema, NoOrphans, EmailsAreUnique, DeletionSticks, StoreAssumption
<1>12. Hashes
  BY <1>2, <1>4, <1>6, <1>7
     DEF Hashes, PasswordSticks, NewHash, OneWriter, OldHash, Writes
<1>13. StaleSessionsAreCondemned  BY <1>9 DEF StaleSessionsAreCondemned
<1>14. LogBounded
  <2>1. Cardinality(InFlight("trim")) \in Nat /\ Cardinality(Req) \in Nat  BY InFlightFinite
  <2> QED  BY <1>8, <2>1 DEF LogBounded, StoreAssumption
<1> QED  BY <1>10, <1>11, <1>12, <1>13, <1>14 DEF IInv

LEMMA StepKeeps ==
  ASSUME FlowAssumption, StoreAssumption, IInv, NEW r \in Req, Step(r)
  PROVE  IInv'
<1>1. CASE LoadUser(r) \/ LogoutFind(r) \/ ChangeReload(r) \/ CheckEmail(r) \/ CheckUser(r)
  BY <1>1, QueryKeeps
<1>2. CASE ReadRow(r)  BY <1>2, ReadRowKeeps
<1>3. ASSUME NEW out \in Outs,
             \/ WriteRow(r, out) \/ IssueToken(r, out) \/ LogoutRevoke(r, out)
             \/ RevokeAll(r, out) \/ Insert(r, out) \/ Condemn(r, out) \/ Delete(r, out)
             \/ LogEntry(r, out) \/ Trim(r, out)
      PROVE  IInv'
  BY <1>3, WriteRowKeeps, IssueTokenKeeps, LogoutRevokeKeeps, RevokeAllKeeps, InsertKeeps,
     CondemnKeeps, DeleteKeeps, LogEntryKeeps, TrimKeeps
<1> QED  BY <1>1, <1>2, <1>3 DEF Step

LEMMA NextKeeps ==
  ASSUME FlowAssumption, StoreAssumption, IInv, [Next]_vars
  PROVE  IInv'
BY StartKeeps, StepKeeps, AroundKeeps, CrashKeeps DEF Next

-----------------------------------------------------------------------------
\* Whatever the requests, the errors and the restarts, every statement of the
\* PostgreSQL store leaves the tables and the requests in order.
THEOREM PgAuthInvariant == Spec => []IInv
<1>1. Init => IInv  BY InitEstablishes, FlowAssumption, StoreAssumption
<1>2. IInv /\ [Next]_vars => IInv'  BY NextKeeps, FlowAssumption, StoreAssumption
<1> QED  BY <1>1, <1>2, PTL DEF Spec

\* Types: a statement never stores a half-made row, and UpdateUser never
\* writes back a row it did not read.
THEOREM PgAuthTypes == Spec => []TypeOK
BY PgAuthInvariant, InvariantImplies, PTL

\* UpdateUser writes back every column of the row it read: an account whose
\* updates did not overlap has the password last chosen for it.
THEOREM PgPasswordSticks == Spec => []PasswordSticks
BY PgAuthInvariant, InvariantImplies, PTL

\* After a change, reset or deletion, a session opened with an older password
\* is revoked or about to be, but for the ways of losing that named here.
THEOREM PgStaleSessionsAreCondemned == Spec => []StaleSessionsAreCondemned
BY PgAuthInvariant, InvariantImplies, PTL

\* However a login interleaves with the three statements of DeleteUser, no
\* session outlives its account.
THEOREM PgNoOrphans == Spec => []NoOrphans
BY PgAuthInvariant, InvariantImplies, PTL

\* However creations and edits interleave, an email names one account.
THEOREM PgEmailsAreUnique == Spec => []EmailsAreUnique
BY PgAuthInvariant, InvariantImplies, PTL

\* No update in flight brings an account back whose deletion was answered.
THEOREM PgDeletionSticks == Spec => []DeletionSticks
BY PgAuthInvariant, InvariantImplies, PTL

\* The activity log exceeds its cap only by what is being trimmed, and by what
\* errors and restarts left untrimmed.
THEOREM PgLogBounded == Spec => []LogBounded
BY PgAuthInvariant, InvariantImplies, PTL
=============================================================================
