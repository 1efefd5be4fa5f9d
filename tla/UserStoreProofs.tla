--------------------------- MODULE UserStoreProofs ---------------------------
(***************************************************************************)
(* What every method of the JSON user store preserves, for all values of   *)
(* the constants: its tables keep their types, a session belongs to an id  *)
(* that was given, memory and file agree on who owns a session, and as     *)
(* long as no save failed the file's sessions are those in memory.         *)
(***************************************************************************)
EXTENDS UserStore, TLAPS, SequenceTheorems

Counters == /\ lastUser \in Nat /\ lastSession \in Nat
            /\ now \in Nat /\ failures \in Nat

Tables == /\ IsUsers(users) /\ IsSessions(sessions)
          /\ disk = [users |-> disk.users, sessions |-> disk.sessions,
                     activity |-> disk.activity]
          /\ IsUsers(disk.users) /\ IsSessions(disk.sessions)

Owned(f) == \A s \in DOMAIN f : f[s].user \in 1..lastUser

Owners == /\ Owned(sessions) /\ Owned(disk.sessions)
          /\ \A s \in DOMAIN sessions \cap DOMAIN disk.sessions :
               sessions[s].user = disk.sessions[s].user

StoreInv == Counters /\ Tables /\ Owners

-----------------------------------------------------------------------------
(* Functions.                                                              *)

LEMMA PutType ==
  ASSUME NEW f, NEW S, f \in [DOMAIN f -> S], NEW k, NEW v \in S
  PROVE  /\ Put(f, k, v) \in [DOMAIN Put(f, k, v) -> S]
         /\ DOMAIN Put(f, k, v) = DOMAIN f \cup {k}
         /\ Put(f, k, v)[k] = v
         /\ \A i \in DOMAIN f : i # k => Put(f, k, v)[i] = f[i]
BY DEF Put

LEMMA OnlyType ==
  ASSUME NEW f, NEW S, f \in [DOMAIN f -> S], NEW K, K \subseteq DOMAIN f
  PROVE  /\ Only(f, K) \in [DOMAIN Only(f, K) -> S]
         /\ DOMAIN Only(f, K) = K
         /\ \A i \in K : Only(f, K)[i] = f[i]
BY DEF Only

LEMMA RevokedForType ==
  ASSUME IsSessions(sessions), NEW id
  PROVE  /\ RevokedFor(id) \in [DOMAIN RevokedFor(id) -> Session]
         /\ DOMAIN RevokedFor(id) = DOMAIN sessions
         /\ \A s \in DOMAIN sessions :
              /\ RevokedFor(id)[s].user = sessions[s].user
              /\ RevokedFor(id)[s].revoked <=> (sessions[s].revoked \/ sessions[s].user = id)
<1>1. \A s \in DOMAIN sessions : sessions[s] \in Session  BY DEF IsSessions
<1>2. ASSUME NEW t \in Session, NEW b \in BOOLEAN
      PROVE  /\ [t EXCEPT !.revoked = b] \in Session
             /\ [t EXCEPT !.revoked = b].user = t.user
             /\ [t EXCEPT !.revoked = b].revoked = b
  BY DEF Session
<1>3. DOMAIN RevokedFor(id) = DOMAIN sessions  BY DEF RevokedFor
<1>4. ASSUME NEW s \in DOMAIN sessions
      PROVE  /\ RevokedFor(id)[s] \in Session
             /\ RevokedFor(id)[s].user = sessions[s].user
             /\ RevokedFor(id)[s].revoked <=> (sessions[s].revoked \/ sessions[s].user = id)
  <2> DEFINE b == sessions[s].revoked \/ sessions[s].user = id
  <2>1. RevokedFor(id)[s] = [sessions[s] EXCEPT !.revoked = b]  BY DEF RevokedFor
  <2>2. b \in BOOLEAN  OBVIOUS
  <2>3. sessions[s] \in Session  BY <1>1
  <2> HIDE DEF b
  <2>4. /\ [sessions[s] EXCEPT !.revoked = b] \in Session
        /\ [sessions[s] EXCEPT !.revoked = b].user = sessions[s].user
        /\ [sessions[s] EXCEPT !.revoked = b].revoked = b
    BY <1>2, <2>2, <2>3
  <2>5. /\ RevokedFor(id)[s] \in Session
        /\ RevokedFor(id)[s].user = sessions[s].user
        /\ RevokedFor(id)[s].revoked = b
    BY <2>1, <2>4
  <2> QED  BY <2>5 DEF b
<1>5. RevokedFor(id) \in [DOMAIN sessions -> Session]
  BY <1>3, <1>4 DEF RevokedFor
<1> QED  BY <1>3, <1>4, <1>5

-----------------------------------------------------------------------------
(* What save() makes of a change to memory.                                *)

LEMMA Saving ==
  ASSUME StoreInv, NEW ok \in BOOLEAN, Save(ok),
         lastUser' \in Nat, lastUser <= lastUser',
         lastSession' \in Nat, lastSession <= lastSession', now' \in Nat,
         IsUsers(users)', IsSessions(sessions)', Owned(sessions)',
         \A s \in DOMAIN sessions' \cap DOMAIN disk.sessions :
           sessions'[s].user = disk.sessions[s].user
  PROVE  StoreInv'
<1> USE DEF StoreInv
<1>1. Counters'
  <2>1. failures' \in Nat  BY DEF Save, Counters
  <2> QED  BY <2>1 DEF Counters
<1>2. Tables'
  <2>1. CASE ok  BY <2>1 DEF Save, Tables, IsUsers, IsSessions
  <2>2. CASE ~ok
    <3>1. disk' = disk  BY <2>2 DEF Save
    <3>2. 1..lastUser \subseteq 1..lastUser' /\ 1..lastSession \subseteq 1..lastSession'
      BY DEF Counters
    <3>3. IsUsers(disk.users)' /\ IsSessions(disk.sessions)'
      BY <3>1, <3>2 DEF Tables, IsUsers, IsSessions
    <3> QED  BY <3>1, <3>3 DEF Tables
  <2> QED  BY <2>1, <2>2
<1>3. Owners'
  <2>1. CASE ok  BY <2>1 DEF Save, Owners, Owned
  <2>2. CASE ~ok
    <3>1. disk' = disk  BY <2>2 DEF Save
    <3>2. 1..lastUser \subseteq 1..lastUser'  BY DEF Counters
    <3>3. Owned(disk.sessions)'  BY <3>1, <3>2 DEF Owners, Owned
    <3> QED  BY <3>1, <3>3 DEF Owners
  <2> QED  BY <2>1, <2>2
<1> QED  BY <1>1, <1>2, <1>3

-----------------------------------------------------------------------------
(* The methods.                                                            *)

LEMMA CreateUserInv ==
  ASSUME StoreInv, NEW u \in User, NEW ok \in BOOLEAN, CreateUser(u, ok)
  PROVE  StoreInv'
<1>1. lastUser' = lastUser + 1 /\ users' = Put(users, lastUser + 1, u)
      /\ sessions' = sessions /\ lastSession' = lastSession /\ now' = now /\ Save(ok)
  BY DEF CreateUser
<1>2. lastUser \in Nat /\ lastSession \in Nat /\ now \in Nat  BY DEF StoreInv, Counters
<1>3. 1..lastUser' = 1..lastUser \cup {lastUser + 1}  BY <1>1, <1>2
<1>4. IsUsers(users)'
  <2>1. users \in [DOMAIN users -> User] /\ DOMAIN users \subseteq 1..lastUser
    BY DEF StoreInv, Tables, IsUsers
  <2>2. /\ users' \in [DOMAIN users' -> User]
        /\ DOMAIN users' = DOMAIN users \cup {lastUser + 1}
    BY <1>1, <2>1, PutType
  <2> QED  BY <1>3, <2>1, <2>2 DEF IsUsers
<1>5. IsSessions(sessions)' /\ Owned(sessions)'
  BY <1>1, <1>3 DEF StoreInv, Tables, Owners, IsSessions, Owned
<1>6. \A s \in DOMAIN sessions' \cap DOMAIN disk.sessions :
        sessions'[s].user = disk.sessions[s].user
  BY <1>1 DEF StoreInv, Owners
<1> QED  BY <1>1, <1>2, <1>4, <1>5, <1>6, Saving

LEMMA UpdateUserInv ==
  ASSUME StoreInv, NEW id, NEW u, NEW ok \in BOOLEAN, UpdateUser(id, u, ok), u \in User
  PROVE  StoreInv'
<1>1. id \in DOMAIN users /\ users' = [users EXCEPT ![id] = u]
      /\ lastUser' = lastUser /\ sessions' = sessions /\ lastSession' = lastSession
      /\ now' = now /\ Save(ok)
  BY DEF UpdateUser
<1>2. lastUser \in Nat /\ lastSession \in Nat /\ now \in Nat  BY DEF StoreInv, Counters
<1>3. IsUsers(users)'  BY <1>1 DEF StoreInv, Tables, IsUsers
<1>4. IsSessions(sessions)' /\ Owned(sessions)'
  BY <1>1 DEF StoreInv, Tables, Owners, IsSessions, Owned
<1>5. \A s \in DOMAIN sessions' \cap DOMAIN disk.sessions :
        sessions'[s].user = disk.sessions[s].user
  BY <1>1 DEF StoreInv, Owners
<1>6. lastUser <= lastUser' /\ lastSession <= lastSession'  BY <1>1, <1>2
<1>7. lastUser' \in Nat /\ lastSession' \in Nat /\ now' \in Nat  BY <1>1, <1>2
<1>8. Save(ok)  BY <1>1
<1> QED  BY <1>3, <1>4, <1>5, <1>6, <1>7, <1>8, Saving

LEMMA UpdateUserRefusedInv ==
  ASSUME StoreInv, NEW id, NEW u, UpdateUserRefused(id, u), u \in User
  PROVE  StoreInv'
<1>1. id \in DOMAIN users /\ users' = [users EXCEPT ![id] = u]
      /\ lastUser' = lastUser /\ sessions' = sessions /\ lastSession' = lastSession
      /\ now' = now /\ disk' = disk /\ failures' = failures
  BY DEF UpdateUserRefused
<1>2. Counters' /\ Owners'
  BY <1>1 DEF StoreInv, Counters, Owners, Owned
<1>3. Tables'  BY <1>1 DEF StoreInv, Tables, IsUsers, IsSessions
<1> QED  BY <1>2, <1>3 DEF StoreInv

LEMMA DeleteUserInv ==
  ASSUME StoreInv, NEW id, NEW ok \in BOOLEAN, DeleteUser(id, ok)
  PROVE  StoreInv'
<1>1. users' = Only(users, DOMAIN users \ {id}) /\ sessions' = RevokedFor(id)
      /\ lastUser' = lastUser /\ lastSession' = lastSession /\ now' = now /\ Save(ok)
  BY DEF DeleteUser
<1>2. lastUser \in Nat /\ lastSession \in Nat /\ now \in Nat  BY DEF StoreInv, Counters
<1>3. IsUsers(users)'
  <2>1. users \in [DOMAIN users -> User] /\ DOMAIN users \subseteq 1..lastUser
    BY DEF StoreInv, Tables, IsUsers
  <2>2. users' \in [DOMAIN users' -> User] /\ DOMAIN users' = DOMAIN users \ {id}
    BY <1>1, <2>1, OnlyType
  <2> QED  BY <1>1, <2>1, <2>2 DEF IsUsers
<1>4. /\ sessions' \in [DOMAIN sessions' -> Session]
      /\ DOMAIN sessions' = DOMAIN sessions
      /\ \A s \in DOMAIN sessions : sessions'[s].user = sessions[s].user
  BY <1>1, RevokedForType DEF StoreInv, Tables
<1>5. IsSessions(sessions)' /\ Owned(sessions)'
  BY <1>1, <1>4 DEF StoreInv, Tables, Owners, IsSessions, Owned
<1>6. \A s \in DOMAIN sessions' \cap DOMAIN disk.sessions :
        sessions'[s].user = disk.sessions[s].user
  BY <1>4 DEF StoreInv, Owners
<1> QED  BY <1>1, <1>2, <1>3, <1>5, <1>6, Saving

LEMMA CreateSessionInv ==
  ASSUME StoreInv, NEW t \in Session, t.user \in 1..lastUser,
         NEW ok \in BOOLEAN, CreateSession(t, ok)
  PROVE  StoreInv'
<1>1. lastSession' = lastSession + 1 /\ sessions' = Put(sessions, lastSession + 1, t)
      /\ users' = users /\ lastUser' = lastUser /\ now' = now /\ Save(ok)
  BY DEF CreateSession
<1>2. lastUser \in Nat /\ lastSession \in Nat /\ now \in Nat  BY DEF StoreInv, Counters
<1>3. IsUsers(users)'  BY <1>1 DEF StoreInv, Tables, IsUsers
<1>4. 1..lastSession' = 1..lastSession \cup {lastSession + 1} /\ lastSession + 1 \notin 1..lastSession
  BY <1>1, <1>2
<1>5. sessions \in [DOMAIN sessions -> Session] /\ DOMAIN sessions \subseteq 1..lastSession
  BY DEF StoreInv, Tables, IsSessions
<1>6. /\ sessions' \in [DOMAIN sessions' -> Session]
      /\ DOMAIN sessions' = DOMAIN sessions \cup {lastSession + 1}
      /\ sessions'[lastSession + 1] = t
      /\ \A s \in DOMAIN sessions : s # lastSession + 1 => sessions'[s] = sessions[s]
  <2> DEFINE k == lastSession + 1
  <2> HIDE DEF k
  <2>1. /\ Put(sessions, k, t) \in [DOMAIN Put(sessions, k, t) -> Session]
        /\ DOMAIN Put(sessions, k, t) = DOMAIN sessions \cup {k}
        /\ Put(sessions, k, t)[k] = t
        /\ \A s \in DOMAIN sessions : s # k => Put(sessions, k, t)[s] = sessions[s]
    BY <1>5 DEF Put
  <2> QED  BY <1>1, <2>1 DEF k
<1>7. IsSessions(sessions)'  BY <1>4, <1>5, <1>6 DEF IsSessions
<1>8. Owned(sessions)'  BY <1>1, <1>4, <1>5, <1>6 DEF StoreInv, Owners, Owned
<1>9. \A s \in DOMAIN sessions' \cap DOMAIN disk.sessions :
        sessions'[s].user = disk.sessions[s].user
  <2>1. DOMAIN disk.sessions \subseteq 1..lastSession  BY DEF StoreInv, Tables, IsSessions
  <2> QED  BY <1>4, <1>6, <2>1 DEF StoreInv, Owners
<1>10. lastUser' \in Nat /\ lastUser <= lastUser' /\ lastSession' \in Nat
       /\ lastSession <= lastSession' /\ now' \in Nat
  BY <1>1, <1>2
<1>11. Save(ok)  BY <1>1
<1> QED  BY <1>3, <1>7, <1>8, <1>9, <1>10, <1>11, Saving

\* Any method that leaves accounts alone and keeps who owns a session.
LEMMA SessionsInv ==
  ASSUME StoreInv, NEW ok \in BOOLEAN, Save(ok),
         UNCHANGED <<users, lastUser, lastSession, now>>,
         sessions' \in [DOMAIN sessions' -> Session], DOMAIN sessions' \subseteq DOMAIN sessions,
         \A s \in DOMAIN sessions' : sessions'[s].user = sessions[s].user
  PROVE  StoreInv'
<1>1. lastUser \in Nat /\ lastSession \in Nat /\ now \in Nat  BY DEF StoreInv, Counters
<1>2. IsUsers(users)'  BY DEF StoreInv, Tables, IsUsers
<1>3. IsSessions(sessions)'  BY DEF StoreInv, Tables, IsSessions
<1>4. Owned(sessions)'  BY DEF StoreInv, Owners, Owned
<1>5. \A s \in DOMAIN sessions' \cap DOMAIN disk.sessions :
        sessions'[s].user = disk.sessions[s].user
  BY DEF StoreInv, Owners
<1>6. lastUser' \in Nat /\ lastUser <= lastUser' /\ lastSession' \in Nat
      /\ lastSession <= lastSession' /\ now' \in Nat
  BY <1>1
<1> QED  BY <1>2, <1>3, <1>4, <1>5, <1>6, Saving

LEMMA RevokeUserSessionsInv ==
  ASSUME StoreInv, NEW id, NEW ok \in BOOLEAN, RevokeUserSessions(id, ok)
  PROVE  StoreInv'
<1>1. sessions' = RevokedFor(id) /\ Save(ok) /\ UNCHANGED <<users, lastUser, lastSession, now>>
  BY DEF RevokeUserSessions
<1>2. /\ sessions' \in [DOMAIN sessions' -> Session] /\ DOMAIN sessions' = DOMAIN sessions
      /\ \A s \in DOMAIN sessions' : sessions'[s].user = sessions[s].user
  BY <1>1, RevokedForType DEF StoreInv, Tables
<1> QED  BY <1>1, <1>2, SessionsInv

LEMMA RevokeSessionInv ==
  ASSUME StoreInv, NEW i, NEW ok \in BOOLEAN, RevokeSession(i, ok)
  PROVE  /\ StoreInv'
         /\ DOMAIN sessions' = DOMAIN sessions
         /\ sessions'[i].revoked
         /\ \A s \in DOMAIN sessions : /\ sessions'[s].user = sessions[s].user
                                       /\ sessions[s].revoked => sessions'[s].revoked
<1>1. i \in DOMAIN sessions /\ sessions' = [sessions EXCEPT ![i].revoked = TRUE]
      /\ Save(ok) /\ UNCHANGED <<users, lastUser, lastSession, now>>
  BY DEF RevokeSession
<1>2. sessions \in [DOMAIN sessions -> Session]  BY DEF StoreInv, Tables, IsSessions
<1> DEFINE t == [sessions[i] EXCEPT !.revoked = TRUE]
<1>3. t \in Session /\ t.user = sessions[i].user /\ t.revoked
  BY <1>1, <1>2 DEF Session
<1>4. sessions' = [sessions EXCEPT ![i] = t]  BY <1>1
<1> HIDE DEF t
<1>5. /\ sessions' \in [DOMAIN sessions' -> Session]
      /\ DOMAIN sessions' = DOMAIN sessions
      /\ sessions'[i].revoked
      /\ \A s \in DOMAIN sessions : /\ sessions'[s].user = sessions[s].user
                                    /\ sessions[s].revoked => sessions'[s].revoked
  BY <1>1, <1>2, <1>3, <1>4
<1>6. Save(ok) /\ UNCHANGED <<users, lastUser, lastSession, now>>  BY <1>1
<1>7. StoreInv'  BY <1>5, <1>6, SessionsInv
<1> QED  BY <1>5, <1>7

LEMMA PurgeInv ==
  ASSUME StoreInv, NEW ok \in BOOLEAN, PurgeExpiredSessions(ok)
  PROVE  /\ StoreInv'
         /\ DOMAIN sessions' \subseteq DOMAIN sessions
         /\ \A s \in DOMAIN sessions' : sessions'[s] = sessions[s]
<1> DEFINE K == {s \in DOMAIN sessions : sessions[s].expires > now - PurgeAge}
<1>1. sessions' = Only(sessions, K) /\ Save(ok) /\ UNCHANGED <<users, lastUser, lastSession, now>>
  BY DEF PurgeExpiredSessions
<1>2. K \subseteq DOMAIN sessions  OBVIOUS
<1> HIDE DEF K
<1>3. sessions \in [DOMAIN sessions -> Session]  BY DEF StoreInv, Tables, IsSessions
<1>4. /\ sessions' \in [DOMAIN sessions' -> Session] /\ DOMAIN sessions' = K
      /\ \A s \in K : sessions'[s] = sessions[s]
  BY <1>1, <1>2, <1>3, OnlyType
<1>5. StoreInv'  BY <1>1, <1>2, <1>4, SessionsInv
<1> QED  BY <1>2, <1>4, <1>5

LEMMA LogActivityInv ==
  ASSUME StoreInv, NEW e, NEW ok \in BOOLEAN, LogActivity(e, ok)
  PROVE  StoreInv'
<1>1. Save(ok) /\ UNCHANGED <<users, lastUser, sessions, lastSession, now>>  BY DEF LogActivity
<1>2. sessions \in [DOMAIN sessions -> Session]  BY DEF StoreInv, Tables, IsSessions
<1> QED  BY <1>1, <1>2, SessionsInv

LEMMA TickInv ==
  ASSUME StoreInv, Tick
  PROVE  StoreInv'
<1>1. now' = now + 1 /\ UNCHANGED <<users, lastUser, sessions, lastSession, disk, failures>>
  BY DEF Tick, memory
<1>2. Counters'  BY <1>1 DEF StoreInv, Counters
<1>3. Tables' /\ Owners'
  BY <1>1 DEF StoreInv, Tables, Owners, Owned, IsUsers, IsSessions
<1> QED  BY <1>2, <1>3 DEF StoreInv

LEMMA UnchangedInv ==
  ASSUME StoreInv, UNCHANGED storeVars
  PROVE  StoreInv'
<1>1. UNCHANGED <<users, lastUser, sessions, lastSession, now, disk, failures>>
  BY DEF storeVars, memory
<1> QED
  BY <1>1 DEF StoreInv, Counters, Tables, Owners, Owned, IsUsers, IsSessions

LEMMA RestartInv ==
  ASSUME StoreInv, StoreAssumption, NEW ok \in BOOLEAN, Restart(ok)
  PROVE  StoreInv'
<1>1. sessions' = disk.sessions /\ lastSession' = lastSession /\ now' = now
  BY DEF Restart
<1>2. lastUser \in Nat /\ lastSession \in Nat /\ now \in Nat  BY DEF StoreInv, Counters
<1>3. CASE /\ users' = disk.users /\ UNCHANGED <<lastUser, disk, failures>>
  <2>1. Counters'  BY <1>1, <1>3 DEF StoreInv, Counters
  <2>2. Tables'  BY <1>1, <1>3 DEF StoreInv, Tables, IsUsers, IsSessions
  <2>3. Owners'  BY <1>1, <1>3 DEF StoreInv, Owners, Owned
  <2> QED  BY <2>1, <2>2, <2>3 DEF StoreInv
<1>4. CASE /\ lastUser' = lastUser + 1 /\ Save(ok)
           /\ users' = [i \in {lastUser + 1} |-> DefaultAdmin]
  <2>1. IsUsers(users)'
    <3>1. DefaultAdmin \in User  BY DEF StoreAssumption
    <3>2. lastUser + 1 \in 1..(lastUser + 1)  BY <1>2
    <3> QED  BY <1>4, <3>1, <3>2 DEF IsUsers
  <2>2. 1..lastUser \subseteq 1..lastUser'  BY <1>2, <1>4
  <2>3. IsSessions(sessions)'  BY <1>1 DEF StoreInv, Tables, IsSessions
  <2>4. Owned(sessions)'  BY <1>1, <2>2 DEF StoreInv, Owners, Owned
  <2>5. \A s \in DOMAIN sessions' \cap DOMAIN disk.sessions :
          sessions'[s].user = disk.sessions[s].user
    BY <1>1
  <2>6. lastUser' \in Nat /\ lastUser <= lastUser' /\ lastSession' \in Nat
        /\ lastSession <= lastSession' /\ now' \in Nat
    BY <1>1, <1>2, <1>4
  <2>7. Save(ok)  BY <1>4
  <2> QED  BY <2>1, <2>3, <2>4, <2>5, <2>6, <2>7, Saving
<1> QED  BY <1>3, <1>4 DEF Restart

LEMMA StoreInitInv ==
  ASSUME StoreAssumption, StoreInit
  PROVE  StoreInv /\ activity = <<>> /\ disk.activity = <<>>
         /\ users = Roster /\ lastUser = Len(Roster) /\ sessions = [s \in {} |-> s]
<1>1. /\ users = Roster /\ lastUser = Len(Roster)
      /\ sessions = [s \in {} |-> s] /\ lastSession = 0 /\ activity = <<>>
      /\ disk = [users |-> users, sessions |-> sessions, activity |-> activity]
      /\ failures = 0 /\ now = 1
  BY DEF StoreInit
<1>2. /\ Len(Roster) \in Nat /\ DOMAIN Roster = 1..Len(Roster)
      /\ Roster \in [DOMAIN Roster -> User]
  BY LenProperties DEF StoreAssumption
<1>3. Counters  BY <1>1, <1>2 DEF Counters
<1>4. Tables  BY <1>1, <1>2 DEF Tables, IsUsers, IsSessions
<1>5. Owners  BY <1>1 DEF Owners, Owned
<1> QED  BY <1>1, <1>3, <1>4, <1>5 DEF StoreInv

\* The activity log keeps its type, whatever it holds.
LEMMA LogType ==
  ASSUME StoreAssumption, NEW E, activity \in Seq(E), disk.activity \in Seq(E),
         NEW e \in E, NEW ok \in BOOLEAN, LogActivity(e, ok)
  PROVE  activity' \in Seq(E) /\ disk.activity' \in Seq(E)
<1> DEFINE log == Append(activity, e)
<1>1. log \in Seq(E)  BY AppendProperties
<1>2. activity' = IF Len(log) > LogCap THEN SubSeq(log, Len(log) - LogCap + 1, Len(log)) ELSE log
  BY DEF LogActivity
<1>3. Save(ok)  BY DEF LogActivity
<1> HIDE DEF log
<1>4. activity' \in Seq(E)
  <2>1. CASE Len(log) > LogCap
    <3> DEFINE m == Len(log) - LogCap + 1
    <3>1. Len(log) \in Nat /\ LogCap \in Nat  BY <1>1, LenProperties DEF StoreAssumption
    <3>2. m \in Int /\ m >= 1  BY <2>1, <3>1
    <3> HIDE DEF m
    <3>3. \A i \in m..Len(log) : log[i] \in E
      <4>1. \A i \in m..Len(log) : i \in 1..Len(log)  BY <3>1, <3>2
      <4> QED  BY <1>1, <4>1, ElementOfSeq
    <3>4. SubSeq(log, m, Len(log)) \in Seq(E)  BY <3>1, <3>2, <3>3, SubSeqProperties
    <3> QED  BY <1>2, <2>1, <3>4 DEF m
  <2>2. CASE ~(Len(log) > LogCap)  BY <1>1, <1>2, <2>2
  <2> QED  BY <2>1, <2>2
<1>5. disk.activity' \in Seq(E)
  <2>1. CASE ok  BY <1>3, <1>4, <2>1 DEF Save
  <2>2. CASE ~ok  BY <1>3, <2>2 DEF Save
  <2> QED  BY <2>1, <2>2
<1> QED  BY <1>4, <1>5
=============================================================================
