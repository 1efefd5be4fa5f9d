--------------------------- MODULE LoginRateLimiter ---------------------------
(***************************************************************************)
(* NewLoginRateLimiter (internal/api/auth_middleware.go): at most Max      *)
(* POSTs per Window from one address, counted in a bucket per address.     *)
(*                                                                         *)
(* The middleware reads the clock before it takes the mutex, so under load *)
(* a request is counted at a later time than the one it judges by; Arrive  *)
(* is that reading and Admit is the locked section.  MaxLag bounds the     *)
(* time between the two (0 if the mutex is always free).  The clock starts *)
(* late enough for 0 to mean "before the server started".                  *)
(***************************************************************************)
EXTENDS Integers, Sequences

CONSTANTS
  IP,
  Max,            \* 10
  Window,         \* one minute
  Threads,        \* requests in flight
  Free,           \* a slot with no request
  MaxLag,
  MaxTime         \* bound: the clock

ASSUME LimiterAssumption ==
  /\ Max \in Nat \ {0} /\ Window \in Nat \ {0}
  /\ MaxLag \in 0..Window
  /\ Free \notin [ip: IP, at: Nat]

VARIABLES
  buckets,        \* address -> count and reset time
  lastCleanup,
  arrived,        \* the requests waiting for the mutex, with their clock reading
  now,
  (* History, the first three by address. *)
  opened,         \* when the last bucket was created
  used,           \* the requests it let through
  passed,         \* all requests let through: when, and by the bucket of when
  latest          \* the latest clock reading of all requests counted

history == <<opened, used, passed, latest>>
vars == <<buckets, lastCleanup, arrived, now, history>>

Bucket == [count: 1..(Max + 1), reset: Nat]
Request == [ip: IP, at: Nat]
Pass == [at: Nat, opened: Nat]

Put(f, k, v) == [i \in DOMAIN f \cup {k} |-> IF i = k THEN v ELSE f[i]]

Init ==
  /\ buckets = [i \in {} |-> i]
  /\ now = Window + 1
  /\ lastCleanup = now
  /\ arrived = [r \in Threads |-> Free]
  /\ opened = [i \in IP |-> 0]
  /\ used = [i \in IP |-> 0]
  /\ passed = [i \in IP |-> <<>>]
  /\ latest = now

Arrive(r, ip) ==
  /\ arrived[r] = Free
  /\ arrived' = [arrived EXCEPT ![r] = [ip |-> ip, at |-> now]]
  /\ UNCHANGED <<buckets, lastCleanup, now, history>>

CleanupDue(t) == t - lastCleanup > Window

\* Mutant of Swept: cleanup removes nothing.
SweptNone(t) == buckets

\* What cleanup leaves, when it runs at the reading t.
Swept(t) ==
  IF CleanupDue(t) THEN [i \in {j \in DOMAIN buckets : t <= buckets[j].reset} |-> buckets[i]]
                   ELSE buckets

Expired(kept, ip, t) == ip \notin DOMAIN kept \/ t > kept[ip].reset

\* Mutant of Fresh: the first request is not counted.
FreshUncounted(t) == [count |-> 0, reset |-> t + Window]

\* The bucket of the first request counts it.
Fresh(t) == [count |-> 1, reset |-> t + Window]

\* b.count++, stopping at Max + 1: nothing tells larger counts apart.
Counted(b) == [b EXCEPT !.count = IF @ > Max THEN @ ELSE @ + 1]

Admit(r) ==
  LET ip     == arrived[r].ip
      t      == arrived[r].at
      kept   == Swept(t)
      fresh  == Expired(kept, ip, t)
      bucket == IF fresh THEN Fresh(t) ELSE Counted(kept[ip])
      over   == bucket.count > Max
      birth  == IF fresh THEN now ELSE opened[ip]
  IN
  /\ arrived[r] # Free
  /\ lastCleanup' = IF CleanupDue(t) THEN t ELSE lastCleanup
  /\ buckets' = Put(kept, ip, bucket)
  /\ arrived' = [arrived EXCEPT ![r] = Free]
  /\ opened' = [opened EXCEPT ![ip] = birth]
  /\ used' = [used EXCEPT ![ip] = IF over THEN @ ELSE IF fresh THEN 1 ELSE @ + 1]
  /\ passed' = [passed EXCEPT ![ip] =
                  IF over THEN @ ELSE Append(@, [at |-> now, opened |-> birth])]
  /\ latest' = IF t > latest THEN t ELSE latest
  /\ UNCHANGED now

Tick ==
  /\ now < MaxTime
  /\ \A r \in Threads : arrived[r] # Free => now < arrived[r].at + MaxLag
  /\ now' = now + 1
  /\ UNCHANGED <<buckets, lastCleanup, arrived, history>>

Next ==
  \/ \E r \in Threads : Admit(r) \/ \E ip \in IP : Arrive(r, ip)
  \/ Tick

Spec == Init /\ [][Next]_vars

-----------------------------------------------------------------------------
(* Properties.                                                             *)

\* The type invariant; a waiting request's reading is at most MaxLag old.
TypeOK ==
  /\ buckets \in [DOMAIN buckets -> Bucket] /\ DOMAIN buckets \subseteq IP
  /\ lastCleanup \in Nat /\ now \in Nat
  /\ arrived \in [Threads -> Request \cup {Free}]
  /\ \A r \in Threads : arrived[r] # Free =>
       arrived[r].at <= now /\ now <= arrived[r].at + MaxLag
  /\ opened \in [IP -> Nat] /\ used \in [IP -> Nat]
  /\ passed \in [IP -> Seq(Pass)] /\ latest \in Nat

\* The rate the limiter enforces.  Buckets are fixed windows, so Max requests at
\* the end of one and Max at the start of the next may pass together, but no
\* more: any 2 Max + 1 successive requests of one address that were let through
\* span more than Window - MaxLag, whatever cleanup did in between.
TwoBurstsAtMost ==
  \A ip \in IP : \A i \in DOMAIN passed[ip] :
    i + 2 * Max <= Len(passed[ip]) =>
      passed[ip][i + 2 * Max].at > passed[ip][i].at + Window - MaxLag

\* Cleanup keeps up with the requests, whatever order their readings are counted
\* in: a bucket that expired more than a Window before some counted request is
\* no longer in the map.  Without requests nothing is removed.
NoExpiredSurvivor == \A ip \in DOMAIN buckets : latest <= buckets[ip].reset + Window
=============================================================================
