----------------------------- MODULE LimiterProofs -----------------------------
(***************************************************************************)
(* What LoginRateLimiter guarantees, for every set of addresses and        *)
(* threads, every Max, Window and MaxLag.                                  *)
(***************************************************************************)
EXTENDS LoginRateLimiter, TLAPS

Gap == Window - MaxLag

\* The bucket of an address knows how many requests it let through, and does
\* not expire before Gap has passed since it was created; an address without
\* a bucket lost it to a cleanup after that.
BucketInv ==
  \A ip \in IP :
    /\ used[ip] <= Max
    /\ opened[ip] <= now
    /\ ip \in DOMAIN buckets =>
         /\ buckets[ip].reset >= opened[ip] + Gap
         /\ used[ip] = IF buckets[ip].count > Max THEN Max ELSE buckets[ip].count
    /\ ip \notin DOMAIN buckets => now > opened[ip] + Gap

\* The passes of an address, against the bucket that let them through: each
\* came when that bucket was open, the last used[ip] of them are the current
\* bucket's, and those Max places earlier are an older bucket's.
PassesInv(p, open, n, time) ==
  /\ \A i \in DOMAIN p :
       p[i].opened <= p[i].at /\ p[i].at <= time /\ p[i].opened <= open
  /\ \A i \in DOMAIN p : i <= Len(p) - n =>
       p[i].opened + Gap < open /\ p[i].at <= open
  /\ \A i \in DOMAIN p : i + Max <= Len(p) =>
       p[i].opened + Gap < p[i + Max].opened /\ p[i].at <= p[i + Max].opened

PassInv == \A ip \in IP : PassesInv(passed[ip], opened[ip], used[ip], now)

\* No bucket in the map had expired at the last cleanup, and no request counted
\* since came more than a Window after that cleanup.
Cleaned ==
  /\ lastCleanup <= now /\ latest <= lastCleanup + Window
  /\ \A ip \in DOMAIN buckets : buckets[ip].reset >= lastCleanup

IInv ==
  /\ TypeOK
  /\ Cleaned
  /\ BucketInv
  /\ PassInv

\* The initial state has no bucket and no history.
LEMMA InitIInv == Init => IInv
  BY LimiterAssumption
     DEF Init, IInv, TypeOK, Cleaned, BucketInv, PassInv, PassesInv, Gap,
         Bucket, Request, Pass

\* The arrival of a request only fills a slot.
LEMMA ArriveIInv ==
  ASSUME IInv, NEW r \in Threads, NEW ip \in IP, Arrive(r, ip)
  PROVE  IInv'
<1>1. TypeOK'
  BY LimiterAssumption DEF IInv, TypeOK, Arrive, Request, history
<1>2. Cleaned'
  BY DEF IInv, Cleaned, Arrive, history
<1>3. BucketInv' /\ PassInv'
  BY DEF IInv, BucketInv, PassInv, Arrive, Gap, history
<1>. QED  BY <1>1, <1>2, <1>3 DEF IInv

\* Time passing keeps every waiting request within MaxLag.
LEMMA TickIInv ==
  ASSUME IInv, Tick
  PROVE  IInv'
<1>1. TypeOK'
  BY LimiterAssumption DEF IInv, TypeOK, Tick, Request, history
<1>2. Cleaned'
  BY DEF IInv, TypeOK, Cleaned, Tick, history
<1>3. BucketInv'
  BY LimiterAssumption DEF IInv, TypeOK, BucketInv, Tick, Gap, history
<1>4. PassInv'
  <2>. SUFFICES ASSUME NEW ip \in IP
                PROVE  PassesInv(passed[ip], opened[ip], used[ip], now')
    BY DEF PassInv, Tick, history
  <2>1. \A i \in DOMAIN passed[ip] : passed[ip][i] \in Pass
    BY DEF IInv, TypeOK
  <2>2. PassesInv(passed[ip], opened[ip], used[ip], now)
    BY DEF IInv, PassInv
  <2>. QED  BY <2>1, <2>2 DEF IInv, TypeOK, PassesInv, Tick, Pass, history
<1>. QED  BY <1>1, <1>2, <1>3, <1>4 DEF IInv

\* One more pass.  Either the bucket is the old one, which had let n < Max
\* through, or it is new and came Gap after the old.
LEMMA OneMorePass ==
  ASSUME NEW p \in Seq(Pass), NEW open \in Nat, NEW n \in Nat, NEW time \in Nat,
         NEW open2 \in Nat, NEW n2 \in Nat \ {0},
         n2 <= Max, open2 <= time,
         PassesInv(p, open, n, time),
         \/ open2 = open /\ n2 = n + 1
         \/ open2 = time /\ n2 = 1 /\ open + Gap < time
  PROVE  PassesInv(Append(p, [at |-> time, opened |-> open2]), open2, n2, time)
<1>. DEFINE q == Append(p, [at |-> time, opened |-> open2])
            len == Len(p)
<1>1. /\ len \in Nat /\ DOMAIN p = 1..len
      /\ Len(q) = len + 1 /\ DOMAIN q = 1..(len + 1)
      /\ q[len + 1] = [at |-> time, opened |-> open2]
      /\ \A i \in 1..len : q[i] = p[i] /\ p[i] \in Pass
  OBVIOUS
<1>2. Max \in Nat \ {0} /\ Gap \in Nat
  BY LimiterAssumption DEF Gap
<1>3. \A i \in 1..len : /\ p[i].at \in Nat /\ p[i].opened \in Nat
                        /\ p[i].opened <= p[i].at /\ p[i].at <= time
                        /\ p[i].opened <= open
  BY <1>1 DEF PassesInv, Pass
<1>4. \A i \in 1..len : i <= len + 1 - n2 =>
        p[i].opened + Gap < open2 /\ p[i].at <= open2
  <2>1. CASE open2 = open /\ n2 = n + 1
    BY <1>1, <1>3, <2>1 DEF PassesInv
  <2>2. CASE open2 = time /\ n2 = 1 /\ open + Gap < time
    BY <1>2, <1>3, <2>2
  <2>. QED  BY <2>1, <2>2
<1>. HIDE DEF q, len
<1>5. ASSUME NEW i \in 1..(len + 1)
      PROVE  q[i].opened <= q[i].at /\ q[i].at <= time /\ q[i].opened <= open2
  <2>1. CASE i = len + 1
    BY <1>1, <2>1
  <2>2. CASE i \in 1..len
    BY <1>1, <1>3, <2>2
  <2>. QED  BY <1>1, <2>1, <2>2
<1>6. ASSUME NEW i \in 1..(len + 1), i <= Len(q) - n2
      PROVE  q[i].opened + Gap < open2 /\ q[i].at <= open2
  <2>1. i \in 1..len /\ i <= len + 1 - n2
    BY <1>1, <1>6
  <2>. QED  BY <1>1, <1>4, <2>1
<1>7. ASSUME NEW i \in 1..(len + 1), i + Max <= Len(q)
      PROVE  q[i].opened + Gap < q[i + Max].opened /\ q[i].at <= q[i + Max].opened
  <2>1. i \in 1..len /\ q[i] = p[i] /\ i + Max \in 1..(len + 1)
    BY <1>1, <1>2, <1>7
  <2>2. CASE i + Max = len + 1
    <3>1. i <= len + 1 - n2
      BY <1>1, <1>2, <2>2
    <3>2. q[i + Max].opened = open2
      BY <1>1, <2>2
    <3>. QED  BY <1>4, <2>1, <3>1, <3>2
  <2>3. CASE i + Max # len + 1
    <3>1. i + Max \in 1..len /\ i + Max <= len
      BY <1>1, <2>1, <2>3
    <3>2. p[i].opened + Gap < p[i + Max].opened /\ p[i].at <= p[i + Max].opened
      BY <1>1, <2>1, <3>1 DEF PassesInv, len
    <3>. QED  BY <1>1, <2>1, <3>1, <3>2
  <2>. QED  BY <2>2, <2>3
<1>. QED  BY <1>1, <1>5, <1>6, <1>7 DEF PassesInv, q

\* What the locked section computes: the swept map is part of the old one and
\* every address it dropped had expired; a new bucket is created only Gap after
\* the last one.
LEMMA AdmitFacts ==
  ASSUME IInv, NEW r \in Threads, arrived[r] # Free
  PROVE  LET ip == arrived[r].ip
             t  == arrived[r].at
             kept == Swept(t)
         IN /\ ip \in IP /\ t \in Nat /\ t <= now /\ now <= t + MaxLag
            /\ kept \in [DOMAIN kept -> Bucket]
            /\ DOMAIN kept \subseteq DOMAIN buckets
            /\ \A i \in DOMAIN kept : kept[i] = buckets[i]
            /\ CleanupDue(t) => \A i \in DOMAIN kept : t <= kept[i].reset
            /\ \A i \in DOMAIN buckets \ DOMAIN kept : t > buckets[i].reset
            /\ Expired(kept, ip, t) => now > opened[ip] + Gap
<1>. DEFINE ip == arrived[r].ip
            t == arrived[r].at
            kept == Swept(t)
<1>1. ip \in IP /\ t \in Nat /\ t <= now /\ now <= t + MaxLag
  BY DEF IInv, TypeOK, Request
<1>2. /\ kept \in [DOMAIN kept -> Bucket]
      /\ DOMAIN kept \subseteq DOMAIN buckets
      /\ \A i \in DOMAIN kept : kept[i] = buckets[i]
      /\ CleanupDue(t) => \A i \in DOMAIN kept : t <= kept[i].reset
  BY DEF IInv, TypeOK, Swept
<1>3. \A i \in DOMAIN buckets \ DOMAIN kept : t > buckets[i].reset
  <2>. SUFFICES ASSUME NEW i \in DOMAIN buckets, i \notin DOMAIN kept
                PROVE  t > buckets[i].reset
    OBVIOUS
  <2>1. ~(t <= buckets[i].reset)
    BY DEF Swept
  <2>2. buckets[i].reset \in Nat
    BY DEF IInv, TypeOK, Bucket
  <2>. QED  BY <1>1, <2>1, <2>2
<1>4. ASSUME Expired(kept, ip, t) PROVE now > opened[ip] + Gap
  <2>1. /\ opened[ip] \in Nat /\ now \in Nat /\ Gap \in Int
        /\ ip \in DOMAIN buckets => buckets[ip].reset \in Nat
    BY <1>1, LimiterAssumption DEF IInv, TypeOK, Bucket, Gap
  <2>2. CASE ip \notin DOMAIN buckets
    BY <1>1, <2>2 DEF IInv, BucketInv
  <2>3. CASE ip \in DOMAIN buckets
    <3>1. t > buckets[ip].reset
      BY <1>2, <1>3, <1>4, <2>3 DEF Expired
    <3>2. buckets[ip].reset >= opened[ip] + Gap
      BY <1>1, <2>3 DEF IInv, BucketInv
    <3>. QED  BY <1>1, <2>1, <2>3, <3>1, <3>2
  <2>. QED  BY <2>2, <2>3
<1>. QED  BY <1>1, <1>2, <1>3, <1>4

\* The locked section preserves the invariant.
LEMMA AdmitIInv ==
  ASSUME IInv, NEW r \in Threads, Admit(r)
  PROVE  IInv'
<1>. DEFINE ip == arrived[r].ip
            t == arrived[r].at
            kept == Swept(t)
            fresh == Expired(kept, ip, t)
            bucket == IF fresh THEN Fresh(t) ELSE Counted(kept[ip])
            over == bucket.count > Max
            birth == IF fresh THEN now ELSE opened[ip]
            pass == [at |-> now, opened |-> birth]
<1>a. /\ arrived[r] # Free
      /\ lastCleanup' = IF CleanupDue(t) THEN t ELSE lastCleanup
      /\ buckets' = Put(kept, ip, bucket)
      /\ arrived' = [arrived EXCEPT ![r] = Free]
      /\ opened' = [opened EXCEPT ![ip] = birth]
      /\ used' = [used EXCEPT ![ip] = IF over THEN @ ELSE IF fresh THEN 1 ELSE @ + 1]
      /\ passed' = [passed EXCEPT ![ip] = IF over THEN @ ELSE Append(@, pass)]
      /\ latest' = IF t > latest THEN t ELSE latest
      /\ now' = now
  BY DEF Admit
<1>b. /\ ip \in IP /\ t \in Nat /\ t <= now /\ now <= t + MaxLag
      /\ kept \in [DOMAIN kept -> Bucket]
      /\ DOMAIN kept \subseteq DOMAIN buckets
      /\ \A i \in DOMAIN kept : kept[i] = buckets[i]
      /\ CleanupDue(t) => \A i \in DOMAIN kept : t <= kept[i].reset
      /\ \A i \in DOMAIN buckets \ DOMAIN kept : t > buckets[i].reset
      /\ fresh => now > opened[ip] + Gap
  BY <1>a, AdmitFacts
<1>c. /\ now \in Nat /\ lastCleanup \in Nat /\ lastCleanup <= now
      /\ latest \in Nat /\ latest <= lastCleanup + Window
      /\ opened \in [IP -> Nat] /\ used \in [IP -> Nat]
      /\ passed \in [IP -> Seq(Pass)]
      /\ Max \in Nat \ {0} /\ Window \in Nat \ {0} /\ MaxLag \in 0..Window
      /\ Gap \in Nat /\ Gap = Window - MaxLag
  BY LimiterAssumption DEF IInv, TypeOK, Cleaned, Gap
<1>d. ~fresh => ip \in DOMAIN kept /\ t <= kept[ip].reset /\ kept[ip] \in Bucket
  BY <1>b DEF Expired, Bucket
<1>e. /\ used[ip] \in Nat /\ used[ip] <= Max /\ opened[ip] <= now
      /\ ~fresh => used[ip] = IF kept[ip].count > Max THEN Max ELSE kept[ip].count
      /\ ~fresh => kept[ip].reset >= opened[ip] + Gap
  BY <1>b, <1>c, <1>d DEF IInv, BucketInv
<1>k. /\ t + Window \in Nat /\ t + Window >= now + Gap
      /\ lastCleanup <= t + Window
  <2>. HIDE DEF t
  <2>1. \A x, n, w, g, m, l \in Nat :
          x <= n /\ n <= x + m /\ m <= w /\ g = w - m /\ l <= n
            => x + w \in Nat /\ x + w >= n + g /\ l <= x + w
    OBVIOUS
  <2>2. Window \in Nat /\ MaxLag \in Nat /\ MaxLag <= Window  BY <1>c
  <2>. QED  BY <1>b, <1>c, <2>1, <2>2
<1>f. bucket \in Bucket
  <2>1. CASE fresh
    <3>1. bucket = [count |-> 1, reset |-> t + Window]  BY <2>1 DEF Fresh
    <3>2. 1 \in 1..(Max + 1)  BY <1>c
    <3>3. t + Window \in Nat  BY <1>k
    <3>. HIDE DEF bucket
    <3>. QED  BY <3>1, <3>2, <3>3 DEF Bucket
  <2>2. CASE ~fresh
    <3>1. PICK old \in Bucket : old = kept[ip]  BY <1>d, <2>2
    <3>2. PICK n \in 1..(Max + 1) : n = IF old.count > Max THEN old.count ELSE old.count + 1
      BY <1>c DEF Bucket
    <3>3. Counted(old) = [old EXCEPT !.count = n]  BY <3>2 DEF Counted
    <3>4. [old EXCEPT !.count = n] \in Bucket  BY DEF Bucket
    <3>. QED  BY <2>2, <3>1, <3>3, <3>4
  <2>. QED  BY <2>1, <2>2
<1>g. /\ birth \in Nat /\ birth <= now
      /\ bucket.reset >= birth + Gap /\ bucket.reset >= lastCleanup'
  <2>1. CASE fresh
    <3>1. bucket.reset = t + Window /\ birth = now  BY <2>1 DEF Fresh
    <3>2. lastCleanup' <= t + Window
      <4>1. t <= t + Window  BY <1>b, <1>c
      <4>. QED  BY <1>a, <1>k, <4>1
    <3>3. t + Window >= now + Gap  BY <1>k
    <3>. HIDE DEF birth, fresh, bucket, kept, ip, t
    <3>. QED  BY <1>b, <1>c, <3>1, <3>2, <3>3, <1>a
  <2>2. CASE ~fresh
    <3>1. bucket.reset = kept[ip].reset
      BY <1>d, <2>2 DEF Counted, Bucket
    <3>2. kept[ip].reset >= lastCleanup
      BY <1>b, <1>d, <2>2 DEF IInv, Cleaned
    <3>. QED  BY <1>a, <1>b, <1>c, <1>d, <1>e, <2>2, <3>1, <3>2 DEF Bucket
  <2>. QED  BY <2>1, <2>2
<1>h. /\ used'[ip] \in Nat /\ used'[ip] <= Max
      /\ used'[ip] = IF bucket.count > Max THEN Max ELSE bucket.count
      /\ ~over => used'[ip] = IF fresh THEN 1 ELSE used[ip] + 1
      /\ over => ~fresh /\ used'[ip] = used[ip]
  <2>1. CASE fresh
    BY <1>a, <1>b, <1>c, <2>1 DEF Fresh
  <2>2. CASE ~fresh
    <3>1. bucket.count = IF kept[ip].count > Max THEN kept[ip].count ELSE kept[ip].count + 1
      BY <1>d, <2>2 DEF Counted, Bucket
    <3>2. used'[ip] = IF over THEN used[ip] ELSE used[ip] + 1
      BY <1>a, <1>b, <1>c, <2>2
    <3>3. kept[ip].count \in Nat /\ bucket.count \in Nat
      BY <1>d, <1>f, <2>2 DEF Bucket
    <3>4. used[ip] = IF kept[ip].count > Max THEN Max ELSE kept[ip].count
      BY <1>e, <2>2
    <3>5. Max \in Nat \ {0}
      BY <1>c
    <3>. HIDE DEF bucket, kept, fresh
    <3>. QED  BY <2>2, <3>1, <3>2, <3>3, <3>4, <3>5
  <2>. QED  BY <2>1, <2>2
<1>i. pass \in Pass
  BY <1>c, <1>g DEF Pass
<1>1. TypeOK'
  <2>1. buckets' \in [DOMAIN buckets' -> Bucket] /\ DOMAIN buckets' \subseteq IP
    BY <1>a, <1>b, <1>f DEF Put, IInv, TypeOK
  <2>2. /\ arrived' \in [Threads -> Request \cup {Free}]
        /\ \A q \in Threads : arrived'[q] # Free =>
             arrived'[q].at <= now' /\ now' <= arrived'[q].at + MaxLag
    BY <1>a DEF IInv, TypeOK
  <2>3. opened' \in [IP -> Nat] /\ used' \in [IP -> Nat]
    BY <1>a, <1>b, <1>c, <1>g, <1>h
  <2>4. passed' \in [IP -> Seq(Pass)]
    <3>1. Append(passed[ip], pass) \in Seq(Pass)
      BY <1>b, <1>c, <1>i
    <3>. QED  BY <1>a, <1>b, <1>c, <3>1
  <2>. QED  BY <1>a, <1>b, <1>c, <2>1, <2>2, <2>3, <2>4 DEF TypeOK
<1>2. lastCleanup' <= now' /\ latest' <= lastCleanup' + Window
  <2>. HIDE DEF t
  <2>1. CASE CleanupDue(t)
    <3>1. lastCleanup' = t /\ (latest' = t \/ latest' = latest)
      BY <1>a, <2>1
    <3>2. lastCleanup + Window < t
      BY <1>b, <1>c, <2>1 DEF CleanupDue
    <3>. QED  BY <1>a, <1>b, <1>c, <3>1, <3>2
  <2>2. CASE ~CleanupDue(t)
    <3>1. lastCleanup' = lastCleanup /\ (latest' = t \/ latest' = latest)
      BY <1>a, <2>2
    <3>2. t <= lastCleanup + Window
      BY <1>b, <1>c, <2>2 DEF CleanupDue
    <3>. QED  BY <1>a, <1>b, <1>c, <3>1, <3>2
  <2>. QED  BY <2>1, <2>2
<1>3. Cleaned'
  <2>. SUFFICES ASSUME NEW j \in DOMAIN buckets'
                PROVE  buckets'[j].reset >= lastCleanup'
    BY <1>2 DEF Cleaned
  <2>1. CASE j = ip
    BY <1>a, <1>g, <2>1 DEF Put
  <2>2. CASE j # ip
    <3>1. j \in DOMAIN kept /\ buckets'[j] = kept[j] /\ kept[j] = buckets[j]
      BY <1>a, <1>b, <2>2 DEF Put
    <3>. QED  BY <1>a, <1>b, <1>c, <3>1 DEF IInv, Cleaned, Bucket
  <2>. QED  BY <2>1, <2>2
<1>4. BucketInv'
  <2>. SUFFICES ASSUME NEW j \in IP
                PROVE  /\ used'[j] <= Max
                       /\ opened'[j] <= now'
                       /\ j \in DOMAIN buckets' =>
                            /\ buckets'[j].reset >= opened'[j] + Gap
                            /\ used'[j] = IF buckets'[j].count > Max THEN Max
                                                                   ELSE buckets'[j].count
                       /\ j \notin DOMAIN buckets' => now' > opened'[j] + Gap
    BY DEF BucketInv, Gap
  <2>1. CASE j = ip
    BY <1>a, <1>b, <1>c, <1>g, <1>h, <2>1 DEF Put
  <2>2. CASE j # ip
    <3>1. used'[j] = used[j] /\ opened'[j] = opened[j]
      BY <1>a, <1>b, <1>c, <2>2
    <3>2. j \in DOMAIN buckets' <=> j \in DOMAIN kept
      BY <1>a, <2>2 DEF Put
    <3>3. j \in DOMAIN kept => buckets'[j] = buckets[j] /\ j \in DOMAIN buckets
      BY <1>a, <1>b, <2>2 DEF Put
    <3>4. ASSUME j \in DOMAIN buckets, j \notin DOMAIN kept
          PROVE  now > opened[j] + Gap
      <4>1. buckets[j].reset \in Nat /\ opened[j] \in Nat
        BY <3>4, <1>c DEF IInv, TypeOK, Bucket
      <4>2. t > buckets[j].reset /\ buckets[j].reset >= opened[j] + Gap
        BY <1>b, <3>4 DEF IInv, BucketInv
      <4>3. t \in Nat /\ t <= now /\ now \in Nat /\ Gap \in Nat
        BY <1>b, <1>c
      <4>. QED  BY <4>1, <4>2, <4>3
    <3>. QED  BY <1>a, <3>1, <3>2, <3>3, <3>4 DEF IInv, BucketInv
  <2>. QED  BY <2>1, <2>2
<1>5. PassInv'
  <2>. SUFFICES ASSUME NEW j \in IP
                PROVE  PassesInv(passed'[j], opened'[j], used'[j], now)
    BY <1>a DEF PassInv
  <2>0. PassesInv(passed[j], opened[j], used[j], now)
    BY DEF IInv, PassInv
  <2>1. CASE j # ip \/ over
    <3>1. passed'[j] = passed[j] /\ used'[j] = used[j] /\ opened'[j] = opened[j]
      BY <1>a, <1>b, <1>c, <1>h, <2>1
    <3>. QED  BY <2>0, <3>1
  <2>2. CASE j = ip /\ ~over
    <3>1. /\ passed'[j] = Append(passed[j], pass) /\ opened'[j] = birth
          /\ passed[j] \in Seq(Pass) /\ opened[j] \in Nat /\ used[j] \in Nat
      BY <1>a, <1>b, <1>c, <2>2
    <3>2. used'[j] \in Nat \ {0} /\ used'[j] <= Max
      BY <1>e, <1>h, <2>2
    <3>3. \/ birth = opened[j] /\ used'[j] = used[j] + 1
          \/ birth = now /\ used'[j] = 1 /\ opened[j] + Gap < now
      BY <1>b, <1>h, <2>2
    <3>4. birth \in Nat /\ birth <= now /\ now \in Nat
      BY <1>c, <1>g
    <3>. HIDE DEF birth, fresh, bucket
    <3>5. /\ opened'[j] \in Nat /\ opened'[j] <= now
          /\ \/ opened'[j] = opened[j] /\ used'[j] = used[j] + 1
             \/ opened'[j] = now /\ used'[j] = 1 /\ opened[j] + Gap < now
      BY <3>1, <3>3, <3>4
    <3>6. PassesInv(Append(passed[j], [at |-> now, opened |-> opened'[j]]),
                    opened'[j], used'[j], now)
      BY <2>0, <3>1, <3>2, <3>4, <3>5, OneMorePass
    <3>. QED  BY <3>1, <3>6
  <2>. QED  BY <2>1, <2>2
<1>. QED  BY <1>1, <1>2, <1>3, <1>4, <1>5 DEF IInv

\* The invariant is inductive.
LEMMA NextIInv == IInv /\ [Next]_vars => IInv'
<1>. SUFFICES ASSUME IInv, [Next]_vars PROVE IInv'
  OBVIOUS
<1>1. CASE \E r \in Threads : Admit(r)
  BY <1>1, AdmitIInv
<1>2. CASE \E r \in Threads, ip \in IP : Arrive(r, ip)
  BY <1>2, ArriveIInv
<1>3. CASE Tick
  BY <1>3, TickIInv
<1>4. CASE UNCHANGED vars
  BY <1>4 DEF vars, history, IInv, TypeOK, Cleaned, BucketInv, PassInv, PassesInv, Gap
<1>. QED  BY <1>1, <1>2, <1>3, <1>4 DEF Next

\* The buckets and the history of NewLoginRateLimiter agree in every reachable
\* state: the inductive invariant the other theorems follow from.
THEOREM LimiterInvariant == Spec => []IInv
  BY InitIInv, NextIInv, PTL DEF Spec

\* Two applications of the third part of PassInv: a pass and the one 2 Max later
\* are at least two buckets apart.
LEMMA BurstsApart == IInv => TwoBurstsAtMost
<1>. SUFFICES ASSUME IInv, NEW ip \in IP, NEW i \in DOMAIN passed[ip],
                     i + 2 * Max <= Len(passed[ip])
              PROVE  passed[ip][i + 2 * Max].at > passed[ip][i].at + Window - MaxLag
  BY DEF TwoBurstsAtMost
<1>. DEFINE p == passed[ip]
            mid == i + Max
            last == i + 2 * Max
<1>1. /\ p \in Seq(Pass) /\ Len(p) \in Nat /\ DOMAIN p = 1..Len(p)
      /\ Max \in Nat \ {0} /\ Gap \in Nat /\ Gap = Window - MaxLag
      /\ Window \in Nat /\ MaxLag \in Nat
  BY LimiterAssumption DEF IInv, TypeOK, Gap
<1>2. /\ i \in Nat /\ mid \in DOMAIN p /\ last \in DOMAIN p
      /\ i + Max <= Len(p) /\ mid + Max <= Len(p) /\ mid + Max = last
  BY <1>1
<1>3. p[i] \in Pass /\ p[mid] \in Pass /\ p[last] \in Pass
  BY <1>1, <1>2
<1>4. PassesInv(p, opened[ip], used[ip], now)
  BY DEF IInv, PassInv
<1>5. /\ p[i].at <= p[mid].opened
      /\ p[mid].opened + Gap < p[last].opened
      /\ p[last].opened <= p[last].at
  BY <1>2, <1>4 DEF PassesInv
<1>6. /\ p[i].at \in Nat /\ p[mid].opened \in Nat
      /\ p[last].opened \in Nat /\ p[last].at \in Nat
  BY <1>3 DEF Pass
<1>7. \A a, b, c, d \in Nat : a <= b /\ b + Gap < c /\ c <= d => d > a + Window - MaxLag
  BY <1>1
<1>. QED  BY <1>5, <1>6, <1>7

\* The rate of NewLoginRateLimiter, for every limit, window, lag and set of
\* addresses: no address gets more than 2 Max logins through in Window - MaxLag.
THEOREM RateIsBounded == Spec => []TwoBurstsAtMost
  BY LimiterInvariant, BurstsApart, PTL

\* The map never holds a bucket that expired more than a Window before a request
\* that the limiter counted.
THEOREM CleanupKeepsUp == Spec => []NoExpiredSurvivor
<1>1. IInv => NoExpiredSurvivor
  <2>. SUFFICES ASSUME IInv, NEW ip \in DOMAIN buckets
                PROVE  latest <= buckets[ip].reset + Window
    BY DEF NoExpiredSurvivor
  <2>1. buckets[ip].reset >= lastCleanup /\ latest <= lastCleanup + Window
    BY DEF IInv, Cleaned
  <2>2. buckets[ip].reset \in Nat /\ lastCleanup \in Nat /\ latest \in Nat /\ Window \in Nat
    BY LimiterAssumption DEF IInv, TypeOK, Bucket
  <2>. QED  BY <2>1, <2>2
<1>. QED  BY <1>1, LimiterInvariant, PTL

\* Buckets, readings and history keep their types; a bucket counts from 1 to
\* Max + 1.
THEOREM LimiterTypes == Spec => []TypeOK
<1>1. IInv => TypeOK
  BY DEF IInv
<1>. QED  BY <1>1, LimiterInvariant, PTL

=============================================================================
