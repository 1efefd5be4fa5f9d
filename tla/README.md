# Water Monitoring System: TLA+ models, checks and proofs

The system is a Go web server. It keeps meter readings, tonnes and invoices in
one store and accounts, sessions and an audit log in another; both stores are
JSON files by default and PostgreSQL tables optionally. These modules model what
the server does when requests interleave, saves fail and the process restarts.
Paths below are relative to the repository (`src/`).

## 1. Inventory

| Component | State | Operations | Hard part |
| --- | --- | --- | --- |
| JSON user store `internal/database/users.go` | `Users`, `Sessions`, `Activity`, `Resets` behind one mutex; `users.json` | one method per operation, each ends in `save()` (temporary file + rename) | memory changes before the save; a failed save is not undone |
| Handlers `internal/api/auth_handlers.go`, `auth_middleware.go`, `admin_handlers.go` (users) | none of their own; a request's local variables between store calls | login, logout, me, change-password; admin create, update, delete, reset-password | every handler is several store calls: other requests run in between |
| Login limiter `auth_middleware.go:144` | a bucket per address, last cleanup | one locked section per POST | clock read outside the lock; fixed windows |
| Tokens and hashes `internal/auth/auth.go` | none | sign, verify, hash | whole-second timestamps make equal tokens |
| Server `main.go` | purge ticker | bootstrap of the first administrator, purge, shutdown | a stop at any point |
| Water store `internal/database/db.go`, `median.go` | readings, tonnes, invoices, preferences; `water.json` | add, update, delete, fill, clear, seed; `Save` writes the file in place | torn file, usage computed from append order, check-then-act fills |
| Data handlers `handlers.go`, `admin_handlers.go` | none | readings, tonnes, invoices, auto-fill, median fill | read a copy, decide, write a whole row |
| PostgreSQL user store `internal/database/users_postgres.go` | tables `users`, `sessions`, `activity_log` | the same methods, each one to three SQL statements without a lock or transaction | lost updates; statements that ran although their caller sees an error |
| PostgreSQL water store `internal/database/db_postgres.go` | tables `readings`, `tonnes`, `invoices`, preferences; `meters` | the same methods; `AddReading` and the fills are several statements, the seed two transactions | a failed query taken for an empty answer; the seed clears first and then fails |
| Role guards `routes_prod.go` | none | admin, manager, editor | role read once per request |
| Services, validation, pagination, logging, reports | none | never imported by the program | dead code |
| Dashboard, KPIs, search, report, stubs | none | read only | none |

Interactions: a request passes the limiter (login only) or the session middleware
(token, session row, account), then its handler, which calls the user store and
the water store by method and ends with an audit entry in the user store. Requests
run in goroutines of their own; they share the two stores. The mutex of a JSON store
makes one method atomic and nothing longer; over PostgreSQL one statement is atomic. The purge goroutine calls the user store every
hour.

What makes each component correct: sessions of a replaced password or a deleted
account must not survive; a logout and a deletion must be final, over restarts
too; an account locks at the limit; the limiter bounds the rate of an address
whatever the order of requests; rows that expired leave the tables; a fill inserts
one estimate per gap; an invoice's meter belongs to its site; edits are not lost;
the stores on disk can be read back.

`PROJECT.json` lists every component, and every hazard at its line with the
properties that cover it.

## 2. Modules

| Module | Models |
| --- | --- |
| `Accounts` | data of both user stores: accounts, sessions, requests, the patch functions of the handlers |
| `UserStore` | the JSON user store: one action per method; `save()`; reload and bootstrap |
| `AuthFlow` | the handlers over `UserStore`: a slot per request in flight, one action per store call |
| `LoginRateLimiter` | `NewLoginRateLimiter` |
| `PgUserStore` | the PostgreSQL user store: one operator per statement, `UNIQUE(email)` and `ON DELETE CASCADE` |
| `PgAuthFlow` | the same handlers over `PgUserStore`, one action per statement |
| `WaterData` | data of both water stores: rows, estimates, median, the merge of an invoice |
| `WaterStore` | the JSON water database: one action per method; `Save()`; `Open()`; the estimates |
| `WaterFlow` | the data handlers over `WaterStore`, starts and stops |
| `PgWaterStore` | the PostgreSQL water database: one operator per statement |
| `PgWaterFlow` | the data handlers over `PgWaterStore`, starts and stops |
| `InvoiceRegister` | abstract: what the invoices promise, whatever else the database does |
| `MCAuth`, `MCLimiter`, `MCWater`, `MCPgAuth`, `MCPgWater` | constants and symmetry for TLC |
| `UserStoreProofs` | what each store method preserves |
| `AuthFlowProofs` | the inductive invariant of the flow and the theorems |
| `LimiterProofs` | the inductive invariant of the limiter and the theorems |
| `WaterProofs` | the inductive invariant of the water database and the theorems, `ImplementsRegister` among them |
| `WaterDataProofs` | what the operators of `WaterData` return (sums of usages, medians, tables, merged invoices), and how many readings a day has; cited for both databases |
| `ReadingProofs` | the inductive invariants of readings and fills over the JSON database: types, usages, gaps |
| `PgAuthProofs` | the inductive invariant of the account handlers over PostgreSQL and the theorems |
| `PgWaterProofs` | the same for the data handlers, readings and fills included; they implement `InvoiceRegister` too |

### UserStore

`users`, `sessions` and `activity` are the three slices; accounts and sessions are
functions from ids, and ids are numbers given in increasing order and never reused
(the code's uuids), so the first match of a scan over a slice is the least id.
`disk` is what `users.json` holds. A method is one step, because the mutex is held
from its first read to the end of its save; its argument `ok` says whether the
save went through. With `ok = FALSE` memory keeps the change and the file does
not, which is what the code does. A patch function that stops half-way
(`updateUser` with an invalid role) changes memory and saves nothing
(`UpdateUserRefused`). `Restart` reads the file back; with no account in it, it
creates the default administrator, itself a `CreateUser` whose save may fail.

A password hash is the password it verifies. A token is the record of the claims
`auth.Sign` serialises, so two logins of one account in one second get the same
token, as in the code: the claims have whole seconds and an empty session id.

### AuthFlow

`req` maps each slot to the request in it: the operation, the store call it makes
next (`at`) and the handler's local variables. The step of a request is one store
call with the computation up to the next one:

    login   LoginLookup -> LoginFailed | IssueToken -> LoginWelcome -> Audit
    others  Authenticate -> LoadUser -> handler's calls -> Audit
    logout  LogoutFind -> LogoutRevoke
    change  ChangeReload -> SetHash -> RevokeAll        reset  SetHash -> RevokeAll
    create, update, delete   AdminCreate, AdminUpdate, AdminDelete

Early returns end in `Answer`, which frees the slot. `Authenticate` is the expiry
check and `FindSessionByTokenHash`; `LoadUser` is `GetUser` and the role guard.
With the API key (`KeyRequest`) both are skipped and the actor is the synthetic
administrator, id 0; besides the administrator's operations it reaches logout, which
then acts on whatever bearer token came along, verified by nobody. `held` is the set of tokens clients have received: a token
enters it when the login's answer leaves, and a client never forgets one.
`Crash` empties all slots and restarts the store. `verified`, `raced`, `cutShort`,
`gone`, `left`, `dropped` and `revived` are history: no action's guard reads them.
`left` are the rows whose logout was answered, `dropped` those whose last logout dropped
the error of `RevokeSession`, `revived` the dropped ones a restart found live in the file.

### LoginRateLimiter

`Arrive` is the clock reading, `Admit` the section under the mutex. `MaxLag`
bounds the time a request may wait between the two; the code has no such bound,
but a request that waited for longer than `Window` would have been timed out by
the server. `opened`, `used`, `passed` and `latest`, the latest reading counted, are
history.

### WaterStore

`readings`, `tonnes` and `invoices` are the slices of `DB` as functions from ids,
`autoFill` is the one preference a decision depends on, `disk` is what `water.json`
holds. Ids are given in increasing order over all tables, so the order of a slice
is the order of ids, and "the last reading appended" is the greatest id. The lock is
held from the first read to the end of `Save`, so a method is one step. Its
parameter `out` says what became of the file: `written`, `left` as it was (it could
not be opened), or `torn` (truncated and not written to the end, as
`os.WriteFile` may leave it). With the last two, memory keeps the change, as the
code does; a later save publishes it.

`Metered` is the usage `AddReading` computes, `Edited` the fields `UpdateReading`
overwrites. `AutoFillMissingData` and `MedianFillMissingData` yield a set: one
estimate, or none where the code returns nil. Values, usages and tonnes are integers
(the code's floats are not rounded; `\div` is), dates are days. `Usages` of `WaterData`
adds up the usages of some readings, `Covers` relates two readings by the usage of
the second.

### WaterFlow

A handler with one store call that matters is one step (`PostReading`,
`RemoveInvoice`, ...). A handler that computes on a copy is a request in a slot of
`req`, with one step per store call:

    updateInvoice   ReadInvoice -> ReplaceInvoice
    fills           BeginFill -> Survey (bulk only) -> EstimateNext <-> InsertEstimate

`ReadInvoice` is the read, the merge and the check of meter and site; what is
replaced later is the whole row. `Survey` is `GetLastReadingTimes` and the choice
of stale meters, made once; after it, each meter is estimated and inserted in two
steps, whatever other requests do between. The mean fills ask the preference
first, the median fills do not. `Start` is `Open` and the `Save` that `main` calls
next, whose failure is only logged; with a torn file the program does not start.
`Crash(torn)` stops it anywhere, or in the middle of a `Save`.

`kept`, `gone`, `bulk` and `edited` are history: the rows whose creation and whose
removal was answered with success, the readings inserted by bulk fills, and the
meters with a reading changed by hand.

`InvoiceRegister` has the book of invoices, whether the program runs, and the copies
a restart may find. `WaterFlow!Register` instantiates it with `invoices`, `up` and
the image in the file, or no copy when the file is torn.

### PgUserStore, PgAuthFlow

`users` and `sessions` are the tables, `logged` counts the rows of `activity_log`.
The parameter `out` of a statement is what becomes of it: `done`; `lost`, it ran but
its caller hears an error; `refused`, it did not run, since the schema forbids it
or the connection failed. A query that fails and one that finds nothing are the
same to most callers, and `Misses` is both. `faults` counts what went wrong with
the connection, and restarts.

A request takes one step per statement:

    UpdateUser     ReadRow -> WriteRow            (SELECT, patch on the copy, UPDATE)
    CreateUser     CheckEmail -> Insert
    DeleteUser     CheckUser -> Condemn -> Delete
    LogActivity    LogEntry -> Trim
    login          LoginLookup -> (IssueToken) -> ReadRow -> WriteRow -> LogEntry
    logout         LogoutFind -> LogoutRevoke     change  ChangeReload -> ReadRow ...

`WriteRow` writes the copy that `ReadRow` made, every column of it, as the code does.
`Crash` keeps the tables and drops the requests; `Boot` is `bootstrapAdmin`, which
runs when `ListUsers` returned nothing, because the table is empty or because the
query failed. History: `chosen` is the password last chosen for each account,
`overlapped` the accounts of which two updates overlapped.

### PgWaterStore, PgWaterFlow

As `WaterStore` and `WaterFlow`, without a memory image: the tables are the only
state, and a restart reads nothing. `AddReading` is `SelectLast` (the last reading by
date) and `Insert`. A fill is `BeginFill`, `Survey` (bulk only), then for each meter
`FindLast`, `FindUsages`, `SelectLast` and `Insert`. Each query may fail, and the model
goes on as the code does: a failed `SelectLast` is a meter without readings, a
failed `GetLastReadingTimes` makes every meter stale. `Seed` is the two deletions,
committed, and `Plant` the insertion in a second transaction. `SeedSampleData` names
meters (`w-m2`, `w-pro`, `w-ame`) that `SeedMeters` does not create, so the foreign
key always refuses it.

The meters are a constant: after `SeedMetersIfEmpty` no handler changes them.
`roots` is history: the readings inserted when no earlier one was found, and those of
the tables at the start whose usage counts from no earlier one.

## 3. Properties and runs

| Run | Question | Bounds |
| --- | --- | --- |
| `sessions` | logins, logouts, own password changes of one account, with expiry, purge, lock; under fairness, revocation and purge happen in the end | 2 requests, 2 sessions, 2 seconds, lock at 2 failures |
| `admin` | administration of accounts racing logins | 2 requests, 3 accounts, 2 sessions |
| `restarts` | two failed saves and one restart anywhere, bootstrap included | 2 requests, 2 accounts, 1 session, 2 seconds |
| `limiter` | the rate over two addresses and two concurrent requests | Max 2, Window 2, MaxLag 1, 8 seconds |
| `water` | every operation on the data, invoice updates interleaved, one failed save, two restarts | 2 requests, 2 meters of 2 sites, 3 rows, 1 sample reading |
| `fills` | two fills of any kind racing with readings, a clear, the preference and a failed save | 2 requests, 2 sample readings, 3 more rows, one date to fill |
| `pg_accounts` | the account handlers statement by statement, with a lost or refused statement, a restart, a bootstrap | 3 requests, 2 at a time, 1 fault, 3 seconds, lock at the first failure |
| `pg_water` | the data handlers statement by statement | 3 requests, 2 slots, 1 fault, 2 meters, 2 earlier readings, 2 dates |
| `logout_finality` | violation of `LoggedOutTokensAreDead` | one account, 2 requests, 2 sessions |
| `password_race` | violation of `PasswordChangeRevokes` | one account, 2 requests, 2 sessions |
| `unique_emails` | violation of `EmailsAreUnique` | as `admin` |
| `pg_lock` | violation of `FailuresAreCounted` | as `pg_accounts`, 2 requests, no fault, lock at 2 failures |

- `StaleSessionsAreCondemned`: an unrevoked session stands on its account's current
  password unless its login raced with the replacement, the handler that replaced
  it is about to revoke, or a failed save or restart cut that handler short. This
  is exactly what change-password, reset-password and delete guarantee; the
  exceptions are the ones the code has, and each of the violation runs and the
  `restarts` run reaches them.
- `DeletionSticks`: an account whose deletion was answered with 200 never comes back.
- `LogoutSticks`: a logged-out row stays revoked over failed saves and restarts. The
  exception is the error `HandleLogout` drops: a row whose own revocation was not saved
  is back if a restart finds it so in the file, and only then. Another save that went
  through in between has published the revocation; one that failed must not undo it.
- `StaleSessionsDie`, `ExpiredSessionsGo`: the liveness side of the above.
- `TypeOK` also says that no failure counter ever reaches the limit: it turns into
  a lock.
- `TwoBurstsAtMost`: any 2 Max + 1 successive admitted requests of one address span
  more than `Window - MaxLag`. The documented "10 per minute" is not what fixed
  windows give; 20 in a moment is, and no more than that.
- `NoExpiredSurvivor`: no bucket in the map expired more than a `Window` before a
  request that was counted, however late readings are counted. A cleanup that never ran
  would break it; without requests nothing is removed, and nothing grows.

- `InvoicesMatchSites`: the comment in `createInvoice` ("Verify meter exists and
  belongs to the specified site") for every invoice at all times. It holds under
  concurrent updates only because `UpdateInvoice` replaces the whole row: written
  field by field, two updates that were each checked would mix.
- `AnsweredSurvives`: a row whose creation was answered with success is in memory
  while the program runs, and in the file unless that is torn. A failed save of
  another request must not lose it.
- `RemovalSticks`: a row whose removal was answered with 200 is never back, by a
  restart or by an update that had read it before.
- `RegisterSpec`: the flow implements `InvoiceRegister`.
- `GapsFilledOncePerRequest`: bulk fills check freshness on a snapshot, so two of them
  fill one gap twice, but never more often than there are requests in flight.
- `UsageCoversRegister`: for a meter nobody edited by hand and whose usages are not
  negative, the usages recorded cover the distance between its first and its last
  reading, whatever order readings and estimates came in.

Over PostgreSQL (`pg_accounts`, `pg_water`) some of these hold with other exceptions,
which name exactly what the missing transactions cost:

- `PasswordSticks`: an account has the password last chosen for it, unless two updates
  of it overlapped. `UpdateUser` writes back the hash it read, so a failed login or
  an edit that overlaps a password change brings the old password back.
- `StaleSessionsAreCondemned`: as above, with overlapping updates as a further exception.
- `NoOrphans`: no session outlives its account, though `DeleteUser` is three statements
  and a login may insert between any two. The foreign key does it.
- `EmailsAreUnique`: the constraint decides what the check of `CreateUser` (a statement
  earlier) and `updateUser` (none) leave open. The JSON store has no constraint,
  which is what `unique_emails` shows.
- `DeletionSticks`: an update that read the row before the deletion hits no row.
- `LogBounded`: the table of the audit log exceeds `LogCap` by the appends whose trim
  is to come or was lost, and no more.
- `AnsweredSurvives`, `RemovalSticks`: as above; a late `UPDATE` hits no removed row.
- `GapsFilledOncePerRequest`: once more for each query of `Survey` that failed.
- `UsageCoversRegister`: from the one reading that found no earlier one on. Two
  readings of one meter may be counted from the same predecessor, so usages may
  count the same water twice, never too little.
- `RegisterSpec`: the same abstract register as with JSON.

`CHECK_DEADLOCK FALSE` in `pg_water`: with all requests sent, the program waits for more.
In `pg_accounts` time and the purge go on.

Why the bounds are enough: the races are between two requests on one account, so
two slots show each pair of handlers in every order; two sessions of one account
are what "all sessions" and equal tokens need; two or three seconds separate
"same second", "expired" and "purged"; one failed save and one restart meet every
step of both requests; a second failed save is what lets a later one fail too. The
bounds are `MaxUsers`, `MaxSessions`, `MaxTime`, `MaxFailures` and `MaxCrashes`, all in
guards; a request that would exceed the first two is not started; `MaxRows` bounds the ids of the water database in the same
way. `fills` needs three rows after the sample to fill a gap once more than there are
requests; `water` needs one row to read, one to create and one more. Without a stop the
file decides nothing, so `fills` compares states by `FillView`, which leaves it out. The
PostgreSQL runs count requests (`MaxRequests`) and faults (`MaxFaults`) instead of
rows: three requests are two that race and one that sees the result, and one fault is
enough to separate what ran from what was answered. `Week`, `MeanWindow`, `Lookback` and
`Freshness` are days, made small. `FailLimit`, `TTL`, `PurgeAge`, `LogCap`, `Max` and
`Window` are constants of the code, made small.

Fairness (`FairSpec`, used by `sessions` only): a handler that has started runs to
its answer, since Go schedules every goroutine; the ticker keeps firing; time
passes. No request has to be sent, no save has to fail, no process has to stop.
`sessions` has neither failed saves nor restarts, because after those the code
gives no such guarantee. It has no symmetry either, which liveness would not allow.

Each property of a passing run has a mutant: an operator next to the original,
changed as a plausible bug would, under which the property fails.

### What the documentation says and the code does not do

- README section 3, "logout / password change revokes them": a logout revokes one
  row of a token that two rows share (`logout_finality`), and a login that
  verified the old password opens its session after the change revoked the others
  (`password_race`).
- "Failed login attempts are tracked per user; 5 failures lock the account": over
  PostgreSQL overlapping failed logins write the same count, so an account locks later
  than the limit says (`pg_lock`).
- `GetUserByEmail` "returns the user with the given email" and `ErrEmailExists`: an
  update may give one email to two accounts (`unique_emails`).

What the PostgreSQL models show, where the documentation says nothing as exact:

- a lost update undoes a password change that was answered with 200 (`overlapped`);
- the seed clears the data and always fails;
- a failed query at the start makes a second administrator beside existing accounts.

## 4. Proofs

All theorems are about the specifications as they stand, for every value of the
constants, with the assumptions `StoreAssumption`, `FlowAssumption`,
`SampleAssumption` and `LimiterAssumption`: markers differ from values, limits are natural numbers, the
accounts in the first file have not used up their failures, the sample data are
sequences of rows, accounts in the first table have different emails, a server has
finitely many requests in flight, `Week` (7) and `Freshness` (7 days) are not zero.
`SampleAssumption` says what the loop under "Compute usage deltas"
(`internal/database/seed.go:209`) establishes: of two sample readings of a meter, the
later one's usage counts from an earlier one, or is zero where the value did not grow.

`AuthFlowProofs!IInv` strengthens the safety invariants with:

- `StoreInv`: the types of the store, that ids are at most the last one given, and
  that the file's ids are too;
- `Slots`: which operation reaches which step, and what its slot holds there;
- `Logs`, `Books`: the types of the audit log and the history;
- `Below`: failure counters below the limit, in memory and in the file. The file is
  needed because a restart copies it back;
- `LogoutInv`: the row a logout in flight has revoked and every row in `left` is
  `Closed`: revoked in memory unless it is in `revived`, and in the file unless it is in
  `dropped`. The file is needed because a restart copies it back, `dropped` because a
  failed save leaves it behind.

Every step preserves `IInv`: the lemmas of `UserStoreProofs` say what a store method
preserves, each action cites them, and one lemma per conjunct collects the
actions. Theorems: `AuthInvariant`, `AuthTypes`, `StaleAreCondemned`,
`DeletionIsFinal`, `LogoutIsFinal`.

`LimiterProofs!IInv` ties each bucket to the requests it let through: its count, the
time it was created, and that two requests Max places apart were let through by
different buckets. `Cleaned` says that no bucket had expired at the last cleanup and
that no reading counted since is more than a `Window` later. Theorems: `LimiterInvariant`, `RateIsBounded`, `CleanupKeepsUp`,
`LimiterTypes`.

`WaterProofs!IInv` strengthens `AnsweredSurvives` and `RemovalSticks` with:

- `MemorySound`, `DiskSound`: the ids of the three tables are apart and were given, in
  memory and in the file, and every invoice is proper (its meter exists and is of its
  site). The file is needed because a start copies it; ids must be apart because
  `kept` and `gone` are sets of ids of all tables;
- `Given`: ids in `kept` and `gone` were given, so a fresh row is in neither;
- `Checked`: the copy a request is about to write is proper, which is what
  `updateInvoice` checked or what it read;
- `Down`: a program that does not run has no request and no invoices in memory.

The argument is one lemma, `WorkKeeps`, about any step that adds and removes rows and
then saves with any outcome; each handler's lemma says which rows those are. A step
that does not save leaves all of it alone. Theorems: `WaterInvariant`,
`InvoicesMatch`, `AnswersSurvive`, `RemovalIsFinal`, and `ImplementsRegister`, where
the step lemmas (`CreateMaps`, `ReplaceMaps`, `RemoveMaps`, `StartMaps`, ...) name the
abstract step each action maps to.

`PgAuthProofs!IInv` is `Types`, `Schema` (`NoOrphans`, `EmailsAreUnique`, `DeletionSticks`),
`StaleSessionsAreCondemned`, `LogBounded` and `Hashes`. The last is what makes
`PasswordSticks` inductive: a request about to write a new password has it in its
copy (`NewHash`); where no updates overlapped, at most one request is between its
`SELECT` and its `UPDATE` (`OneWriter`), and its copy has the hash the row has
(`OldHash`). `StaleSessionsAreCondemned` needs `Hashes` because a late `UPDATE` may
change which password a session is measured by. The other parts of `Schema` are
invariants of single statements. Theorems: `PgAuthInvariant`, `PgAuthTypes`,
`PgPasswordSticks`, `PgStaleSessionsAreCondemned`, `PgNoOrphans`, `PgEmailsAreUnique`,
`PgDeletionSticks`, `PgLogBounded`.

`PgWaterProofs!IInv` is the argument of `WaterProofs` without the file: the three tables
are sound and apart (`TablesSound`), what is to be written is proper (`Checked`), ids in
the history were given (`Given`). One lemma says what a step that adds and removes
rows does to it. Theorems: `PgWaterInvariant`, `PgAnswersSurvive`, `PgRemovalIsFinal`,
`PgImplementsRegister`.

### Readings and fills

`WaterDataProofs` has the lemmas about sums and medians. Both are folds or choices over
finite sets, where induction is not available, so each fact is proved by a least
counterexample: among the subsets for which it fails there is one without a smaller
such subset, and taking one element away contradicts it (`UsagesInt`, `UsagesRemove`,
`UsagesGrow`). `UsagesCover` says that when every reading but one counts from some
earlier one, the usages together cover the distance of each from that one.
`RankTaken` says by counting that every rank up to the number of usages is taken, so
`Median` is defined; `MedianIsMiddle` is its reference definition: at least half of the
usages are no more than it, and at least half no less. `FewerTogether` and
`MovedTogether` bound the sum of two cardinalities when an element leaves one set for
the other.

Over the JSON database (`ReadingProofs`):

- `TypeInv` is `TypeOK` with `Copied`: the invoice a request is about to write has the
  type of an invoice, because it was checked before. `ReadingTypes` says more than its
  name: an estimate is a reading only if the divisions of the means are by no zero and
  the median of the usages exists.
- `EstimatesGoForward` follows from it: whatever rows were deleted, edited or came late,
  a mean not dated before the last reading of its meter is not below it, and a median
  is above it. The exception is real (`internal/database/db.go:477`).
- `ChainInv` is what makes `UsageCoversRegister` inductive. The property relates the first
  and the last reading only, which says nothing of what the next reading counts from.
  `ChainInv` says that each reading of a meter but the first counts from some earlier
  one, unless the meter is in `edited` (a reading of it was changed or removed by hand);
  in memory and in the file, since a restart copies the file back.
- `GapInv` makes `GapsFilledOncePerRequest` inductive: for a meter and a day, the
  estimates that bulk fills inserted and the requests that still aim at them are
  together no more than the slots. A request aims at a gap as soon as it saw the meter
  stale, and no request sees it stale once an estimate is there, since `Freshness` is
  not zero; the readings in the file have the same bound without the requests, which a stop ends.

Over PostgreSQL (`PgWaterProofs`): `TypeInv`; `RootInv`, where `Rooted` says that each
reading of an unedited meter is a root or counts from another of its meter, and
`InFlight` that a row about to be inserted, whose request found an earlier reading,
counts from one that is still there; and `GapInv` with the number of faults beside
the slots, because a failed query of the last reading times makes a filled meter
look stale. Theorems: `PgReadingTypes`, `PgEstimatesGoForward`,
`PgUsagesCoverRegister`, `PgGapsFilled`.

Every safety invariant that a passing run checks is stated by a theorem, and so is the
refinement of `InvoiceRegister` by both databases. Only model-checked: the two liveness
properties `StaleSessionsDie` and `ExpiredSessionsGo` (fairness and ENABLED are outside
the proof system), and that the properties can fail at all, which the mutants show.

## 5. Not modelled, and the plan

In this order:

1. Guards of the data routes: who may read, enter and administer data. The two water
   flows take every request as admitted.
2. Audit entries of the data handlers; which entries survive the cap.
3. Edits together with medians.

Not modelled, for a reason that will not change: password resets of both stores (no
handler calls `CreatePasswordReset` or `ConsumePasswordReset`, so their race in
PostgreSQL is in no reachable state); `UpsertMeter` and the success of the batch
insertions, which the program cannot reach; how PostgreSQL infers the type of a
parameter (`NULLIF($2, 0)` in `UpdateReading` makes it an integer, which a fractional
edit would fail); dead connections in the pool, beyond `lost` and `refused`.

Never: dashboards, KPIs, search and reports (read-only aggregation),
configuration, web pages, the packages no program imports, cryptography, HTTP.
