----------------------------- MODULE PgWaterFlow -----------------------------
(***************************************************************************)
(* The handlers of WaterFlow over the PostgreSQL water database.  What is  *)
(* more than one statement is a slot that takes one step per statement (or *)
(* per group of queries about what never changes): adding a reading, the   *)
(* fills, the update of an invoice and the seed.                           *)
(***************************************************************************)
EXTENDS PgWaterStore

CONSTANTS
  Req,            \* slots for requests that take several steps
  Freshness,      \* 7 days: a meter with a later reading is not filled
  Values, Dates,  \* what requests say
  MaxRequests     \* bound: requests sent

VARIABLES
  up,             \* is the program running?
  req,            \* the requests in flight
  sent,           \* requests so far
  (* History, written and never read by the program. *)
  kept,           \* rows whose creation was answered with success, until a
                  \* request removes them
  gone,           \* rows whose removal was answered with 200
  bulk,           \* readings inserted by a bulk fill
  roots,          \* readings inserted with no earlier reading found, and those
                  \* of the archive that no earlier one covers
  edited          \* meters with a reading changed or removed by hand, or
                  \* added from a reading that was cleared meanwhile

answers == <<kept, gone>>
fills == <<bulk, roots, edited>>
vars == <<storeVars, up, req, sent, answers, fills>>

Means == {"autofill", "autofillAll"}
Singles == {"autofill", "median"}
Fills == Singles \cup {"autofillAll", "medianAll"}

None == [meter |-> Stranger, value |-> 0, usage |-> 0, date |-> 0, est |-> TRUE]
NoInvoice == [meter |-> 0, site |-> 0, amount |-> 0, createdBy |-> 0]
Idle == [op |-> "none", at |-> "idle", todo |-> {}, target |-> 0, row |-> None,
         found |-> FALSE, id |-> 0, invoice |-> NoInvoice]

\* todo: the meters still to fill.  target: the date.  row: the reading the
\* estimate starts from, then the one to insert.  found: was it metered from an
\* earlier one?  id, invoice: the row to replace, and what with.
Slot == [op: Fills \cup {"reading", "invoice", "seed", "none"},
         at: {"idle", "survey", "last", "usages", "before", "insert", "replace", "plant"},
         todo: SUBSET MeterIds, target: Nat, row: Reading, found: BOOLEAN,
         id: Nat, invoice: Invoice \cup {NoInvoice}]

ASSUME FlowAssumption ==
  /\ Freshness \in Nat \ {0} /\ Values \subseteq Nat /\ Dates \subseteq Nat /\ IsFiniteSet(Req)

\* A request arrives: one that is a single step, or the first step of a slot.
Arrives == up /\ sent < MaxRequests /\ sent' = sent + 1
Enters(r, slot) ==
  /\ Arrives /\ req[r].at = "idle"
  /\ req' = [req EXCEPT ![r] = slot]

Answer(r) == req' = [req EXCEPT ![r] = Idle]
Goto(r, step) == req' = [req EXCEPT ![r].at = step]

\* What a step says of the rows it added and removed.
Added(ids, out) == kept' = IF out = "done" THEN kept \cup ids ELSE kept
Removed(ids, out) ==
  /\ kept' = IF Ran(out) THEN kept \ ids ELSE kept
  /\ gone' = IF out = "done" THEN gone \cup ids ELSE gone

-----------------------------------------------------------------------------
(* HandleTonnes, HandleTonnesCRUD, HandlePreferences and HandleClearData.  *)

\* Mutant of PostTonnes: the error of the store is dropped.
PostTonnesUnheard(site, amount, out) ==
  /\ Arrives
  /\ AddTonnes([site |-> site, tonnes |-> amount], out)
  /\ Added({Fresh}, "done")
  /\ UNCHANGED <<up, req, gone, fills>>

PostTonnes(site, amount, out) ==
  /\ Arrives
  /\ AddTonnes([site |-> site, tonnes |-> amount], out)
  /\ Added({Fresh}, out)
  /\ UNCHANGED <<up, req, gone, fills>>

EditTonnes(id, site, amount, out) ==
  /\ Arrives
  /\ UpdateTonnes(id, site, amount, out)
  /\ UNCHANGED <<up, req, answers, fills>>

RemoveTonnes(id, out) ==
  /\ Arrives
  /\ DeleteTonnes(id, out)
  /\ Removed({id}, out)
  /\ UNCHANGED <<up, req, fills>>

PutPreferences(enabled, out) ==
  /\ Arrives
  /\ UpdatePreferences(enabled, out)
  /\ UNCHANGED <<up, req, answers, fills>>

\* The meters readings of which are on their way.
Inserting == {req[r].row.meter : r \in {q \in Req : req[q].at = "insert"}}

Cleared(out) ==
  /\ ClearData(out)
  /\ edited' = edited \cup Inserting
  /\ UNCHANGED <<up, bulk, roots>>

Clear(out) ==
  /\ Arrives
  /\ Cleared(out)
  /\ Removed(DOMAIN readings \cup DOMAIN tonnes, out)
  /\ UNCHANGED req

-----------------------------------------------------------------------------
(* HandleSeed: SeedSampleData clears the tables in one transaction and     *)
(* inserts in others.                                                      *)

Seed(r, out) ==
  /\ IF out = "done" THEN Enters(r, [Idle EXCEPT !.op = "seed", !.at = "plant"])
                     ELSE Arrives /\ req[r].at = "idle" /\ UNCHANGED req
  /\ Cleared(out)
  /\ Removed(DOMAIN readings \cup DOMAIN tonnes, IF out = "done" THEN "lost" ELSE out)

\* The sample has readings of meters that SeedMeters does not know (w-m2, w-pro
\* and w-ame): the foreign key refuses them, the batch is rolled back, and the
\* answer is 500 after the data are gone.
Plant(r) ==
  /\ req[r].at = "plant"
  /\ Answer(r)
  /\ UNCHANGED <<storeVars, up, sent, answers, fills>>

-----------------------------------------------------------------------------
(* HandleReadings and HandleReadingsCRUD.                                  *)

\* The meter is checked before AddReading.
PostReading(r, m, v, d) ==
  /\ m \in Meters
  /\ Enters(r, [Idle EXCEPT !.op = "reading", !.at = "before",
                  !.row = [meter |-> m, value |-> v, usage |-> 0, date |-> d, est |-> FALSE]])
  /\ UNCHANGED <<storeVars, up, answers, fills>>

EditReading(id, update, out) ==
  /\ Arrives
  /\ UpdateReading(id, update, out)
  /\ edited' = edited \cup {readings[id].meter}
  /\ UNCHANGED <<up, req, answers, bulk, roots>>

RemoveReading(id, out) ==
  /\ Arrives
  /\ DeleteReading(id, out)
  /\ Removed({id}, out)
  /\ edited' = edited \cup {readings[id].meter}
  /\ UNCHANGED <<up, req, bulk, roots>>

-----------------------------------------------------------------------------
(* AddReading, for a request and for the fills: a SELECT, then an INSERT.  *)

\* A query that fails is taken for a meter without readings.
SelectLast(r) ==
  LET row == req[r].row IN
  /\ req[r].at = "before"
  /\ \/ Misses(Newest(row.meter) = {})
        /\ req' = [req EXCEPT ![r].at = "insert", ![r].found = FALSE]
     \/ /\ UNCHANGED faults
        /\ \E i \in Newest(row.meter) :
             req' = [req EXCEPT ![r].at = "insert", ![r].found = TRUE,
                                ![r].row = Metered(row, readings[i].value)]
  /\ UNCHANGED <<tables, up, sent, answers, fills>>

\* MedianFillAll stops at the first error, HandleAutoFillAll drops it.
Insert(r, out) ==
  LET slot == req[r] IN
  /\ slot.at = "insert"
  /\ InsertReading(slot.row, out)
  /\ IF slot.op \notin Fills \ Singles \/ (slot.op = "medianAll" /\ out # "done")
     THEN Answer(r)
     ELSE req' = [req EXCEPT ![r].at = "last", ![r].row = None, ![r].found = FALSE,
                             ![r].todo = @ \ {slot.row.meter}]
  /\ bulk' = IF Ran(out) /\ slot.op \in Fills \ Singles THEN bulk \cup {Fresh} ELSE bulk
  /\ roots' = IF Ran(out) /\ ~slot.found THEN roots \cup {Fresh} ELSE roots
  /\ Added({Fresh}, out)
  /\ UNCHANGED <<up, sent, gone, edited>>

-----------------------------------------------------------------------------
(* HandleAutoFill, HandleAutoFillAll and HandleMedianFill.                 *)

\* The mean fills begin with the preference; the median fills ignore it.
BeginFill(r, op, m, target) ==
  /\ op \in Means => autoFill
  /\ Enters(r, [Idle EXCEPT !.op = op, !.target = target,
                            !.at = IF op \in Singles THEN "last" ELSE "survey",
                            !.todo = IF op \in Singles THEN {m} ELSE {}])
  /\ UNCHANGED <<storeVars, up, answers, fills>>

\* Mutant of Stale: a reading of the target date does not count.
StaleAtTarget(target) == {m \in Active : \A i \in Of(m) : readings[i].date <= target}

Stale(target) == {m \in Active : \A i \in Of(m) : readings[i].date <= target - Freshness}

\* GetLastReadingTimes and GetMeters.  When the first fails, no meter has a
\* reading; when the second does, there is no meter.
Survey(r, site) ==
  LET AtSite(ms) == {m \in ms : site \in {Keep, SiteOf[m]}}
      Proceed(ms) == req' = [req EXCEPT ![r].at = "last", ![r].todo = ms]
  IN
  /\ req[r].at = "survey"
  /\ \/ UNCHANGED faults /\ Proceed(AtSite(Stale(req[r].target)))
     \/ Fault /\ (Proceed(AtSite(Active)) \/ Proceed({}))
  /\ UNCHANGED <<tables, up, sent, answers, fills>>

\* No estimate: a single fill is refused, and a bulk fill goes on.
Skip(r, m) == req' = [req EXCEPT ![r].at = "last", ![r].row = None, ![r].todo = @ \ {m}]

\* The first query of an estimate; with no meter left the request answers.
FindLast(r) ==
  /\ req[r].at = "last"
  /\ \/ req[r].todo = {} /\ Answer(r) /\ UNCHANGED faults
     \/ \E m \in First(req[r].todo) :
          \/ Misses(Newest(m) = {}) /\ Skip(r, m)
          \/ /\ UNCHANGED faults
             /\ \E i \in Newest(m) :
                  req' = [req EXCEPT ![r].at = "usages", ![r].row = readings[i]]
  /\ UNCHANGED <<tables, up, sent, answers, fills>>

\* AutoFillMissingData: the mean of the usages, for the days passed.
Mean(m, last, target) ==
  LET recent == Recent(m, target - MeanWindow, TRUE)
      passed == (Usages(readings, recent) * (target - last.date))
                  \div (Week * Cardinality(recent))
  IN IF recent = {} THEN {} ELSE {Estimate(m, last.value + passed, passed, target)}

\* MedianFillMissingData.
Middle(m, last, target) ==
  LET recent == Recent(m, target - Lookback, FALSE)
      middle == Median([i \in recent |-> readings[i].usage])
  IN IF recent = {} THEN {} ELSE {Estimate(m, last.value + middle, middle, target)}

\* The other queries of an estimate: the usages, and GetMeter.
FindUsages(r) ==
  LET slot == req[r]
      m == slot.row.meter
      estimates == IF slot.op \in Means THEN Mean(m, slot.row, slot.target)
                                        ELSE Middle(m, slot.row, slot.target)
  IN
  /\ slot.at = "usages"
  /\ \/ Misses(estimates = {}) /\ Skip(r, m)
     \/ /\ UNCHANGED faults
        /\ \E est \in estimates : req' = [req EXCEPT ![r].at = "before", ![r].row = est]
  /\ UNCHANGED <<tables, up, sent, answers, fills>>

-----------------------------------------------------------------------------
(* HandleInvoices and HandleInvoice.                                       *)

CreateInvoice(m, site, amount, actor, out) ==
  /\ Arrives
  /\ m \in Meters /\ SiteOf[m] = site
  /\ AddInvoice([meter |-> m, site |-> site, amount |-> amount, createdBy |-> actor], out)
  /\ Added({Fresh}, out)
  /\ UNCHANGED <<up, req, gone, fills>>

\* The body is merged into the row selected, and checked on that.
ReadInvoice(r, id, patch) ==
  /\ id \in DOMAIN invoices /\ Accepted(invoices[id], patch)
  /\ Enters(r, [Idle EXCEPT !.op = "invoice", !.at = "replace", !.id = id,
                            !.invoice = Merged(invoices[id], patch)])
  /\ UNCHANGED <<storeVars, up, answers, fills>>

ReplaceInvoice(r, out) ==
  /\ req[r].at = "replace"
  /\ \/ UpdateInvoice(req[r].id, req[r].invoice, out)
     \/ req[r].id \notin DOMAIN invoices /\ out = "refused" /\ UNCHANGED storeVars
  /\ Answer(r)
  /\ UNCHANGED <<up, sent, answers, fills>>

RemoveInvoice(id, out) ==
  /\ Arrives
  /\ DeleteInvoice(id, out)
  /\ Removed({id}, out)
  /\ UNCHANGED <<up, req, fills>>

-----------------------------------------------------------------------------
(* The process.                                                            *)

\* A stop, counted as an error: what was in flight is dropped.
Crash ==
  /\ up /\ up' = FALSE
  /\ Fault
  /\ req' = [r \in Req |-> Idle]
  /\ UNCHANGED <<tables, sent, answers, fills>>

\* OpenPostgres and SeedMetersIfEmpty: the tables are there.
Start ==
  /\ ~up /\ up' = TRUE
  /\ UNCHANGED <<storeVars, req, sent, answers, fills>>

Init ==
  /\ StoreInit
  /\ up = FALSE /\ sent = 0
  /\ req = [r \in Req |-> Idle]
  /\ kept = {} /\ gone = {} /\ bulk = {} /\ edited = {}
  /\ roots = {i \in DOMAIN Archive : \A p \in DOMAIN Archive : ~Covers(Archive, p, i)}

ReadingNext(out) ==
  \/ \E id \in DOMAIN readings, v \in Values, u \in Values, d \in Dates \cup {Keep} :
       EditReading(id, [value |-> v, usage |-> u, date |-> d], out)
  \/ \E id \in DOMAIN readings : RemoveReading(id, out)
  \/ \E r \in Req : Insert(r, out)

TonnesNext(out) ==
  \/ \E site \in Sites, amount \in Amounts : PostTonnes(site, amount, out)
  \/ \E id \in DOMAIN tonnes, site \in Sites \cup {Keep}, amount \in Amounts \cup {Keep} :
       EditTonnes(id, site, amount, out)
  \/ \E id \in DOMAIN tonnes : RemoveTonnes(id, out)

InvoiceNext(out) ==
  \/ \E m \in MeterIds, site \in Sites, amount \in Amounts, actor \in Actors :
       CreateInvoice(m, site, amount, actor, out)
  \/ \E id \in DOMAIN invoices : RemoveInvoice(id, out)
  \/ \E r \in Req : ReplaceInvoice(r, out)

DataNext(out) ==
  \/ \E enabled \in BOOLEAN : PutPreferences(enabled, out)
  \/ Clear(out)
  \/ \E r \in Req : Seed(r, out)

SlotNext(r) ==
  \/ \E m \in Meters, v \in Values, d \in Dates : PostReading(r, m, v, d)
  \/ \E id \in DOMAIN invoices, patch \in InvoicePatch : ReadInvoice(r, id, patch)
  \/ \E op \in Fills, m \in MeterIds, d \in Dates : BeginFill(r, op, m, d)
  \/ \E site \in Sites \cup {Keep} : Survey(r, site)
  \/ Plant(r) \/ SelectLast(r) \/ FindLast(r) \/ FindUsages(r)

Next ==
  \/ \E out \in Outs : ReadingNext(out) \/ TonnesNext(out) \/ InvoiceNext(out) \/ DataNext(out)
  \/ \E r \in Req : SlotNext(r)
  \/ Crash
  \/ Start

Spec == Init /\ [][Next]_vars

-----------------------------------------------------------------------------
(* Properties.                                                             *)

\* Every variable has its type, ids are below the last one given, and only a
\* running program has requests in flight.
IsTable(table, row) == table \in [DOMAIN table -> row] /\ DOMAIN table \subseteq 1..lastId

TypeOK ==
  /\ lastId \in Nat /\ faults \in Nat /\ sent \in Nat
  /\ up \in BOOLEAN /\ autoFill \in BOOLEAN
  /\ IsTable(readings, Reading) /\ IsTable(tonnes, Entry) /\ IsTable(invoices, Invoice)
  /\ req \in [Req -> Slot]
  /\ ~up => req = [r \in Req |-> Idle]
  /\ kept \subseteq 1..lastId /\ gone \subseteq 1..lastId
  /\ bulk \subseteq 1..lastId /\ roots \subseteq 1..lastId
  /\ edited \subseteq MeterIds

InTables == DOMAIN readings \cup DOMAIN tonnes \cup DOMAIN invoices

\* A row whose creation was answered with success is there until a request
\* removes it, whatever errors and stops come in between.
AnsweredSurvives == kept \subseteq InTables

\* A row whose removal was answered with success never comes back, though an
\* invoice may have been read before it was removed and be written after.
RemovalSticks == gone \cap InTables = {}

\* Bulk fills check freshness in one query and insert much later: the same gap
\* may be filled once by each request in flight, and once more by each request
\* whose query failed, for it takes every meter for a stale one.
GapsFilledOncePerRequest ==
  \A m \in Meters \ edited, d \in Dates :
    Cardinality({i \in bulk \cap Of(m) : readings[i].date = d}) <= Cardinality(Req) + faults

\* AddReading takes the usage from a value it selected before, so usages may
\* count the same water twice, but never too little: the usages recorded for a
\* meter whose register only counts up cover all it counted since the one
\* reading that found no earlier one.
UsageCoversRegister ==
  \A m \in Meters \ edited :
    (\A i \in Of(m) : readings[i].value > 0 /\ readings[i].usage >= 0) =>
      \A i \in Of(m), j \in Of(m) :
        Of(m) \cap roots = {i} =>
          readings[j].value - readings[i].value <= Usages(readings, Of(m))

\* The invoices of the flow implement the abstract register: the same one as
\* with the JSON database.
Register == INSTANCE InvoiceRegister WITH
  open <- up, book <- IF up THEN invoices ELSE Empty, copies <- {invoices}

RegisterSpec == Register!Spec
=============================================================================
