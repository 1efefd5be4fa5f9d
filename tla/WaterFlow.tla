------------------------------- MODULE WaterFlow -------------------------------
(***************************************************************************)
(* The HTTP handlers over the water database (internal/api/handlers.go and *)
(* the data half of admin_handlers.go), starts and stops included.  A      *)
(* handler that makes one store call, or whose earlier calls only read     *)
(* what never changes or choose between two refusals, is one step.  The    *)
(* fills and the update of an invoice compute on a copy: each is a slot    *)
(* that takes a step per store call, and other requests run in between.    *)
(***************************************************************************)
EXTENDS WaterStore

CONSTANTS
  Req,            \* slots for requests that take several steps
  Freshness,      \* 7 days: a meter with a later reading is not filled
  Requests,       \* the kinds of request clients send
  Values, Dates,  \* what they say
  MaxCrashes      \* bound

VARIABLES
  up,             \* is the program running?
  req,            \* the requests in flight
  crashes,        \* restarts so far
  (* History, written and never read by the program. *)
  kept,           \* rows whose creation was answered 201 (or 200 by a seed or
                  \* a fill that saved), until a request removes them
  gone,           \* rows whose removal was answered with 200
  bulk,           \* readings inserted by a bulk fill
  edited          \* meters with a reading changed or removed by hand

history == <<kept, gone, bulk, edited>>
vars == <<storeVars, up, req, crashes, history>>

Means == {"autofill", "autofillAll"}
Medians == {"median", "medianAll"}
Singles == {"autofill", "median"}
Fills == Means \cup Medians

None == [meter |-> Stranger, value |-> 0, usage |-> 0, date |-> 0, est |-> TRUE]
NoInvoice == [meter |-> 0, site |-> 0, amount |-> 0, createdBy |-> 0]
Idle == [op |-> "none", at |-> "idle", todo |-> {}, target |-> 0, est |-> None,
         id |-> 0, invoice |-> NoInvoice]

\* todo: the meters still to fill.  target: the date.  est: the estimate made.
\* id, invoice: the row to replace, and what with.
Slot == [op: Fills \cup {"invoice", "none"},
         at: {"idle", "survey", "estimate", "insert", "replace"},
         todo: SUBSET MeterIds, target: Nat, est: Reading,
         id: Nat, invoice: Invoice \cup {NoInvoice}]

ASSUME FlowAssumption ==
  /\ Freshness \in Nat \ {0} /\ Values \subseteq Nat /\ Dates \subseteq Nat
  /\ IsFiniteSet(Req)

Sends(kind) == up /\ kind \in Requests
Answer(r) == req' = [req EXCEPT ![r] = Idle]
Proceed(r, slot) == req' = [req EXCEPT ![r] = slot]

\* What a step says of the rows it added and removed.
Added(ids, out) == kept' = IF out = "written" THEN kept \cup ids ELSE kept
Removed(ids, out) ==
  /\ kept' = kept \ ids
  /\ gone' = IF out = "written" THEN gone \cup ids ELSE gone

-----------------------------------------------------------------------------
(* HandleReadings, HandleTonnes, HandlePreferences, HandleClearData and    *)
(* HandleSeed.                                                             *)

PostReading(m, v, d, out) ==
  /\ Sends("reading") /\ m \in Meters
  /\ AddReading([meter |-> m, value |-> v, usage |-> 0, date |-> d, est |-> FALSE], out)
  /\ Added({Fresh}, out)
  /\ UNCHANGED <<up, req, crashes, gone, bulk, edited>>

PostTonnes(site, amount, out) ==
  /\ Sends("tonnes")
  /\ AddTonnes([site |-> site, tonnes |-> amount], out)
  /\ Added({Fresh}, out)
  /\ UNCHANGED <<up, req, crashes, gone, bulk, edited>>

PutPreferences(enabled, out) ==
  /\ Sends("preferences")
  /\ UpdatePreferences(enabled, out)
  /\ UNCHANGED <<up, req, crashes, history>>

Clear(out) ==
  /\ Sends("clear")
  /\ ClearData(out)
  /\ Removed(DOMAIN readings \cup DOMAIN tonnes, out)
  /\ UNCHANGED <<up, req, crashes, bulk, edited>>

Seed(out) ==
  /\ Sends("seed")
  /\ SeedSampleData(out)
  /\ LET replaced == DOMAIN readings \cup DOMAIN tonnes IN
       IF out = "written"
       THEN kept' = (kept \ replaced) \cup SampleIds /\ gone' = gone \cup replaced
       ELSE kept' = kept \ replaced /\ UNCHANGED gone
  /\ UNCHANGED <<up, req, crashes, bulk, edited>>

-----------------------------------------------------------------------------
(* HandleReadingsCRUD and HandleTonnesCRUD: the row is looked up first,    *)
(* which only decides between 404 and 500.                                 *)

EditReading(id, update, out) ==
  /\ Sends("editReading")
  /\ UpdateReading(id, update, out)
  /\ edited' = edited \cup {readings[id].meter}
  /\ UNCHANGED <<up, req, crashes, kept, gone, bulk>>

RemoveReading(id, out) ==
  /\ Sends("deleteReading")
  /\ DeleteReading(id, out)
  /\ Removed({id}, out)
  /\ edited' = edited \cup {readings[id].meter}
  /\ UNCHANGED <<up, req, crashes, bulk>>

EditTonnes(id, site, amount, out) ==
  /\ Sends("editTonnes")
  /\ UpdateTonnes(id, site, amount, out)
  /\ UNCHANGED <<up, req, crashes, history>>

RemoveTonnes(id, out) ==
  /\ Sends("deleteTonnes")
  /\ DeleteTonnes(id, out)
  /\ Removed({id}, out)
  /\ UNCHANGED <<up, req, crashes, bulk, edited>>

-----------------------------------------------------------------------------
(* HandleInvoices and HandleInvoice.                                       *)

CreateInvoice(m, site, amount, actor, out) ==
  /\ Sends("createInvoice")
  /\ m \in Meters /\ SiteOf[m] = site
  /\ AddInvoice([meter |-> m, site |-> site, amount |-> amount, createdBy |-> actor], out)
  /\ Added({Fresh}, out)
  /\ UNCHANGED <<up, req, crashes, gone, bulk, edited>>

\* GetInvoice returns a copy: the body is merged into it and checked on it.
ReadInvoice(r, id, patch) ==
  /\ Sends("editInvoice") /\ req[r].at = "idle"
  /\ id \in DOMAIN invoices /\ Accepted(invoices[id], patch)
  /\ Proceed(r, [Idle EXCEPT !.op = "invoice", !.at = "replace", !.id = id,
                             !.invoice = Merged(invoices[id], patch)])
  /\ UNCHANGED <<storeVars, up, crashes, history>>

ReplaceInvoice(r, out) ==
  /\ req[r].at = "replace"
  /\ \/ UpdateInvoice(req[r].id, req[r].invoice, out)
     \/ req[r].id \notin DOMAIN invoices /\ out = "left" /\ UNCHANGED storeVars
  /\ Answer(r)
  /\ UNCHANGED <<up, crashes, history>>

RemoveInvoice(id, out) ==
  /\ Sends("deleteInvoice")
  /\ DeleteInvoice(id, out)
  /\ Removed({id}, out)
  /\ UNCHANGED <<up, req, crashes, bulk, edited>>

-----------------------------------------------------------------------------
(* HandleAutoFill, HandleAutoFillAll and HandleMedianFill.                 *)

\* The mean fills begin with the preference; the median fills ignore it.
BeginFill(r, op, m, target) ==
  /\ Sends(op) /\ req[r].at = "idle"
  /\ op \in Means => autoFill
  /\ Proceed(r, [Idle EXCEPT !.op = op, !.target = target,
                             !.at = IF op \in Singles THEN "estimate" ELSE "survey",
                             !.todo = IF op \in Singles THEN {m} ELSE {}])
  /\ UNCHANGED <<storeVars, up, crashes, history>>

\* Mutant of Stale: a reading of the target date does not count.
StaleAtTarget(site, target) ==
  {m \in Active : /\ site \in {Keep, SiteOf[m]}
                  /\ \A i \in Of(m) : readings[i].date <= target}

\* GetLastReadingTimes: active meters, of one site or all, with no late reading.
Stale(site, target) ==
  {m \in Active : /\ site \in {Keep, SiteOf[m]}
                  /\ \A i \in Of(m) : readings[i].date <= target - Freshness}

Survey(r, site) ==
  /\ req[r].at = "survey"
  /\ req' = [req EXCEPT ![r].at = "estimate", ![r].todo = Stale(site, req[r].target)]
  /\ UNCHANGED <<storeVars, up, crashes, history>>

\* One meter's estimate: without one a single fill is refused and a bulk
\* fill goes on; with no meter left it answers.
EstimateNext(r) ==
  LET slot == req[r]
      Estimates(m) == IF slot.op \in Means THEN AutoFillMissingData(m, slot.target)
                                           ELSE MedianFillMissingData(m, slot.target)
  IN
  /\ slot.at = "estimate"
  /\ \/ slot.todo = {} /\ Answer(r)
     \/ \E m \in First(slot.todo) :
          \/ Estimates(m) = {} /\ req' = [req EXCEPT ![r].todo = @ \ {m}]
          \/ \E est \in Estimates(m) : req' = [req EXCEPT ![r].at = "insert", ![r].est = est]
  /\ UNCHANGED <<storeVars, up, crashes, history>>

\* MedianFillAll stops at the first error, HandleAutoFillAll drops it.
InsertEstimate(r, out) ==
  LET slot == req[r] IN
  /\ slot.at = "insert"
  /\ AddReading(slot.est, out)
  /\ IF slot.op \in Singles \/ (slot.op = "medianAll" /\ out # "written")
     THEN Answer(r)
     ELSE req' = [req EXCEPT ![r].at = "estimate", ![r].est = None,
                             ![r].todo = @ \ {slot.est.meter}]
  /\ bulk' = IF slot.op \in Singles THEN bulk ELSE bulk \cup {Fresh}
  /\ Added({Fresh}, out)
  /\ UNCHANGED <<up, crashes, gone, edited>>

-----------------------------------------------------------------------------
(* The process.                                                            *)

\* It stops between two steps, or in the middle of a Save.
Crash(torn) ==
  /\ up /\ crashes < MaxCrashes
  /\ up' = FALSE /\ crashes' = crashes + 1
  /\ req' = [r \in Req |-> Idle]
  /\ readings' = Empty /\ tonnes' = Empty /\ invoices' = Empty /\ autoFill' = FALSE
  /\ disk' = IF torn THEN [state |-> "torn", image |-> Blank] ELSE disk
  /\ UNCHANGED <<lastId, failures, history>>

\* main only logs a failure of its Save.
Start(out) ==
  /\ ~up /\ up' = TRUE
  /\ Reload /\ Save(out)
  /\ UNCHANGED <<req, crashes, history>>

Init ==
  /\ StoreInit
  /\ up = FALSE /\ crashes = 0
  /\ req = [r \in Req |-> Idle]
  /\ kept = {} /\ gone = {} /\ bulk = {} /\ edited = {}

ReadingNext(out) ==
  \/ \E m \in Meters, v \in Values, d \in Dates : PostReading(m, v, d, out)
  \/ \E id \in DOMAIN readings, v \in Values, u \in Values, d \in Dates \cup {Keep} :
       EditReading(id, [value |-> v, usage |-> u, date |-> d], out)
  \/ \E id \in DOMAIN readings : RemoveReading(id, out)

TonnesNext(out) ==
  \/ \E site \in Sites, amount \in Amounts : PostTonnes(site, amount, out)
  \/ \E id \in DOMAIN tonnes, site \in Sites \cup {Keep}, amount \in Amounts \cup {Keep} :
       EditTonnes(id, site, amount, out)
  \/ \E id \in DOMAIN tonnes : RemoveTonnes(id, out)

InvoiceNext(out) ==
  \/ \E m \in MeterIds, site \in Sites, amount \in Amounts, actor \in Actors :
       CreateInvoice(m, site, amount, actor, out)
  \/ \E id \in DOMAIN invoices : RemoveInvoice(id, out)
  \/ \E r \in Req : ReplaceInvoice(r, out)

DataNext(out) ==
  \/ \E enabled \in BOOLEAN : PutPreferences(enabled, out)
  \/ Clear(out)
  \/ Seed(out)
  \/ \E r \in Req : InsertEstimate(r, out)

Next ==
  \/ \E out \in Outcomes :
       ReadingNext(out) \/ TonnesNext(out) \/ InvoiceNext(out) \/ DataNext(out)
  \/ \E r \in Req :
       \/ \E id \in DOMAIN invoices, patch \in InvoicePatch : ReadInvoice(r, id, patch)
       \/ \E op \in Fills, m \in MeterIds, d \in Dates : BeginFill(r, op, m, d)
       \/ \E site \in Sites \cup {Keep} : Survey(r, site)
       \/ EstimateNext(r)
  \/ \E torn \in BOOLEAN : Crash(torn)
  \/ \E out \in Outcomes : Start(out)

Spec == Init /\ [][Next]_vars

-----------------------------------------------------------------------------
(* Properties.                                                             *)

\* Every variable has its type, ids are below the last one given, and only a
\* running program has requests in flight.
IsTable(table, row) == table \in [DOMAIN table -> row] /\ DOMAIN table \subseteq 1..lastId

TypeOK ==
  /\ lastId \in Nat /\ failures \in Nat /\ crashes \in Nat
  /\ up \in BOOLEAN /\ autoFill \in BOOLEAN
  /\ IsTable(readings, Reading) /\ IsTable(tonnes, Entry) /\ IsTable(invoices, Invoice)
  /\ disk.state \in {"missing", "whole", "torn"}
  /\ IsTable(disk.image.readings, Reading) /\ IsTable(disk.image.tonnes, Entry)
  /\ IsTable(disk.image.invoices, Invoice) /\ disk.image.autoFill \in BOOLEAN
  /\ req \in [Req -> Slot]
  /\ ~up => req = [r \in Req |-> Idle]
  /\ kept \subseteq 1..lastId /\ gone \subseteq 1..lastId /\ bulk \subseteq 1..lastId
  /\ edited \subseteq MeterIds

\* createInvoice and updateInvoice: "Verify meter exists and belongs to the
\* specified site".  An update checks a copy and replaces the row later, so the
\* check holds for the row only because the whole row is replaced.
InvoicesMatchSites ==
  \A table \in {invoices, disk.image.invoices} : \A id \in DOMAIN table :
    table[id].site = SiteOf[table[id].meter]

Rows(image) == DOMAIN image.readings \cup DOMAIN image.tonnes \cup DOMAIN image.invoices
InMemory == DOMAIN readings \cup DOMAIN tonnes \cup DOMAIN invoices

\* A row whose creation was answered with success is there until a request
\* removes it, over failed saves and restarts: the program, when it runs, has
\* it, and so has the file, unless a failed or interrupted write tore it.
AnsweredSurvives ==
  /\ up => kept \subseteq InMemory
  /\ disk.state # "torn" => kept \subseteq Rows(disk.image)

\* A row whose removal was answered with success never comes back: not by a
\* restart, not by a request that read it before (README: "irreversible").
RemovalSticks == gone \cap (InMemory \cup Rows(disk.image)) = {}

\* Bulk fills check freshness on a snapshot and insert later, so the same gap
\* may be filled once by each request in flight, and never more often.
GapsFilledOncePerRequest ==
  \A m \in Meters \ edited, d \in Dates :
    Cardinality({i \in bulk \cap Of(m) : readings[i].date = d}) <= Cardinality(Req)

\* However readings and estimates interleave, the usages recorded for a meter
\* whose register only counts up cover all it counted (AddReading).
UsageCoversRegister ==
  \A m \in MeterIds \ edited :
    (\A i \in Of(m) : readings[i].value > 0 /\ readings[i].usage >= 0) =>
      \A i \in First(Of(m)), j \in Latest(Of(m)) :
        readings[j].value - readings[i].value <= Usages(readings, Of(m))

\* The invoices of the flow implement the abstract register.
Register == INSTANCE InvoiceRegister WITH
  open <- up, book <- invoices,
  copies <- IF disk.state = "torn" THEN {} ELSE {disk.image.invoices}

RegisterSpec == Register!Spec
=============================================================================
