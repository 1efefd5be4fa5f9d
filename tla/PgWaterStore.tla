----------------------------- MODULE PgWaterStore -----------------------------
(***************************************************************************)
(* The PostgreSQL water database (internal/database/db_postgres.go): the   *)
(* tables readings, tonnes, invoices and preferences.  Save does nothing,  *)
(* for a statement is durable when it returns.  Only ClearData is a        *)
(* transaction, and so one step; AddReading and the estimates are several  *)
(* statements, which the flow puts together.                               *)
(*                                                                         *)
(* The parameter out tells how a statement went: done; lost, when it ran   *)
(* and the caller sees an error; refused, when it did not run.  The table  *)
(* meters is a constant: OpenStoreWithConnection fills it with SeedMeters  *)
(* before anything else, and no handler changes it.                        *)
(***************************************************************************)
EXTENDS WaterData

CONSTANTS
  Archive,        \* the readings of the table at the first start
  MaxFaults       \* bound: errors of the connection

VARIABLES
  readings,       \* id -> reading
  tonnes,         \* id -> entry
  invoices,       \* id -> invoice
  autoFill,       \* preferences.auto_fill_enabled
  lastId,         \* the last id given to a row of any table
  faults          \* errors of the connection so far

tables == <<readings, tonnes, invoices, autoFill, lastId>>
storeVars == <<tables, faults>>

Outs == {"done", "lost", "refused"}

ASSUME StoreAssumption ==
  /\ Meters \subseteq Nat /\ Stranger \in Nat \ Meters /\ Active \subseteq Meters
  /\ SiteOf \in [Meters -> Sites]
  /\ Keep \notin Meters /\ Keep \notin Sites /\ Keep \notin Amounts /\ Keep \notin Nat
  /\ Archive \in Seq(Reading)
  /\ Week \in Nat \ {0} /\ MeanWindow \in Nat /\ Lookback \in Nat

-----------------------------------------------------------------------------
(* The connection.                                                         *)

Fault == faults < MaxFaults /\ faults' = faults + 1

Ran(out) == out # "refused"

\* What may become of a statement.
Outcome(out) == (out = "done" /\ UNCHANGED faults) \/ (out # "done" /\ Fault)

\* A query finds nothing, because there is nothing or because it fails: the
\* store's methods return the same for the two.
Misses(nothing) == (nothing /\ UNCHANGED faults) \/ Fault

-----------------------------------------------------------------------------
(* readings.                                                               *)

Of(m) == {i \in DOMAIN readings : readings[i].meter = m}
Fresh == lastId + 1

\* Mutant of Newest: the last reading of any meter.
NewestOfAll(m) ==
  {i \in DOMAIN readings : \A j \in DOMAIN readings : readings[j].date <= readings[i].date}

\* ORDER BY reading_date DESC LIMIT 1: any of these.
Newest(m) == {i \in Of(m) : \A j \in Of(m) : readings[j].date <= readings[i].date}

\* The usage AddReading computes from the value it selected.
Metered(row, last) ==
  [row EXCEPT !.usage = IF last > 0 /\ row.value > last THEN row.value - last ELSE @]

InsertReading(row, out) ==
  /\ Outcome(out)
  /\ IF Ran(out) THEN readings' = Put(readings, Fresh, row) /\ lastId' = Fresh
                 ELSE UNCHANGED <<readings, lastId>>
  /\ UNCHANGED <<tonnes, invoices, autoFill>>

\* COALESCE(NULLIF($2, 0), value): zero stays what it was.  is_estimated is
\* not among the columns.
Edited(row, update) ==
  [row EXCEPT !.value = IF update.value = 0 THEN @ ELSE update.value,
              !.usage = IF update.usage = 0 THEN @ ELSE update.usage,
              !.date  = IF update.date = Keep THEN @ ELSE update.date]

UpdateReading(id, update, out) ==
  /\ id \in DOMAIN readings /\ Outcome(out)
  /\ readings' = IF Ran(out) THEN [readings EXCEPT ![id] = Edited(@, update)] ELSE readings
  /\ UNCHANGED <<tonnes, invoices, autoFill, lastId>>

DeleteReading(id, out) ==
  /\ id \in DOMAIN readings /\ Outcome(out)
  /\ readings' = IF Ran(out) THEN Without(readings, {id}) ELSE readings
  /\ UNCHANGED <<tonnes, invoices, autoFill, lastId>>

\* The usages both estimates look at; the median leaves out earlier estimates.
Recent(m, since, guessed) ==
  {i \in Of(m) : /\ readings[i].date >= since /\ readings[i].usage > 0
                 /\ guessed \/ ~readings[i].est}

-----------------------------------------------------------------------------
(* tonnes and preferences.                                                 *)

AddTonnes(entry, out) ==
  /\ Outcome(out)
  /\ IF Ran(out) THEN tonnes' = Put(tonnes, Fresh, entry) /\ lastId' = Fresh
                 ELSE UNCHANGED <<tonnes, lastId>>
  /\ UNCHANGED <<readings, invoices, autoFill>>

UpdateTonnes(id, site, amount, out) ==
  /\ id \in DOMAIN tonnes /\ Outcome(out)
  /\ tonnes' = IF Ran(out)
               THEN [tonnes EXCEPT ![id].site = IF site = Keep THEN @ ELSE site,
                                   ![id].tonnes = IF amount \in {Keep, 0} THEN @ ELSE amount]
               ELSE tonnes
  /\ UNCHANGED <<readings, invoices, autoFill, lastId>>

DeleteTonnes(id, out) ==
  /\ id \in DOMAIN tonnes /\ Outcome(out)
  /\ tonnes' = IF Ran(out) THEN Without(tonnes, {id}) ELSE tonnes
  /\ UNCHANGED <<readings, invoices, autoFill, lastId>>

UpdatePreferences(enabled, out) ==
  /\ Outcome(out)
  /\ autoFill' = IF Ran(out) THEN enabled ELSE autoFill
  /\ UNCHANGED <<readings, tonnes, invoices, lastId>>

\* One transaction: both tables, or none.
ClearData(out) ==
  /\ Outcome(out)
  /\ IF Ran(out) THEN readings' = Empty /\ tonnes' = Empty ELSE UNCHANGED <<readings, tonnes>>
  /\ UNCHANGED <<invoices, autoFill, lastId>>

-----------------------------------------------------------------------------
(* invoices.                                                               *)

AddInvoice(invoice, out) ==
  /\ Outcome(out)
  /\ IF Ran(out) THEN invoices' = Put(invoices, Fresh, invoice) /\ lastId' = Fresh
                 ELSE UNCHANGED <<invoices, lastId>>
  /\ UNCHANGED <<readings, tonnes, autoFill>>

\* Mutants of UpdateInvoice: INSERT ... ON CONFLICT DO UPDATE; created_by is
\* among the columns written.
UpsertInvoice(id, invoice, out) ==
  /\ Outcome(out)
  /\ invoices' = IF Ran(out) THEN Put(invoices, id, invoice) ELSE invoices
  /\ UNCHANGED <<readings, tonnes, autoFill, lastId>>

UpdateInvoiceAndCreator(id, invoice, out) ==
  /\ id \in DOMAIN invoices /\ Outcome(out)
  /\ invoices' = IF Ran(out) THEN [invoices EXCEPT ![id] = [invoice EXCEPT !.createdBy = Keep]]
                             ELSE invoices
  /\ UNCHANGED <<readings, tonnes, autoFill, lastId>>

\* Every column but created_by.
UpdateInvoice(id, invoice, out) ==
  /\ id \in DOMAIN invoices /\ Outcome(out)
  /\ invoices' = IF Ran(out)
                 THEN [invoices EXCEPT ![id] = [invoice EXCEPT !.createdBy = invoices[id].createdBy]]
                 ELSE invoices
  /\ UNCHANGED <<readings, tonnes, autoFill, lastId>>

DeleteInvoice(id, out) ==
  /\ id \in DOMAIN invoices /\ Outcome(out)
  /\ invoices' = IF Ran(out) THEN Without(invoices, {id}) ELSE invoices
  /\ UNCHANGED <<readings, tonnes, autoFill, lastId>>

-----------------------------------------------------------------------------
StoreInit ==
  /\ readings = Archive /\ tonnes = Empty /\ invoices = Empty /\ autoFill = FALSE
  /\ lastId = Len(Archive)
  /\ faults = 0
=============================================================================
