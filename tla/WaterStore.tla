------------------------------ MODULE WaterStore ------------------------------
(***************************************************************************)
(* The JSON water database (internal/database/db.go, median.go): readings, *)
(* tonnes, invoices and preferences in memory, mirrored in water.json.     *)
(* A method holds the lock from its first read to the end of its Save, so  *)
(* it is one step, whose parameter out tells what became of the file:      *)
(* written, left alone, or torn, because Save truncates it in place.       *)
(***************************************************************************)
EXTENDS WaterData

CONSTANTS
  Sample,         \* seedSampleReadings: readings and tonnes
  SampleTonnes,
  MaxRows,        \* bound: ids given
  MaxFailures     \* bound: failed saves

VARIABLES
  readings,       \* db.Readings: id -> reading
  tonnes,         \* db.Tonnes: id -> entry
  invoices,       \* db.Invoices: id -> invoice
  autoFill,       \* db.Preferences.AutoFillEnabled
  lastId,         \* the last id given to a row of any table
  disk,           \* what water.json holds
  failures        \* failed saves so far

memory == <<readings, tonnes, invoices, autoFill>>
storeVars == <<memory, lastId, disk, failures>>

\* A file that is missing or torn has nothing to read.
Blank == [readings |-> Empty, tonnes |-> Empty, invoices |-> Empty, autoFill |-> FALSE]
Outcomes == {"written", "left", "torn"}

ASSUME StoreAssumption ==
  /\ Meters \subseteq Nat /\ Stranger \in Nat \ Meters /\ Active \subseteq Meters
  /\ SiteOf \in [Meters -> Sites]
  /\ Keep \notin Meters /\ Keep \notin Sites /\ Keep \notin Amounts /\ Keep \notin Nat
  /\ Sample \in Seq(Reading) /\ SampleTonnes \in Seq(Entry)
  /\ Week \in Nat \ {0} /\ MeanWindow \in Nat /\ Lookback \in Nat

\* seedSampleReadings computes every usage from the reading before, or leaves
\* zero where the value does not grow.
ASSUME SampleAssumption ==
  \A i, j \in DOMAIN Sample :
    i < j /\ Sample[i].meter = Sample[j].meter =>
      \E p \in DOMAIN Sample : Covers(Sample, p, j)

-----------------------------------------------------------------------------
(* Rows.                                                                   *)

Of(m) == {i \in DOMAIN readings : readings[i].meter = m}

-----------------------------------------------------------------------------
(* Save(): os.WriteFile truncates water.json and then writes it.           *)
Save(out) ==
  /\ out = "written" \/ failures < MaxFailures
  /\ failures' = IF out = "written" THEN failures ELSE failures + 1
  /\ disk' = CASE out = "written" -> [state |-> "whole", image |->
                    [readings |-> readings', tonnes |-> tonnes',
                     invoices |-> invoices', autoFill |-> autoFill']]
               [] out = "torn" -> [state |-> "torn", image |-> Blank]
               [] OTHER -> disk

\* The id of the next row.
Fresh == lastId + 1
RoomFor(n) == lastId + n <= MaxRows

\* Mutant of Metered: the last reading of any meter is taken.
MeteredByAny(row) ==
  LET before == {i \in Latest(DOMAIN readings) :
                   readings[i].value > 0 /\ row.value > readings[i].value}
  IN [row EXCEPT !.usage = IF before = {} THEN @
                           ELSE row.value - readings[CHOOSE i \in before : TRUE].value]

\* Usage is the distance to the meter's last appended reading, if that is
\* positive and below; otherwise the usage the caller computed stays.
Metered(row) ==
  LET before == {i \in Latest(Of(row.meter)) :
                   readings[i].value > 0 /\ row.value > readings[i].value}
  IN [row EXCEPT !.usage = IF before = {} THEN @
                           ELSE row.value - readings[CHOOSE i \in before : TRUE].value]

AddReading(row, out) ==
  /\ RoomFor(1) /\ lastId' = Fresh
  /\ readings' = Put(readings, Fresh, Metered(row))
  /\ UNCHANGED <<tonnes, invoices, autoFill>>
  /\ Save(out)

\* Fields that are zero in the update stay; IsEstimated is always overwritten.
Edited(row, update) ==
  [row EXCEPT !.value = IF update.value = 0 THEN @ ELSE update.value,
              !.usage = IF update.usage = 0 THEN @ ELSE update.usage,
              !.date  = IF update.date = Keep THEN @ ELSE update.date,
              !.est   = FALSE]

UpdateReading(id, update, out) ==
  /\ id \in DOMAIN readings
  /\ readings' = [readings EXCEPT ![id] = Edited(@, update)]
  /\ UNCHANGED <<tonnes, invoices, autoFill, lastId>>
  /\ Save(out)

DeleteReading(id, out) ==
  /\ id \in DOMAIN readings
  /\ readings' = Without(readings, {id})
  /\ UNCHANGED <<tonnes, invoices, autoFill, lastId>>
  /\ Save(out)

\* Mutant of AddTonnes: the entry is not saved.
AddTonnesUnsaved(entry, out) ==
  /\ RoomFor(1) /\ lastId' = Fresh
  /\ tonnes' = Put(tonnes, Fresh, entry)
  /\ out = "written"
  /\ UNCHANGED <<readings, invoices, autoFill, disk, failures>>

AddTonnes(entry, out) ==
  /\ RoomFor(1) /\ lastId' = Fresh
  /\ tonnes' = Put(tonnes, Fresh, entry)
  /\ UNCHANGED <<readings, invoices, autoFill>>
  /\ Save(out)

UpdateTonnes(id, site, amount, out) ==
  /\ id \in DOMAIN tonnes
  /\ tonnes' = [tonnes EXCEPT ![id].site = IF site = Keep THEN @ ELSE site,
                              ![id].tonnes = IF amount \in {Keep, 0} THEN @ ELSE amount]
  /\ UNCHANGED <<readings, invoices, autoFill, lastId>>
  /\ Save(out)

DeleteTonnes(id, out) ==
  /\ id \in DOMAIN tonnes
  /\ tonnes' = Without(tonnes, {id})
  /\ UNCHANGED <<readings, invoices, autoFill, lastId>>
  /\ Save(out)

AddInvoice(invoice, out) ==
  /\ RoomFor(1) /\ lastId' = Fresh
  /\ invoices' = Put(invoices, Fresh, invoice)
  /\ UNCHANGED <<readings, tonnes, autoFill>>
  /\ Save(out)

\* Mutant of UpdateInvoice: one field is forgotten.
UpdateInvoiceSiteless(id, invoice, out) ==
  /\ id \in DOMAIN invoices
  /\ invoices' = [invoices EXCEPT ![id].meter = invoice.meter, ![id].amount = invoice.amount]
  /\ UNCHANGED <<readings, tonnes, autoFill, lastId>>
  /\ Save(out)

\* Mutant of UpdateInvoice: a row that is not there is inserted.
UpsertInvoice(id, invoice, out) ==
  /\ invoices' = Put(invoices, id, invoice)
  /\ UNCHANGED <<readings, tonnes, autoFill, lastId>>
  /\ Save(out)

\* The whole row is replaced, but for who created it.
UpdateInvoice(id, invoice, out) ==
  /\ id \in DOMAIN invoices
  /\ invoices' = [invoices EXCEPT ![id] = [invoice EXCEPT !.createdBy = invoices[id].createdBy]]
  /\ UNCHANGED <<readings, tonnes, autoFill, lastId>>
  /\ Save(out)

DeleteInvoice(id, out) ==
  /\ id \in DOMAIN invoices
  /\ invoices' = Without(invoices, {id})
  /\ UNCHANGED <<readings, tonnes, autoFill, lastId>>
  /\ Save(out)

UpdatePreferences(enabled, out) ==
  /\ autoFill' = enabled
  /\ UNCHANGED <<readings, tonnes, invoices, lastId>>
  /\ Save(out)

ClearData(out) ==
  /\ readings' = Empty /\ tonnes' = Empty
  /\ UNCHANGED <<invoices, autoFill, lastId>>
  /\ Save(out)

SampleIds == Fresh..(lastId + Len(Sample) + Len(SampleTonnes))

\* seedSampleReadings replaces the tonnes as well.
SeedSampleData(out) ==
  /\ RoomFor(Len(Sample) + Len(SampleTonnes))
  /\ lastId' = lastId + Len(Sample) + Len(SampleTonnes)
  /\ readings' = Listed(Sample, lastId)
  /\ tonnes' = Listed(SampleTonnes, lastId + Len(Sample))
  /\ UNCHANGED <<invoices, autoFill>>
  /\ Save(out)

-----------------------------------------------------------------------------
(* Estimates: a reading, or none.                                          *)

\* AutoFillMissingData: the mean of the usages, for the days passed.
AutoFillMissingData(m, target) ==
  LET recent == {i \in Of(m) : readings[i].date > target - MeanWindow /\ readings[i].usage > 0}
      Since(i) == (Usages(readings, recent) * (target - readings[i].date))
                    \div (Week * Cardinality(recent))
  IN {Estimate(m, readings[i].value + Since(i), Since(i), target) :
        i \in IF recent = {} THEN {} ELSE Latest(Of(m))}

\* MedianFillMissingData: earlier estimates are left out of the median.
MedianFillMissingData(m, target) ==
  LET recent == {i \in Of(m) : /\ readings[i].date > target - Lookback
                               /\ readings[i].usage > 0 /\ ~readings[i].est}
      middle == Median([i \in recent |-> readings[i].usage])
  IN {Estimate(m, readings[i].value + middle, middle, target) :
        i \in IF recent = {} THEN {} ELSE Latest(Of(m))}

-----------------------------------------------------------------------------
(* Open() and the Save that main calls next: the file is read back, or the *)
(* sample data are used where there is none; a torn file does not parse,   *)
(* and the program does not start.                                         *)

Reload ==
  \/ /\ disk.state = "whole"
     /\ readings' = disk.image.readings /\ tonnes' = disk.image.tonnes
     /\ invoices' = disk.image.invoices /\ autoFill' = disk.image.autoFill
     /\ UNCHANGED lastId
  \/ /\ disk.state = "missing"
     /\ lastId' = lastId + Len(Sample) + Len(SampleTonnes)
     /\ readings' = Listed(Sample, lastId)
     /\ tonnes' = Listed(SampleTonnes, lastId + Len(Sample))
     /\ invoices' = Empty /\ autoFill' = FALSE

StoreInit ==
  /\ readings = Empty /\ tonnes = Empty /\ invoices = Empty /\ autoFill = FALSE
  /\ lastId = 0
  /\ disk = [state |-> "missing", image |-> Blank]
  /\ failures = 0
=============================================================================
