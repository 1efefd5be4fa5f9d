----------------------------- MODULE ReadingProofs -----------------------------
(***************************************************************************)
(* The types of the JSON water database and its handlers, which way the    *)
(* estimates go, what the recorded usages cover, and what bulk fills       *)
(* insert: for any number of meters, readings, requests, failed saves and  *)
(* restarts.                                                               *)
(***************************************************************************)
EXTENDS WaterProofs

-----------------------------------------------------------------------------
(* The type invariant.  An update of an invoice writes what it has checked *)
(* before: TypeOK is inductive with this.                                  *)

LEMMA Typed == ASSUME NEW t, NEW row  PROVE IsTable(t, row) <=> Table(t, row, lastId)
BY DEF IsTable, Table

Copied == \A r \in Req : req[r].at = "replace" => req[r].invoice \in Invoice

TypeInv == TypeOK /\ Copied

MemoryTyped ==
  /\ lastId \in Nat /\ autoFill \in BOOLEAN
  /\ Table(readings, Reading, lastId) /\ Table(tonnes, Entry, lastId)
  /\ Table(invoices, Invoice, lastId)

DiskTyped ==
  /\ failures \in Nat /\ disk.state \in {"missing", "whole", "torn"}
  /\ Table(disk.image.readings, Reading, lastId) /\ Table(disk.image.tonnes, Entry, lastId)
  /\ Table(disk.image.invoices, Invoice, lastId) /\ disk.image.autoFill \in BOOLEAN

SlotsTyped == req \in [Req -> Slot] /\ Copied

HistoryTyped ==
  /\ kept \subseteq 1..lastId /\ gone \subseteq 1..lastId /\ bulk \subseteq 1..lastId
  /\ edited \subseteq MeterIds

ProcessTyped ==
  /\ up \in BOOLEAN /\ crashes \in Nat
  /\ ~up => req = [r \in Req |-> Idle]

LEMMA TypeParts ==
  TypeInv <=> MemoryTyped /\ DiskTyped /\ SlotsTyped /\ HistoryTyped /\ ProcessTyped
BY Typed DEF TypeInv, TypeOK, MemoryTyped, DiskTyped, SlotsTyped, HistoryTyped, ProcessTyped

LEMMA BlankTyped ==
  ASSUME NEW n \in Nat
  PROVE  /\ Table(Blank.readings, Reading, n) /\ Table(Blank.tonnes, Entry, n)
         /\ Table(Blank.invoices, Invoice, n) /\ Blank.autoFill \in BOOLEAN
BY EmptyTable DEF Blank

LEMMA SaveTyped ==
  ASSUME NEW out \in Outcomes, Save(out), MemoryTyped, DiskTyped, MemoryTyped', lastId <= lastId'
  PROVE  DiskTyped'
<1>1. failures' \in Nat  BY DEF Save, DiskTyped
<1>2. lastId \in Nat /\ lastId' \in Nat  BY DEF MemoryTyped
<1>3. CASE out = "written"  BY <1>1, <1>3, SaveOutcome DEF MemoryTyped, DiskTyped
<1>4. CASE out = "left"
  <2>1. disk' = disk  BY <1>4, SaveOutcome
  <2> QED  BY <1>1, <1>2, <2>1, TableGrows DEF DiskTyped
<1>5. CASE out = "torn"
  <2>1. disk'.state = "torn" /\ disk'.image = Blank  BY <1>5, SaveOutcome
  <2> QED  BY <1>1, <1>2, <2>1, BlankTyped DEF DiskTyped
<1> QED  BY <1>3, <1>4, <1>5 DEF Outcomes

LEMMA TypePartsNext ==
  TypeInv' <=> MemoryTyped' /\ DiskTyped' /\ SlotsTyped' /\ HistoryTyped' /\ ProcessTyped'
BY DEF IsTable, Table, TypeInv, TypeOK, MemoryTyped, DiskTyped, SlotsTyped, HistoryTyped,
       ProcessTyped, Copied

\* A working step: a Save, and whatever it saves has its type.
LEMMA WorkTyped ==
  ASSUME TypeInv, NEW out \in Outcomes, Save(out), UNCHANGED crashes, up, up',
         MemoryTyped', lastId <= lastId', SlotsTyped', HistoryTyped'
  PROVE  TypeInv'
<1>1. DiskTyped'  BY TypeParts, SaveTyped
<1>2. ProcessTyped'  BY TypeParts DEF ProcessTyped
<1> QED  BY <1>1, <1>2, TypePartsNext

\* A step of a slot alone.
LEMMA SlotTyped ==
  ASSUME TypeInv, up, UNCHANGED <<storeVars, up, crashes, history>>, SlotsTyped'
  PROVE  TypeInv'
<1>1. MemoryTyped'  BY TypeParts DEF MemoryTyped, storeVars, memory
<1>2. DiskTyped'  BY TypeParts DEF DiskTyped, storeVars
<1>3. HistoryTyped'  BY TypeParts DEF HistoryTyped, storeVars, history
<1>4. ProcessTyped'  BY TypeParts DEF ProcessTyped
<1> QED  BY <1>1, <1>2, <1>3, <1>4, TypePartsNext

LEMMA SameSlotsTyped == ASSUME SlotsTyped, UNCHANGED req  PROVE SlotsTyped'
BY DEF SlotsTyped, Copied

LEMMA OneSlotTyped ==
  ASSUME SlotsTyped, NEW r \in Req, NEW s \in Slot, req' = [req EXCEPT ![r] = s],
         s.at = "replace" => s.invoice \in Invoice
  PROVE  SlotsTyped'
BY DEF SlotsTyped, Copied

LEMMA IdleTyped == Idle \in Slot /\ Idle.at = "idle" /\ None \in Reading
<1>1. None \in Reading  BY DEF None, Reading, MeterIds
<1>2. Idle \in Slot  BY <1>1 DEF Idle, Slot, Fills, Means, Medians, NoInvoice
<1> QED  BY <1>1, <1>2 DEF Idle

\* The history after rows of new ids.
LEMMA HistoryGrows ==
  ASSUME HistoryTyped, lastId \in Nat, lastId' \in Nat, lastId <= lastId',
         kept' \subseteq kept \cup ((lastId + 1)..lastId'),
         gone' \subseteq gone \cup 1..lastId',
         bulk' \subseteq bulk \cup ((lastId + 1)..lastId'), edited' \subseteq MeterIds
  PROVE  HistoryTyped'
<1>1. 1..lastId \subseteq 1..lastId' /\ (lastId + 1)..lastId' \subseteq 1..lastId'  OBVIOUS
<1> QED  BY <1>1 DEF HistoryTyped

-----------------------------------------------------------------------------
(* The store's methods.                                                    *)

\* The row inserted is a reading like the one given, but for its usage.
LEMMA MeteredReading ==
  ASSUME TypeInv, NEW row \in Reading
  PROVE  /\ Metered(row) \in Reading
         /\ Metered(row) = [row EXCEPT !.usage = Metered(row).usage]
<1> DEFINE before == {i \in Latest(Of(row.meter)) :
                        readings[i].value > 0 /\ row.value > readings[i].value}
           usage == IF before = {} THEN row.usage
                    ELSE row.value - readings[CHOOSE i \in before : TRUE].value
<1>1. \A i \in before : i \in DOMAIN readings  BY DEF Latest, Of
<1>2. \A i \in DOMAIN readings : readings[i] \in Reading
  BY TypeParts DEF MemoryTyped, Table
<1>3. usage \in Int
  <2>1. CASE before = {}  BY <2>1 DEF Reading
  <2>2. CASE before # {}
    <3> DEFINE i == CHOOSE j \in before : TRUE
    <3>1. i \in before  BY <2>2
    <3>2. readings[i].value \in Int  BY <1>1, <1>2, <3>1 DEF Reading
    <3>3. usage = row.value - readings[i].value  BY <2>2
    <3> HIDE DEF i, usage, before
    <3> QED  BY <3>2, <3>3 DEF Reading
  <2> QED  BY <2>1, <2>2
<1>4. Metered(row) = [row EXCEPT !.usage = usage]  BY DEF Metered
<1> HIDE DEF usage
<1> QED  BY <1>3, <1>4 DEF Reading

LEMMA AddReadingTyped ==
  ASSUME TypeInv, NEW row \in Reading, NEW out, AddReading(row, out)
  PROVE  MemoryTyped' /\ lastId' = lastId + 1 /\ lastId <= lastId' /\ Save(out)
<1>1. lastId \in Nat  BY TypeParts DEF MemoryTyped
<1>2. /\ lastId' = lastId + 1 /\ Save(out) /\ UNCHANGED <<tonnes, invoices, autoFill>>
      /\ readings' = Put(readings, lastId + 1, Metered(row))
  BY DEF AddReading, Fresh
<1>3. lastId + 1 \in Nat /\ lastId <= lastId + 1  BY <1>1
<1>4. Table(readings', Reading, lastId + 1)
  BY <1>1, <1>2, MeteredReading, PutTable, TypeParts DEF MemoryTyped
<1>5. Table(tonnes, Entry, lastId + 1) /\ Table(invoices, Invoice, lastId + 1)
  BY <1>1, <1>3, TableGrows, TypeParts DEF MemoryTyped
<1> QED  BY <1>1, <1>2, <1>3, <1>4, <1>5, TypeParts DEF MemoryTyped

\* Methods that neither add rows nor give ids.
LEMMA ChangeTyped ==
  ASSUME TypeInv, UNCHANGED lastId, autoFill' \in BOOLEAN,
         Table(readings', Reading, lastId), Table(tonnes', Entry, lastId),
         Table(invoices', Invoice, lastId)
  PROVE  MemoryTyped' /\ lastId <= lastId'
BY TypeParts DEF MemoryTyped

LEMMA SameTables ==
  ASSUME TypeInv
  PROVE  /\ lastId \in Nat /\ autoFill \in BOOLEAN
         /\ Table(readings, Reading, lastId) /\ Table(tonnes, Entry, lastId)
         /\ Table(invoices, Invoice, lastId) /\ HistoryTyped /\ SlotsTyped
BY TypeParts DEF MemoryTyped

LEMMA EditedReading ==
  ASSUME FlowAssumption, NEW row \in Reading, NEW v \in Values, NEW u \in Values,
         NEW d \in Dates \cup {Keep}
  PROVE  /\ Edited(row, [value |-> v, usage |-> u, date |-> d]) \in Reading
         /\ Edited(row, [value |-> v, usage |-> u, date |-> d]).meter = row.meter
<1>1. v \in Int /\ u \in Int /\ (d # Keep => d \in Nat)  BY DEF FlowAssumption
<1> DEFINE value == IF v = 0 THEN row.value ELSE v
           usage == IF u = 0 THEN row.usage ELSE u
           date == IF d = Keep THEN row.date ELSE d
<1>2. value \in Int /\ usage \in Int /\ date \in Nat  BY <1>1 DEF Reading
<1>3. Edited(row, [value |-> v, usage |-> u, date |-> d])
        = [row EXCEPT !.value = value, !.usage = usage, !.date = date, !.est = FALSE]
  BY DEF Edited
<1> HIDE DEF value, usage, date
<1> QED  BY <1>2, <1>3 DEF Reading

LEMMA SampleTyped ==
  ASSUME StoreAssumption, NEW n \in Nat
  PROVE  LET k == n + Len(Sample) + Len(SampleTonnes)
         IN /\ k \in Nat /\ n <= k
            /\ Table(Listed(Sample, n), Reading, k)
            /\ Table(Listed(SampleTonnes, n + Len(Sample)), Entry, k)
<1>1. /\ Len(Sample) \in Nat /\ Len(SampleTonnes) \in Nat
      /\ Sample \in Seq(Reading) /\ SampleTonnes \in Seq(Entry)
  BY DEF StoreAssumption
<1> DEFINE k == n + Len(Sample) + Len(SampleTonnes)
<1>2. /\ k \in Nat /\ n <= k /\ n + Len(Sample) <= k /\ n + Len(Sample) \in Nat
      /\ (n + Len(Sample)) + Len(SampleTonnes) <= k
  BY <1>1
<1> HIDE DEF k
<1>3. Table(Listed(Sample, n), Reading, k)  BY <1>1, <1>2, ListedTable
<1>4. Table(Listed(SampleTonnes, n + Len(Sample)), Entry, k)  BY <1>1, <1>2, ListedTable
<1> QED  BY <1>2, <1>3, <1>4 DEF k

-----------------------------------------------------------------------------
(* The handlers of one step.                                               *)

LEMMA PostReadingTyped ==
  ASSUME FlowAssumption, TypeInv, NEW m \in Meters, NEW v \in Values, NEW d \in Dates,
         NEW out \in Outcomes, PostReading(m, v, d, out)
  PROVE  TypeInv'
<1> DEFINE row == [meter |-> m, value |-> v, usage |-> 0, date |-> d, est |-> FALSE]
<1>1. v \in Int /\ d \in Nat /\ m \in MeterIds  BY DEF FlowAssumption, MeterIds
<1>2. row \in Reading  BY <1>1 DEF Reading
<1>3. AddReading(row, out) /\ up /\ up' /\ UNCHANGED <<crashes, req, gone, bulk, edited>>
      /\ kept' \subseteq kept \cup {Fresh}
  BY DEF PostReading, Sends, Added
<1> HIDE DEF row
<1>4. MemoryTyped' /\ lastId' = lastId + 1 /\ lastId <= lastId' /\ Save(out)
  BY <1>2, <1>3, AddReadingTyped
<1>5. SlotsTyped'  BY <1>3, SameTables, SameSlotsTyped
<1>6. lastId' \in Nat /\ lastId \in Nat /\ Fresh \in (lastId + 1)..lastId'
  BY <1>4, SameTables DEF Fresh
<1>7. HistoryTyped'
  <2>1. edited' \subseteq MeterIds /\ gone' \subseteq gone \cup 1..lastId'
        /\ bulk' \subseteq bulk \cup ((lastId + 1)..lastId')
        /\ kept' \subseteq kept \cup ((lastId + 1)..lastId')
    BY <1>3, <1>6, SameTables DEF HistoryTyped
  <2> QED  BY <1>4, <1>6, <2>1, SameTables, HistoryGrows
<1> QED  BY <1>3, <1>4, <1>5, <1>7, WorkTyped

LEMMA PostTonnesTyped ==
  ASSUME TypeInv, NEW site \in Sites, NEW amount \in Amounts,
         NEW out \in Outcomes, PostTonnes(site, amount, out)
  PROVE  TypeInv'
<1> DEFINE row == [site |-> site, tonnes |-> amount]
<1>1. row \in Entry  BY DEF Entry
<1>2. /\ tonnes' = Put(tonnes, lastId + 1, row) /\ lastId' = lastId + 1 /\ Save(out)
      /\ UNCHANGED <<readings, invoices, autoFill, crashes, req, gone, bulk, edited>>
      /\ up /\ up' /\ kept' \subseteq kept \cup {lastId + 1}
  BY DEF PostTonnes, AddTonnes, Sends, Added, Fresh
<1> HIDE DEF row
<1>3. lastId \in Nat /\ lastId' \in Nat /\ lastId <= lastId'
      /\ lastId + 1 \in (lastId + 1)..lastId'
  BY <1>2, SameTables
<1>4. Table(tonnes', Entry, lastId')  BY <1>1, <1>2, PutTable, SameTables
<1>5. Table(readings', Reading, lastId') /\ Table(invoices', Invoice, lastId')
  BY <1>2, <1>3, TableGrows, SameTables
<1>6. MemoryTyped'  BY <1>2, <1>3, <1>4, <1>5, SameTables DEF MemoryTyped
<1>7. SlotsTyped'  BY <1>2, SameTables, SameSlotsTyped
<1>8. HistoryTyped'
  <2>1. edited' \subseteq MeterIds /\ gone' \subseteq gone \cup 1..lastId'
        /\ bulk' \subseteq bulk \cup ((lastId + 1)..lastId')
        /\ kept' \subseteq kept \cup ((lastId + 1)..lastId')
    BY <1>2, <1>3, SameTables DEF HistoryTyped
  <2> QED  BY <1>3, <2>1, SameTables, HistoryGrows
<1> QED  BY <1>2, <1>3, <1>6, <1>7, <1>8, WorkTyped

LEMMA CreateInvoiceTyped ==
  ASSUME TypeInv, NEW m, NEW site \in Sites, NEW amount \in Amounts, NEW actor \in Actors,
         NEW out \in Outcomes, CreateInvoice(m, site, amount, actor, out)
  PROVE  TypeInv'
<1> DEFINE row == [meter |-> m, site |-> site, amount |-> amount, createdBy |-> actor]
<1>1. row \in Invoice  BY DEF CreateInvoice, Invoice
<1>2. /\ invoices' = Put(invoices, lastId + 1, row) /\ lastId' = lastId + 1 /\ Save(out)
      /\ UNCHANGED <<readings, tonnes, autoFill, crashes, req, gone, bulk, edited>>
      /\ up /\ up' /\ kept' \subseteq kept \cup {lastId + 1}
  BY DEF CreateInvoice, AddInvoice, Sends, Added, Fresh
<1> HIDE DEF row
<1>3. lastId \in Nat /\ lastId' \in Nat /\ lastId <= lastId'
      /\ lastId + 1 \in (lastId + 1)..lastId'
  BY <1>2, SameTables
<1>4. Table(invoices', Invoice, lastId')  BY <1>1, <1>2, PutTable, SameTables
<1>5. Table(readings', Reading, lastId') /\ Table(tonnes', Entry, lastId')
  BY <1>2, <1>3, TableGrows, SameTables
<1>6. MemoryTyped'  BY <1>2, <1>3, <1>4, <1>5, SameTables DEF MemoryTyped
<1>7. SlotsTyped'  BY <1>2, SameTables, SameSlotsTyped
<1>8. HistoryTyped'
  <2>1. edited' \subseteq MeterIds /\ gone' \subseteq gone \cup 1..lastId'
        /\ bulk' \subseteq bulk \cup ((lastId + 1)..lastId')
        /\ kept' \subseteq kept \cup ((lastId + 1)..lastId')
    BY <1>2, <1>3, SameTables DEF HistoryTyped
  <2> QED  BY <1>3, <2>1, SameTables, HistoryGrows
<1> QED  BY <1>2, <1>3, <1>6, <1>7, <1>8, WorkTyped

\* Steps that change or remove rows: what they answer is about rows given.
LEMMA RowsTyped ==
  ASSUME TypeInv, NEW out \in Outcomes, Save(out), UNCHANGED <<lastId, crashes>>, up, up',
         autoFill' \in BOOLEAN, Table(readings', Reading, lastId),
         Table(tonnes', Entry, lastId), Table(invoices', Invoice, lastId), SlotsTyped',
         kept' \subseteq kept, gone' \subseteq gone \cup 1..lastId, UNCHANGED bulk,
         edited' \subseteq MeterIds
  PROVE  TypeInv'
<1>1. MemoryTyped' /\ lastId <= lastId'  BY ChangeTyped
<1>2. HistoryTyped'  BY SameTables DEF HistoryTyped
<1> QED  BY <1>1, <1>2, WorkTyped

LEMMA PutPreferencesTyped ==
  ASSUME TypeInv, NEW enabled \in BOOLEAN, NEW out \in Outcomes, PutPreferences(enabled, out)
  PROVE  TypeInv'
<1>1. /\ Save(out) /\ UNCHANGED <<lastId, crashes, readings, tonnes, invoices, req>>
      /\ up /\ up' /\ autoFill' = enabled /\ UNCHANGED <<kept, gone, bulk, edited>>
  BY DEF PutPreferences, UpdatePreferences, Sends, history
<1>2. SlotsTyped'  BY <1>1, SameTables, SameSlotsTyped
<1>3. edited \subseteq MeterIds  BY SameTables DEF HistoryTyped
<1> QED  BY <1>1, <1>2, <1>3, SameTables, RowsTyped

LEMMA ClearTyped ==
  ASSUME TypeInv, NEW out \in Outcomes, Clear(out)
  PROVE  TypeInv'
<1>1. /\ Save(out) /\ UNCHANGED <<lastId, crashes, invoices, autoFill, req, bulk, edited>>
      /\ up /\ up' /\ readings' = Empty /\ tonnes' = Empty /\ kept' \subseteq kept
      /\ gone' \subseteq gone \cup DOMAIN readings \cup DOMAIN tonnes
  BY DEF Clear, ClearData, Sends, Removed
<1>2. SlotsTyped'  BY <1>1, SameTables, SameSlotsTyped
<1>3. DOMAIN readings \subseteq 1..lastId /\ DOMAIN tonnes \subseteq 1..lastId
      /\ edited \subseteq MeterIds
  BY SameTables DEF Table, HistoryTyped
<1>4. gone' \subseteq gone \cup 1..lastId  BY <1>1, <1>3
<1>5. Table(readings', Reading, lastId) /\ Table(tonnes', Entry, lastId)
  BY <1>1, SameTables, EmptyTable
<1> QED  BY <1>1, <1>2, <1>3, <1>4, <1>5, SameTables, RowsTyped

LEMMA SeedTyped ==
  ASSUME StoreAssumption, TypeInv, NEW out \in Outcomes, Seed(out)
  PROVE  TypeInv'
<1>1. /\ Save(out) /\ UNCHANGED <<crashes, invoices, autoFill, req, bulk, edited>>
      /\ lastId' = lastId + Len(Sample) + Len(SampleTonnes)
      /\ readings' = Listed(Sample, lastId) /\ tonnes' = Listed(SampleTonnes, lastId + Len(Sample))
      /\ up /\ up' /\ kept' \subseteq kept \cup SampleIds
      /\ gone' \subseteq gone \cup DOMAIN readings \cup DOMAIN tonnes
  BY DEF Seed, SeedSampleData, Sends
<1>2. /\ lastId \in Nat /\ lastId' \in Nat /\ lastId <= lastId'
      /\ Table(readings', Reading, lastId') /\ Table(tonnes', Entry, lastId')
  BY <1>1, SampleTyped, SameTables
<1>3. Table(invoices', Invoice, lastId')  BY <1>1, <1>2, SameTables, TableGrows
<1>4. MemoryTyped'  BY <1>1, <1>2, <1>3, SameTables DEF MemoryTyped
<1>5. SlotsTyped'  BY <1>1, SameTables, SameSlotsTyped
<1>6. SampleIds = (lastId + 1)..lastId'  BY <1>1 DEF SampleIds, Fresh
<1>7. HistoryTyped'
  <2>1. DOMAIN readings \subseteq 1..lastId' /\ DOMAIN tonnes \subseteq 1..lastId'
    BY <1>2, SameTables, TableGrows DEF Table
  <2>2. edited' \subseteq MeterIds /\ gone' \subseteq gone \cup 1..lastId'
        /\ bulk' \subseteq bulk \cup ((lastId + 1)..lastId')
        /\ kept' \subseteq kept \cup ((lastId + 1)..lastId')
    BY <1>1, <1>6, <2>1, SameTables DEF HistoryTyped
  <2> QED  BY <1>2, <2>2, SameTables, HistoryGrows
<1> QED  BY <1>1, <1>2, <1>4, <1>5, <1>7, WorkTyped

LEMMA EditReadingTyped ==
  ASSUME FlowAssumption, TypeInv, NEW id \in DOMAIN readings, NEW v \in Values, NEW u \in Values,
         NEW d \in Dates \cup {Keep}, NEW out \in Outcomes,
         EditReading(id, [value |-> v, usage |-> u, date |-> d], out)
  PROVE  TypeInv'
<1> DEFINE row == Edited(readings[id], [value |-> v, usage |-> u, date |-> d])
<1>1. /\ Save(out) /\ UNCHANGED <<lastId, crashes, tonnes, invoices, autoFill, req, kept, gone, bulk>>
      /\ up /\ up' /\ readings' = [readings EXCEPT ![id] = row]
      /\ edited' = edited \cup {readings[id].meter}
  BY DEF EditReading, UpdateReading, Sends
<1>2. readings[id] \in Reading /\ readings[id].meter \in MeterIds
  BY SameTables DEF Table, Reading
<1>3. row \in Reading  BY <1>2, EditedReading
<1> HIDE DEF row
<1>4. Table(readings', Reading, lastId)  BY <1>1, <1>3, SameTables, ExceptTable
<1>5. SlotsTyped'  BY <1>1, SameTables, SameSlotsTyped
<1>6. edited' \subseteq MeterIds  BY <1>1, <1>2, SameTables DEF HistoryTyped
<1> QED  BY <1>1, <1>4, <1>5, <1>6, SameTables, RowsTyped

LEMMA RemoveReadingTyped ==
  ASSUME TypeInv, NEW id \in DOMAIN readings, NEW out \in Outcomes, RemoveReading(id, out)
  PROVE  TypeInv'
<1>1. /\ Save(out) /\ UNCHANGED <<lastId, crashes, tonnes, invoices, autoFill, req, bulk>>
      /\ up /\ up' /\ readings' = Without(readings, {id})
      /\ edited' = edited \cup {readings[id].meter}
      /\ kept' \subseteq kept /\ gone' \subseteq gone \cup {id}
  BY DEF RemoveReading, DeleteReading, Removed, Sends
<1>2. readings[id].meter \in MeterIds /\ id \in 1..lastId
  BY SameTables DEF Table, Reading
<1>3. Table(readings', Reading, lastId)  BY <1>1, SameTables, WithoutTable
<1>4. SlotsTyped'  BY <1>1, SameTables, SameSlotsTyped
<1>5. edited' \subseteq MeterIds  BY <1>1, <1>2, SameTables DEF HistoryTyped
<1>6. gone' \subseteq gone \cup 1..lastId  BY <1>1, <1>2
<1> QED  BY <1>1, <1>3, <1>4, <1>5, <1>6, SameTables, RowsTyped

LEMMA EditTonnesTyped ==
  ASSUME TypeInv, NEW id \in DOMAIN tonnes, NEW site \in Sites \cup {Keep},
         NEW amount \in Amounts \cup {Keep}, NEW out \in Outcomes,
         EditTonnes(id, site, amount, out)
  PROVE  TypeInv'
<1>1. /\ Save(out) /\ UNCHANGED <<lastId, crashes, readings, invoices, autoFill, req>>
      /\ up /\ up' /\ UNCHANGED <<kept, gone, bulk, edited>>
      /\ tonnes' = [tonnes EXCEPT ![id].site = IF site = Keep THEN @ ELSE site,
                                  ![id].tonnes = IF amount \in {Keep, 0} THEN @ ELSE amount]
  BY DEF EditTonnes, UpdateTonnes, Sends, history
<1>2. tonnes \in [DOMAIN tonnes -> Entry] /\ tonnes[id] \in Entry  BY SameTables DEF Table
<1> DEFINE s == IF site = Keep THEN tonnes[id].site ELSE site
           a == IF amount \in {Keep, 0} THEN tonnes[id].tonnes ELSE amount
           row == [tonnes[id] EXCEPT !.site = s, !.tonnes = a]
<1>3. tonnes' = [tonnes EXCEPT ![id] = row]  BY <1>1, <1>2 DEF Entry
<1>4. s \in Sites /\ a \in Amounts  BY <1>2 DEF Entry
<1>5. row \in Entry
  <2> HIDE DEF s, a
  <2> QED  BY <1>2, <1>4 DEF Entry
<1> HIDE DEF row
<1>6. Table(tonnes', Entry, lastId)  BY <1>3, <1>5, SameTables, ExceptTable
<1>7. SlotsTyped'  BY <1>1, SameTables, SameSlotsTyped
<1>8. edited \subseteq MeterIds  BY SameTables DEF HistoryTyped
<1> QED  BY <1>1, <1>6, <1>7, <1>8, SameTables, RowsTyped

LEMMA RemoveTonnesTyped ==
  ASSUME TypeInv, NEW id \in DOMAIN tonnes, NEW out \in Outcomes, RemoveTonnes(id, out)
  PROVE  TypeInv'
<1>1. /\ Save(out) /\ UNCHANGED <<lastId, crashes, readings, invoices, autoFill, req, bulk, edited>>
      /\ up /\ up' /\ tonnes' = Without(tonnes, {id})
      /\ kept' \subseteq kept /\ gone' \subseteq gone \cup {id}
  BY DEF RemoveTonnes, DeleteTonnes, Removed, Sends
<1>2. id \in 1..lastId /\ edited \subseteq MeterIds  BY SameTables DEF Table, HistoryTyped
<1>3. Table(tonnes', Entry, lastId)  BY <1>1, SameTables, WithoutTable
<1>4. SlotsTyped'  BY <1>1, SameTables, SameSlotsTyped
<1>5. gone' \subseteq gone \cup 1..lastId  BY <1>1, <1>2
<1> QED  BY <1>1, <1>2, <1>3, <1>4, <1>5, SameTables, RowsTyped

LEMMA RemoveInvoiceTyped ==
  ASSUME TypeInv, NEW id \in DOMAIN invoices, NEW out \in Outcomes, RemoveInvoice(id, out)
  PROVE  TypeInv'
<1>1. /\ Save(out) /\ UNCHANGED <<lastId, crashes, readings, tonnes, autoFill, req, bulk, edited>>
      /\ up /\ up' /\ invoices' = Without(invoices, {id})
      /\ kept' \subseteq kept /\ gone' \subseteq gone \cup {id}
  BY DEF RemoveInvoice, DeleteInvoice, Removed, Sends
<1>2. id \in 1..lastId /\ edited \subseteq MeterIds  BY SameTables DEF Table, HistoryTyped
<1>3. Table(invoices', Invoice, lastId)  BY <1>1, SameTables, WithoutTable
<1>4. SlotsTyped'  BY <1>1, SameTables, SameSlotsTyped
<1>5. gone' \subseteq gone \cup 1..lastId  BY <1>1, <1>2
<1> QED  BY <1>1, <1>2, <1>3, <1>4, <1>5, SameTables, RowsTyped

-----------------------------------------------------------------------------
(* The update of an invoice.                                               *)

LEMMA ReadInvoiceTyped ==
  ASSUME StoreAssumption, TypeInv, NEW r \in Req, NEW id \in DOMAIN invoices,
         NEW patch \in InvoicePatch, ReadInvoice(r, id, patch)
  PROVE  TypeInv'
<1> DEFINE copy == Merged(invoices[id], patch)
           s == [Idle EXCEPT !.op = "invoice", !.at = "replace", !.id = id, !.invoice = copy]
<1>1. invoices[id] \in Invoice /\ id \in Nat  BY SameTables DEF Table
<1>2. copy \in Invoice  BY <1>1, MergedTyped DEF ReadInvoice
<1>3. /\ up /\ UNCHANGED <<storeVars, up, crashes, history>> /\ req' = [req EXCEPT ![r] = s]
  BY DEF ReadInvoice, Sends, Proceed
<1> HIDE DEF copy
<1>4. s \in Slot /\ s.invoice = copy  BY <1>1, <1>2, IdleTyped DEF Slot
<1> HIDE DEF s
<1>5. SlotsTyped'  BY <1>2, <1>3, <1>4, SameTables, OneSlotTyped
<1> QED  BY <1>3, <1>5, SlotTyped

\* A running slot means a running program.
LEMMA Running ==
  ASSUME TypeInv, NEW r \in Req, req[r].at # "idle"
  PROVE  up
BY TypeParts, IdleTyped DEF ProcessTyped

LEMMA AnswerTyped ==
  ASSUME SlotsTyped, NEW r \in Req, Answer(r)
  PROVE  SlotsTyped'
BY IdleTyped, OneSlotTyped DEF Answer

LEMMA ReplaceInvoiceTyped ==
  ASSUME TypeInv, NEW r \in Req, NEW out \in Outcomes, ReplaceInvoice(r, out)
  PROVE  TypeInv'
<1>1. SlotsTyped'  BY SameTables, AnswerTyped DEF ReplaceInvoice
<1>2. up /\ UNCHANGED <<up, crashes, kept, gone, bulk, edited>>
  BY Running DEF ReplaceInvoice, history
<1>3. CASE UpdateInvoice(req[r].id, req[r].invoice, out)
  <2> DEFINE id == req[r].id
             row == [req[r].invoice EXCEPT !.createdBy = invoices[id].createdBy]
  <2>1. /\ Save(out) /\ UNCHANGED <<lastId, readings, tonnes, autoFill>>
        /\ invoices' = [invoices EXCEPT ![id] = row] /\ id \in DOMAIN invoices
    BY <1>3 DEF UpdateInvoice
  <2>2. req[r].invoice \in Invoice  BY SameTables DEF ReplaceInvoice, SlotsTyped, Copied
  <2>3. invoices[id] \in Invoice  BY <2>1, SameTables DEF Table
  <2>4. row \in Invoice  BY <2>2, <2>3 DEF Invoice
  <2> HIDE DEF row, id
  <2>5. Table(invoices', Invoice, lastId)  BY <2>1, <2>4, SameTables, ExceptTable
  <2>6. edited \subseteq MeterIds  BY SameTables DEF HistoryTyped
  <2> QED  BY <1>1, <1>2, <2>1, <2>5, <2>6, SameTables, RowsTyped
<1>4. CASE UNCHANGED storeVars
  BY <1>1, <1>2, <1>4, SlotTyped DEF history
<1> QED  BY <1>3, <1>4 DEF ReplaceInvoice

-----------------------------------------------------------------------------
(* The fills.                                                              *)

LEMMA OfMeter ==
  ASSUME TypeInv, NEW m, NEW S \in SUBSET Of(m)
  PROVE  /\ IsFiniteSet(S) /\ S \in SUBSET Nat
         /\ \A i \in S : i \in DOMAIN readings /\ readings[i] \in Reading
<1>1. /\ lastId \in Nat /\ Table(readings, Reading, lastId)  BY SameTables
<1>2. IsFiniteSet(DOMAIN readings) /\ DOMAIN readings \in SUBSET Nat  BY <1>1, FiniteTable
<1>3. S \in SUBSET DOMAIN readings  BY DEF Of
<1> QED  BY <1>1, <1>2, <1>3, FS_Subset DEF Table

\* The divisions of the estimates are defined: Week is not zero, and there are
\* usages to take the mean of.
LEMMA MeanReading ==
  ASSUME StoreAssumption, TypeInv, NEW m \in MeterIds, NEW target \in Nat,
         NEW est \in AutoFillMissingData(m, target)
  PROVE  est \in Reading /\ est.meter = m /\ est.date = target
<1> DEFINE recent == {i \in Of(m) : /\ readings[i].date > target - MeanWindow
                                    /\ readings[i].usage > 0}
           Since(i) == (Usages(readings, recent) * (target - readings[i].date))
                         \div (Week * Cardinality(recent))
<1>1. PICK i \in Latest(Of(m)) :
        recent # {} /\ est = Estimate(m, readings[i].value + Since(i), Since(i), target)
  BY DEF AutoFillMissingData
<1>2. i \in Of(m) /\ readings[i] \in Reading
  <2>1. i \in Of(m)  BY <1>1 DEF Latest
  <2>2. Of(m) \in SUBSET Of(m)  OBVIOUS
  <2> QED  BY <2>1, <2>2, OfMeter
<1>3. IsFiniteSet(recent) /\ \A j \in recent : readings[j].usage \in Int
  <2>1. recent \in SUBSET Of(m)  OBVIOUS
  <2> HIDE DEF recent
  <2> QED  BY <2>1, OfMeter DEF Reading
<1> HIDE DEF recent
<1>4. Usages(readings, recent) \in Int  BY <1>3, UsagesInt
<1>5. Cardinality(recent) \in Nat \ {0}  BY <1>1, <1>3, FS_CardinalityType, FS_EmptySet
<1>6. Week * Cardinality(recent) \in Nat \ {0}  BY <1>5, ProductPositive DEF StoreAssumption
<1>7. target - readings[i].date \in Int  BY <1>2 DEF Reading
<1>8. Since(i) \in Int  BY <1>4, <1>6, <1>7, ProductInt, QuotientInt
<1> HIDE DEF Since
<1>9. readings[i].value + Since(i) \in Int  BY <1>2, <1>8 DEF Reading
<1> QED  BY <1>1, <1>8, <1>9, EstimateReading

LEMMA MedianReading ==
  ASSUME StoreAssumption, TypeInv, NEW m \in MeterIds, NEW target \in Nat,
         NEW est \in MedianFillMissingData(m, target)
  PROVE  est \in Reading /\ est.meter = m /\ est.date = target
<1> DEFINE recent == {i \in Of(m) : /\ readings[i].date > target - Lookback
                                    /\ readings[i].usage > 0 /\ ~readings[i].est}
           v == [i \in recent |-> readings[i].usage]
           middle == Median(v)
<1>1. PICK i \in Latest(Of(m)) :
        recent # {} /\ est = Estimate(m, readings[i].value + middle, middle, target)
  BY DEF MedianFillMissingData
<1>2. i \in Of(m) /\ readings[i] \in Reading
  <2>1. i \in Of(m)  BY <1>1 DEF Latest
  <2>2. Of(m) \in SUBSET Of(m)  OBVIOUS
  <2> QED  BY <2>1, <2>2, OfMeter
<1>3. /\ IsFiniteSet(recent) /\ recent \in SUBSET Nat
      /\ \A j \in recent : readings[j].usage \in Int
  <2>1. recent \in SUBSET Of(m)  OBVIOUS
  <2> HIDE DEF recent
  <2> QED  BY <2>1, OfMeter DEF Reading
<1> HIDE DEF recent
<1>4. middle \in Int
  <2>1. DOMAIN v = recent /\ v \in [recent -> Int]  BY <1>3
  <2>2. recent \in SUBSET Int  BY <1>3
  <2> HIDE DEF v
  <2> QED  BY <1>1, <1>3, <2>1, <2>2, MedianInt
<1> HIDE DEF middle
<1>5. readings[i].value + middle \in Int  BY <1>2, <1>4 DEF Reading
<1> QED  BY <1>1, <1>4, <1>5, EstimateReading

LEMMA BeginFillTyped ==
  ASSUME FlowAssumption, TypeInv, NEW r \in Req, NEW op \in Fills, NEW m \in MeterIds,
         NEW d \in Dates, BeginFill(r, op, m, d)
  PROVE  TypeInv'
<1> DEFINE at == IF op \in Singles THEN "estimate" ELSE "survey"
           todo == IF op \in Singles THEN {m} ELSE {}
           s == [Idle EXCEPT !.op = op, !.target = d, !.at = at, !.todo = todo]
<1>1. up /\ UNCHANGED <<storeVars, up, crashes, history>> /\ req' = [req EXCEPT ![r] = s]
  BY DEF BeginFill, Sends, Proceed
<1>2. at \in {"estimate", "survey"} /\ todo \in SUBSET MeterIds /\ d \in Nat
  BY DEF FlowAssumption
<1> HIDE DEF at, todo
<1>3. s \in Slot /\ s.at # "replace"  BY <1>2, IdleTyped DEF Slot
<1> HIDE DEF s
<1> QED  BY <1>1, <1>3, SameTables, OneSlotTyped, SlotTyped

LEMMA SurveyTyped ==
  ASSUME StoreAssumption, TypeInv, NEW r \in Req, NEW site, Survey(r, site)
  PROVE  TypeInv'
<1> DEFINE stale == Stale(site, req[r].target)
           s == [req[r] EXCEPT !.at = "estimate", !.todo = stale]
<1>1. stale \in SUBSET MeterIds  BY DEF Stale, StoreAssumption, MeterIds
<1>2. req \in [Req -> Slot] /\ req[r] \in Slot  BY SameTables DEF SlotsTyped
<1>3. UNCHANGED <<storeVars, up, crashes, history>> /\ req' = [req EXCEPT ![r] = s]
  BY <1>2 DEF Survey
<1> HIDE DEF stale
<1>4. s \in Slot /\ s.at # "replace"  BY <1>1, <1>2 DEF Slot
<1>5. up  BY Running DEF Survey
<1> HIDE DEF s
<1> QED  BY <1>3, <1>4, <1>5, SameTables, OneSlotTyped, SlotTyped

\* What a fill is about to insert, or the meters it still has to do.
LEMMA EstimateNextDoes ==
  ASSUME StoreAssumption, TypeInv, NEW r \in Req, EstimateNext(r)
  PROVE  /\ req[r].at = "estimate" /\ UNCHANGED <<storeVars, up, crashes, history>>
         /\ \/ Answer(r)
            \/ \E m \in req[r].todo :
                 req' = [req EXCEPT ![r] = [req[r] EXCEPT !.todo = req[r].todo \ {m}]]
            \/ \E m \in req[r].todo, est \in Reading :
                 /\ est.meter = m /\ est.date = req[r].target
                 /\ req' = [req EXCEPT ![r] = [req[r] EXCEPT !.at = "insert", !.est = est]]
<1> DEFINE slot == req[r]
           Estimates(m) == IF slot.op \in Means THEN AutoFillMissingData(m, slot.target)
                                                ELSE MedianFillMissingData(m, slot.target)
<1>1. req \in [Req -> Slot] /\ slot \in Slot  BY SameTables DEF SlotsTyped
<1>2. slot.target \in Nat /\ slot.todo \in SUBSET MeterIds  BY <1>1 DEF Slot
<1>3. slot.at = "estimate" /\ UNCHANGED <<storeVars, up, crashes, history>>
  BY DEF EstimateNext
<1>4. \/ Answer(r)
      \/ \E m \in First(slot.todo) :
           \/ req' = [req EXCEPT ![r].todo = @ \ {m}]
           \/ \E est \in Estimates(m) : req' = [req EXCEPT ![r].at = "insert", ![r].est = est]
  BY DEF EstimateNext
<1>5. ASSUME NEW m \in First(slot.todo), req' = [req EXCEPT ![r].todo = @ \ {m}]
      PROVE  /\ m \in slot.todo
             /\ req' = [req EXCEPT ![r] = [slot EXCEPT !.todo = slot.todo \ {m}]]
  BY <1>1, <1>5 DEF First
<1>6. ASSUME NEW m \in First(slot.todo), NEW est \in Estimates(m),
             req' = [req EXCEPT ![r].at = "insert", ![r].est = est]
      PROVE  /\ m \in slot.todo /\ est \in Reading /\ est.meter = m /\ est.date = slot.target
             /\ req' = [req EXCEPT ![r] = [slot EXCEPT !.at = "insert", !.est = est]]
  <2>1. m \in slot.todo /\ m \in MeterIds  BY <1>2 DEF First
  <2>2. est \in Reading /\ est.meter = m /\ est.date = slot.target
    <3>1. \/ est \in AutoFillMissingData(m, slot.target)
          \/ est \in MedianFillMissingData(m, slot.target)
      BY <1>6
    <3> HIDE DEF slot, Estimates
    <3> QED  BY <1>2, <2>1, <3>1, MeanReading, MedianReading
  <2>3. req' = [req EXCEPT ![r] = [slot EXCEPT !.at = "insert", !.est = est]]  BY <1>1, <1>6
  <2> QED  BY <2>1, <2>2, <2>3
<1> HIDE DEF Estimates
<1> QED  BY <1>3, <1>4, <1>5, <1>6

LEMMA EstimateNextTyped ==
  ASSUME StoreAssumption, TypeInv, NEW r \in Req, EstimateNext(r)
  PROVE  TypeInv'
<1>1. req[r] \in Slot  BY SameTables DEF SlotsTyped
<1>2. /\ req[r].at = "estimate" /\ UNCHANGED <<storeVars, up, crashes, history>> /\ up
  BY EstimateNextDoes, Running
<1>3. CASE Answer(r)  BY <1>2, <1>3, SameTables, AnswerTyped, SlotTyped
<1>4. ASSUME NEW m \in req[r].todo,
             req' = [req EXCEPT ![r] = [req[r] EXCEPT !.todo = req[r].todo \ {m}]]
      PROVE  TypeInv'
  <2> DEFINE s == [req[r] EXCEPT !.todo = req[r].todo \ {m}]
  <2>1. s \in Slot /\ s.at # "replace"  BY <1>1, <1>2 DEF Slot
  <2> HIDE DEF s
  <2> QED  BY <1>2, <1>4, <2>1, SameTables, OneSlotTyped, SlotTyped DEF s
<1>5. ASSUME NEW est \in Reading,
             req' = [req EXCEPT ![r] = [req[r] EXCEPT !.at = "insert", !.est = est]]
      PROVE  TypeInv'
  <2> DEFINE s == [req[r] EXCEPT !.at = "insert", !.est = est]
  <2>1. s \in Slot /\ s.at # "replace"  BY <1>1 DEF Slot
  <2> HIDE DEF s
  <2> QED  BY <1>2, <1>5, <2>1, SameTables, OneSlotTyped, SlotTyped DEF s
<1> QED  BY <1>3, <1>4, <1>5, EstimateNextDoes

\* Which slot is left when an estimate was inserted.
LEMMA InsertEstimateDoes ==
  ASSUME TypeInv, NEW r \in Req, NEW out \in Outcomes, InsertEstimate(r, out)
  PROVE  /\ up /\ up' /\ UNCHANGED <<crashes, gone, edited>>
         /\ req[r].at = "insert" /\ AddReading(req[r].est, out)
         /\ bulk' = IF req[r].op \in Singles THEN bulk ELSE bulk \cup {Fresh}
         /\ kept' \subseteq kept \cup {Fresh}
         /\ \/ Answer(r)
            \/ req' = [req EXCEPT ![r] = [req[r] EXCEPT !.at = "estimate", !.est = None,
                                            !.todo = req[r].todo \ {req[r].est.meter}]]
<1>1. req \in [Req -> Slot]  BY SameTables DEF SlotsTyped
<1>2. \/ Answer(r)
      \/ req' = [req EXCEPT ![r].at = "estimate", ![r].est = None,
                            ![r].todo = @ \ {req[r].est.meter}]
  BY DEF InsertEstimate
<1>3. ASSUME req' = [req EXCEPT ![r].at = "estimate", ![r].est = None,
                                ![r].todo = @ \ {req[r].est.meter}]
      PROVE  req' = [req EXCEPT ![r] = [req[r] EXCEPT !.at = "estimate", !.est = None,
                                          !.todo = req[r].todo \ {req[r].est.meter}]]
  BY <1>1, <1>3
<1>4. up /\ up'  BY Running DEF InsertEstimate
<1> QED  BY <1>2, <1>3, <1>4 DEF InsertEstimate, Added

LEMMA InsertEstimateTyped ==
  ASSUME TypeInv, NEW r \in Req, NEW out \in Outcomes, InsertEstimate(r, out)
  PROVE  TypeInv'
<1>1. /\ up /\ up' /\ UNCHANGED <<crashes, gone, edited>>
      /\ AddReading(req[r].est, out) /\ bulk' \subseteq bulk \cup {Fresh}
      /\ kept' \subseteq kept \cup {Fresh}
  BY InsertEstimateDoes
<1>2. req[r] \in Slot /\ req[r].est \in Reading  BY SameTables DEF SlotsTyped, Slot
<1>3. MemoryTyped' /\ lastId' = lastId + 1 /\ lastId <= lastId' /\ Save(out)
  BY <1>1, <1>2, AddReadingTyped
<1>4. lastId' \in Nat /\ lastId \in Nat /\ Fresh \in (lastId + 1)..lastId'
  BY <1>3, SameTables DEF Fresh
<1>5. HistoryTyped'
  <2>1. edited' \subseteq MeterIds /\ gone' \subseteq gone \cup 1..lastId'
        /\ bulk' \subseteq bulk \cup ((lastId + 1)..lastId')
        /\ kept' \subseteq kept \cup ((lastId + 1)..lastId')
    BY <1>1, <1>4, SameTables DEF HistoryTyped
  <2> QED  BY <1>3, <1>4, <2>1, SameTables, HistoryGrows
<1>6. SlotsTyped'
  <2>1. CASE Answer(r)  BY <2>1, SameTables, AnswerTyped
  <2>2. CASE req' = [req EXCEPT ![r] = [req[r] EXCEPT !.at = "estimate", !.est = None,
                                          !.todo = req[r].todo \ {req[r].est.meter}]]
    <3> DEFINE s == [req[r] EXCEPT !.at = "estimate", !.est = None,
                                   !.todo = req[r].todo \ {req[r].est.meter}]
    <3>1. s \in Slot /\ s.at # "replace"  BY <1>2, IdleTyped DEF Slot
    <3> HIDE DEF s
    <3> QED  BY <2>2, <3>1, SameTables, OneSlotTyped DEF s
  <2> QED  BY <2>1, <2>2, InsertEstimateDoes
<1> QED  BY <1>1, <1>3, <1>5, <1>6, WorkTyped

-----------------------------------------------------------------------------
(* The process.                                                            *)

LEMMA CrashTyped ==
  ASSUME TypeInv, NEW torn \in BOOLEAN, Crash(torn)
  PROVE  TypeInv'
<1>1. /\ req' = [r \in Req |-> Idle] /\ up' = FALSE /\ crashes' = crashes + 1
      /\ readings' = Empty /\ tonnes' = Empty /\ invoices' = Empty /\ autoFill' = FALSE
      /\ UNCHANGED <<lastId, failures, kept, gone, bulk, edited>>
      /\ \/ disk' = disk
         \/ disk' = [state |-> "torn", image |-> Blank]
  BY DEF Crash, history
<1>2. MemoryTyped'  BY <1>1, SameTables, EmptyTable DEF MemoryTyped
<1>3. DiskTyped'
  <2>1. CASE disk' = disk  BY <1>1, <2>1, TypeParts DEF DiskTyped
  <2>2. CASE disk' = [state |-> "torn", image |-> Blank]
    <3>1. disk'.state = "torn" /\ disk'.image = Blank /\ failures' \in Nat
      BY <1>1, <2>2, TypeParts DEF DiskTyped
    <3> QED  BY <1>1, <3>1, SameTables, BlankTyped DEF DiskTyped
  <2> QED  BY <1>1, <2>1, <2>2
<1>4. SlotsTyped'  BY <1>1, IdleTyped DEF SlotsTyped, Copied
<1>5. HistoryTyped'  BY <1>1, SameTables DEF HistoryTyped
<1>6. ProcessTyped'
  <2>1. crashes' \in Nat  BY <1>1, TypeParts DEF ProcessTyped
  <2>2. up' \in BOOLEAN /\ req' = [r \in Req |-> Idle]  BY <1>1
  <2> QED  BY <2>1, <2>2 DEF ProcessTyped
<1> QED  BY <1>2, <1>3, <1>4, <1>5, <1>6, TypePartsNext

LEMMA StartTyped ==
  ASSUME StoreAssumption, TypeInv, NEW out \in Outcomes, Start(out)
  PROVE  TypeInv'
<1>1. Save(out) /\ up' = TRUE /\ UNCHANGED <<req, crashes, kept, gone, bulk, edited>>
  BY DEF Start, history
<1>2. MemoryTyped' /\ lastId <= lastId' /\ lastId' \in Nat
  <2>1. CASE /\ readings' = disk.image.readings /\ tonnes' = disk.image.tonnes
             /\ invoices' = disk.image.invoices /\ autoFill' = disk.image.autoFill
             /\ UNCHANGED lastId
    BY <2>1, TypeParts DEF DiskTyped, MemoryTyped
  <2>2. CASE /\ lastId' = lastId + Len(Sample) + Len(SampleTonnes)
             /\ readings' = Listed(Sample, lastId)
             /\ tonnes' = Listed(SampleTonnes, lastId + Len(Sample))
             /\ invoices' = Empty /\ autoFill' = FALSE
    <3>1. lastId' \in Nat /\ lastId <= lastId' /\ Table(readings', Reading, lastId')
          /\ Table(tonnes', Entry, lastId')
      BY <2>2, SameTables, SampleTyped
    <3>2. Table(invoices', Invoice, lastId')  BY <2>2, <3>1, EmptyTable
    <3> QED  BY <2>2, <3>1, <3>2 DEF MemoryTyped
  <2> QED  BY <2>1, <2>2 DEF Start, Reload
<1>3. DiskTyped'  BY <1>1, <1>2, TypeParts, SaveTyped
<1>4. SlotsTyped'  BY <1>1, SameTables, SameSlotsTyped
<1>5. HistoryTyped'
  <2>1. edited' \subseteq MeterIds /\ gone' \subseteq gone \cup 1..lastId'
        /\ bulk' \subseteq bulk \cup ((lastId + 1)..lastId')
        /\ kept' \subseteq kept \cup ((lastId + 1)..lastId')
    BY <1>1, SameTables DEF HistoryTyped
  <2> QED  BY <1>2, <2>1, SameTables, HistoryGrows
<1>6. ProcessTyped'  BY <1>1, TypeParts DEF ProcessTyped
<1> QED  BY <1>2, <1>3, <1>4, <1>5, <1>6, TypePartsNext

LEMMA InitTyped == ASSUME Init PROVE TypeInv
<1>1. 0 \in Nat  OBVIOUS
<1>2. MemoryTyped  BY <1>1, EmptyTable DEF Init, StoreInit, MemoryTyped
<1>3. DiskTyped  BY <1>1, BlankTyped DEF Init, StoreInit, DiskTyped
<1>4. SlotsTyped  BY IdleTyped DEF Init, SlotsTyped, Copied
<1>5. HistoryTyped /\ ProcessTyped  BY DEF Init, HistoryTyped, ProcessTyped
<1> QED  BY <1>2, <1>3, <1>4, <1>5, TypeParts

\* A step of the program, or none.
LEMMA NextTyped ==
  ASSUME StoreAssumption, FlowAssumption, TypeInv, [Next]_vars
  PROVE  TypeInv'
<1>1. ASSUME NEW out \in Outcomes, ReadingNext(out)  PROVE TypeInv'
  BY <1>1, PostReadingTyped, EditReadingTyped, RemoveReadingTyped DEF ReadingNext
<1>2. ASSUME NEW out \in Outcomes, TonnesNext(out)  PROVE TypeInv'
  BY <1>2, PostTonnesTyped, EditTonnesTyped, RemoveTonnesTyped DEF TonnesNext
<1>3. ASSUME NEW out \in Outcomes, InvoiceNext(out)  PROVE TypeInv'
  BY <1>3, CreateInvoiceTyped, RemoveInvoiceTyped, ReplaceInvoiceTyped DEF InvoiceNext
<1>4. ASSUME NEW out \in Outcomes, DataNext(out)  PROVE TypeInv'
  BY <1>4, PutPreferencesTyped, ClearTyped, SeedTyped, InsertEstimateTyped DEF DataNext
<1>5. ASSUME NEW r \in Req, NEW id \in DOMAIN invoices, NEW patch \in InvoicePatch,
             ReadInvoice(r, id, patch)
      PROVE  TypeInv'
  BY <1>5, ReadInvoiceTyped
<1>6. ASSUME NEW r \in Req, NEW op \in Fills, NEW m \in MeterIds, NEW d \in Dates,
             BeginFill(r, op, m, d)
      PROVE  TypeInv'
  BY <1>6, BeginFillTyped
<1>7. ASSUME NEW r \in Req, NEW site, Survey(r, site)  PROVE TypeInv'
  BY <1>7, SurveyTyped
<1>8. ASSUME NEW r \in Req, EstimateNext(r)  PROVE TypeInv'
  BY <1>8, EstimateNextTyped
<1>9. ASSUME NEW torn \in BOOLEAN, Crash(torn)  PROVE TypeInv'  BY <1>9, CrashTyped
<1>10. ASSUME NEW out \in Outcomes, Start(out)  PROVE TypeInv'  BY <1>10, StartTyped
<1>11. CASE UNCHANGED vars
  <2>1. MemoryTyped' /\ HistoryTyped'
    BY <1>11, SameTables DEF vars, storeVars, memory, history, MemoryTyped, HistoryTyped
  <2>2. DiskTyped' /\ SlotsTyped' /\ ProcessTyped'
    BY <1>11, TypeParts, SameSlotsTyped DEF vars, storeVars, DiskTyped, ProcessTyped
  <2> QED  BY <2>1, <2>2, TypePartsNext
<1> QED  BY <1>1, <1>2, <1>3, <1>4, <1>5, <1>6, <1>7, <1>8, <1>9, <1>10, <1>11 DEF Next

LEMMA TypeInvariant == Spec => []TypeInv
<1>1. TypeInv /\ [Next]_vars => TypeInv'  BY StoreAssumption, FlowAssumption, NextTyped
<1> QED  BY <1>1, InitTyped, PTL DEF Spec

\* Every variable has its type, ids are below the last one given, and only a
\* running program has requests in flight: the estimates divide by numbers
\* that are not zero, and the medians of usages are numbers.
THEOREM ReadingTypes == Spec => []TypeOK
BY TypeInvariant, PTL DEF TypeInv

-----------------------------------------------------------------------------
(* Registers count up: neither estimate runs back, unless its date does.   *)

LEMMA LatestOne ==
  ASSUME TypeInv, NEW m, NEW i \in Latest(Of(m)), NEW j \in Latest(Of(m))
  PROVE  i = j /\ readings[j] \in Reading
<1>1. i \in Of(m) /\ j \in Of(m) /\ i <= j /\ j <= i  BY DEF Latest
<1>2. Of(m) \in SUBSET Of(m)  OBVIOUS
<1>3. Of(m) \in SUBSET Nat /\ readings[j] \in Reading  BY <1>1, <1>2, OfMeter
<1> QED  BY <1>1, <1>3

LEMMA MeanForward ==
  ASSUME StoreAssumption, TypeInv, NEW m \in MeterIds, NEW target \in Nat,
         NEW last \in Latest(Of(m)), readings[last].date <= target,
         NEW est \in AutoFillMissingData(m, target)
  PROVE  est.usage >= 0 /\ est.value = readings[last].value + est.usage
<1> DEFINE recent == {i \in Of(m) : /\ readings[i].date > target - MeanWindow
                                    /\ readings[i].usage > 0}
           Since(i) == (Usages(readings, recent) * (target - readings[i].date))
                         \div (Week * Cardinality(recent))
<1>1. PICK i \in Latest(Of(m)) :
        recent # {} /\ est = Estimate(m, readings[i].value + Since(i), Since(i), target)
  BY DEF AutoFillMissingData
<1>2. recent \in SUBSET Of(m)  OBVIOUS
<1>3. i = last /\ readings[last] \in Reading  BY <1>1, LatestOne
<1>4. IsFiniteSet(recent) /\ \A j \in recent : readings[j].usage \in Int /\ readings[j].usage >= 0
  <2>1. IsFiniteSet(recent) /\ \A j \in recent : readings[j] \in Reading  BY <1>2, OfMeter
  <2> QED  BY <2>1 DEF Reading
<1> HIDE DEF recent
<1>5. Usages(readings, recent) \in Nat  BY <1>4, UsagesNotNegative
<1>6. Cardinality(recent) \in Nat \ {0}  BY <1>1, <1>4, FS_CardinalityType, FS_EmptySet
<1>7. Week * Cardinality(recent) \in Nat \ {0}  BY <1>6, ProductPositive DEF StoreAssumption
<1>8. target - readings[last].date \in Nat  BY <1>3 DEF Reading
<1>9. Since(last) \in Nat  BY <1>5, <1>7, <1>8, ProductNotNegative, QuotientNotNegative
<1> HIDE DEF Since
<1> QED  BY <1>1, <1>3, <1>9 DEF Estimate

LEMMA MedianForward ==
  ASSUME TypeInv, NEW m \in MeterIds, NEW target \in Nat, NEW last \in Latest(Of(m)),
         NEW est \in MedianFillMissingData(m, target)
  PROVE  est.usage > 0 /\ est.value = readings[last].value + est.usage
<1> DEFINE recent == {i \in Of(m) : /\ readings[i].date > target - Lookback
                                    /\ readings[i].usage > 0 /\ ~readings[i].est}
           v == [i \in recent |-> readings[i].usage]
           middle == Median(v)
<1>1. PICK i \in Latest(Of(m)) :
        recent # {} /\ est = Estimate(m, readings[i].value + middle, middle, target)
  BY DEF MedianFillMissingData
<1>2. recent \in SUBSET Of(m)  OBVIOUS
<1>3. i = last  BY <1>1, LatestOne
<1>4. /\ IsFiniteSet(recent) /\ recent \in SUBSET Int
      /\ \A j \in recent : readings[j].usage \in Int /\ readings[j].usage > 0
  <2>1. /\ IsFiniteSet(recent) /\ recent \in SUBSET Nat
        /\ \A j \in recent : readings[j] \in Reading
    BY <1>2, OfMeter
  <2> QED  BY <2>1 DEF Reading
<1> HIDE DEF recent
<1>5. middle > 0
  <2>1. DOMAIN v = recent /\ v \in [recent -> Int] /\ \A j \in recent : v[j] > 0  BY <1>4
  <2> HIDE DEF v
  <2> QED  BY <1>1, <1>4, <2>1, MedianPositive
<1> HIDE DEF middle
<1> QED  BY <1>1, <1>3, <1>5 DEF Estimate

\* An estimate goes on from the last reading of its meter by its own usage,
\* which is not negative for a mean not dated before that reading, and positive
\* for a median.
Forward ==
  \A m \in MeterIds, target \in Nat : \A last \in Latest(Of(m)) :
    /\ readings[last].date <= target =>
         \A est \in AutoFillMissingData(m, target) :
            est.usage >= 0 /\ est.value = readings[last].value + est.usage
    /\ \A est \in MedianFillMissingData(m, target) :
         est.usage > 0 /\ est.value = readings[last].value + est.usage

\* Whatever readings were deleted, edited or came in late, no fill estimates a
\* register below its last reading, unless the date of a mean lies before it
\* (AutoFillMissingData, MedianFillMissingData).
THEOREM EstimatesGoForward == Spec => []Forward
<1>1. TypeInv => Forward
  BY StoreAssumption, MeanForward, MedianForward DEF Forward
<1> QED  BY <1>1, TypeInvariant, PTL

-----------------------------------------------------------------------------
(* What one step does to the readings, in memory and in the file.          *)

Appended(row) == readings' = Put(readings, lastId + 1, Metered(row)) /\ lastId' = lastId + 1

Changed(id, row) ==
  /\ readings' = [readings EXCEPT ![id] = row] /\ row.meter = readings[id].meter
  /\ readings[id].meter \in edited'

Dropped(id) == readings' = Without(readings, {id}) /\ readings[id].meter \in edited'

ReadingsMove ==
  /\ edited \subseteq edited'
  /\ \/ UNCHANGED readings
     \/ \E row \in Reading : Appended(row)
     \/ \E id \in DOMAIN readings, row \in Reading : Changed(id, row)
     \/ \E id \in DOMAIN readings : Dropped(id)
     \/ readings' = Empty
     \/ readings' = Listed(Sample, lastId)
     \/ readings' = disk.image.readings /\ req' = req /\ ~up
  /\ disk'.image.readings \in {readings', disk.image.readings, Empty}

LEMMA SavedReadings ==
  ASSUME NEW out \in Outcomes, Save(out)
  PROVE  disk'.image.readings \in {readings', disk.image.readings, Empty}
BY SaveOutcome DEF Blank

LEMMA MoveByRequest ==
  ASSUME FlowAssumption, TypeInv, NEW out \in Outcomes, ReadingNext(out)
  PROVE  ReadingsMove /\ UNCHANGED <<bulk, req>>
<1>1. ASSUME NEW m \in Meters, NEW v \in Values, NEW d \in Dates, PostReading(m, v, d, out)
      PROVE  ReadingsMove /\ UNCHANGED <<bulk, req>>
  <2> DEFINE row == [meter |-> m, value |-> v, usage |-> 0, date |-> d, est |-> FALSE]
  <2>1. v \in Int /\ d \in Nat /\ m \in MeterIds  BY DEF FlowAssumption, MeterIds
  <2>2. row \in Reading  BY <2>1 DEF Reading
  <2>3. /\ AddReading(row, out) /\ Save(out) /\ UNCHANGED <<bulk, req, edited>>
    BY <1>1 DEF PostReading, AddReading
  <2> HIDE DEF row
  <2>4. Appended(row)  BY <2>3 DEF AddReading, Appended, Fresh
  <2> QED  BY <2>2, <2>3, <2>4, SavedReadings DEF ReadingsMove
<1>2. ASSUME NEW id \in DOMAIN readings, NEW v \in Values, NEW u \in Values,
             NEW d \in Dates \cup {Keep},
             EditReading(id, [value |-> v, usage |-> u, date |-> d], out)
      PROVE  ReadingsMove /\ UNCHANGED <<bulk, req>>
  <2> DEFINE row == Edited(readings[id], [value |-> v, usage |-> u, date |-> d])
  <2>1. /\ Save(out) /\ UNCHANGED <<bulk, req>> /\ readings' = [readings EXCEPT ![id] = row]
        /\ edited' = edited \cup {readings[id].meter}
    BY <1>2 DEF EditReading, UpdateReading
  <2>2. readings[id] \in Reading  BY SameTables DEF Table
  <2>3. row \in Reading /\ row.meter = readings[id].meter  BY <2>2, EditedReading
  <2> HIDE DEF row
  <2>4. Changed(id, row)  BY <2>1, <2>3 DEF Changed
  <2> QED  BY <2>1, <2>3, <2>4, SavedReadings DEF ReadingsMove
<1>3. ASSUME NEW id \in DOMAIN readings, RemoveReading(id, out)
      PROVE  ReadingsMove /\ UNCHANGED <<bulk, req>>
  <2>1. Save(out) /\ UNCHANGED <<bulk, req>> /\ Dropped(id) /\ edited \subseteq edited'
    BY <1>3 DEF RemoveReading, DeleteReading, Dropped
  <2> QED  BY <2>1, SavedReadings DEF ReadingsMove
<1> QED  BY <1>1, <1>2, <1>3 DEF ReadingNext

LEMMA MoveByData ==
  ASSUME NEW out \in Outcomes, Clear(out) \/ Seed(out)
  PROVE  ReadingsMove /\ UNCHANGED <<bulk, req>>
<1>1. Save(out) /\ UNCHANGED <<bulk, req, edited>>
  BY DEF Clear, ClearData, Seed, SeedSampleData
<1>2. readings' = Empty \/ readings' = Listed(Sample, lastId)
  BY DEF Clear, ClearData, Seed, SeedSampleData
<1> QED  BY <1>1, <1>2, SavedReadings DEF ReadingsMove

LEMMA MoveByInsert ==
  ASSUME TypeInv, NEW r \in Req, NEW out \in Outcomes, InsertEstimate(r, out)
  PROVE  ReadingsMove /\ Appended(req[r].est)
<1>1. req[r].est \in Reading  BY SameTables DEF SlotsTyped, Slot
<1>2. AddReading(req[r].est, out) /\ UNCHANGED edited  BY InsertEstimateDoes
<1>3. Save(out) /\ Appended(req[r].est)  BY <1>2 DEF AddReading, Appended, Fresh
<1> QED  BY <1>1, <1>2, <1>3, SavedReadings DEF ReadingsMove

\* The steps that leave the readings in memory alone.
LEMMA MoveElsewhere ==
  ASSUME TypeInv, NEW out \in Outcomes,
         \/ TonnesNext(out) \/ InvoiceNext(out)
         \/ \E enabled \in BOOLEAN : PutPreferences(enabled, out)
  PROVE  ReadingsMove /\ UNCHANGED <<readings, bulk, edited>>
<1>1. CASE TonnesNext(out)
  BY <1>1, SavedReadings DEF TonnesNext, PostTonnes, AddTonnes, EditTonnes, UpdateTonnes,
     RemoveTonnes, DeleteTonnes, history, ReadingsMove
<1>2. CASE InvoiceNext(out)
  <2>1. ASSUME NEW m, NEW site, NEW amount, NEW actor, CreateInvoice(m, site, amount, actor, out)
        PROVE  ReadingsMove /\ UNCHANGED <<readings, bulk, edited>>
    BY <2>1, SavedReadings DEF CreateInvoice, AddInvoice, ReadingsMove
  <2>2. ASSUME NEW id, RemoveInvoice(id, out)
        PROVE  ReadingsMove /\ UNCHANGED <<readings, bulk, edited>>
    BY <2>2, SavedReadings DEF RemoveInvoice, DeleteInvoice, ReadingsMove
  <2>3. ASSUME NEW r \in Req, ReplaceInvoice(r, out)
        PROVE  ReadingsMove /\ UNCHANGED <<readings, bulk, edited>>
    BY <2>3, SavedReadings
       DEF ReplaceInvoice, UpdateInvoice, storeVars, memory, history, ReadingsMove
  <2> QED  BY <1>2, <2>1, <2>2, <2>3 DEF InvoiceNext
<1>3. CASE \E enabled \in BOOLEAN : PutPreferences(enabled, out)
  BY <1>3, SavedReadings DEF PutPreferences, UpdatePreferences, history, ReadingsMove
<1> QED  BY <1>1, <1>2, <1>3

LEMMA MoveByProcess ==
  ASSUME TypeInv,
         \/ \E torn \in BOOLEAN : Crash(torn)
         \/ \E out \in Outcomes : Start(out)
  PROVE  ReadingsMove /\ UNCHANGED <<bulk, edited>>
<1>1. ASSUME NEW torn \in BOOLEAN, Crash(torn)
      PROVE  ReadingsMove /\ UNCHANGED <<bulk, edited>>
  BY <1>1 DEF Crash, history, ReadingsMove, Blank
<1>2. ASSUME NEW out \in Outcomes, Start(out)
      PROVE  ReadingsMove /\ UNCHANGED <<bulk, edited>>
  <2>1. Save(out) /\ UNCHANGED <<bulk, edited, req>> /\ ~up  BY <1>2 DEF Start, history
  <2>2. readings' = disk.image.readings \/ readings' = Listed(Sample, lastId)
    BY <1>2 DEF Start, Reload
  <2> QED  BY <2>1, <2>2, SavedReadings DEF ReadingsMove
<1> QED  BY <1>1, <1>2

\* The steps of a slot that are not a Save.
SlotStep ==
  \E r \in Req :
    \/ \E id \in DOMAIN invoices, patch \in InvoicePatch : ReadInvoice(r, id, patch)
    \/ \E op \in Fills, m \in MeterIds, d \in Dates : BeginFill(r, op, m, d)
    \/ \E site \in Sites \cup {Keep} : Survey(r, site)
    \/ EstimateNext(r)

LEMMA MoveBySlot ==
  ASSUME SlotStep \/ UNCHANGED vars
  PROVE  ReadingsMove /\ UNCHANGED <<readings, bulk, edited, disk, lastId>>
<1>1. CASE SlotStep
  <2>1. UNCHANGED <<storeVars, history>>
    BY <1>1 DEF SlotStep, ReadInvoice, BeginFill, Survey, EstimateNext
  <2> QED  BY <2>1 DEF storeVars, memory, history, ReadingsMove
<1>2. CASE UNCHANGED vars
  BY <1>2 DEF vars, storeVars, memory, history, ReadingsMove
<1> QED  BY <1>1, <1>2

\* Every step is of one of these kinds.
LEMMA StepKinds ==
  ASSUME [Next]_vars
  PROVE  \/ \E out \in Outcomes : ReadingNext(out)
         \/ \E out \in Outcomes : Clear(out) \/ Seed(out)
         \/ \E out \in Outcomes, r \in Req : InsertEstimate(r, out)
         \/ \E out \in Outcomes : \/ TonnesNext(out) \/ InvoiceNext(out)
                                  \/ \E enabled \in BOOLEAN : PutPreferences(enabled, out)
         \/ (\E torn \in BOOLEAN : Crash(torn)) \/ (\E out \in Outcomes : Start(out))
         \/ SlotStep \/ UNCHANGED vars
BY DEF Next, DataNext, SlotStep

LEMMA EveryMove ==
  ASSUME FlowAssumption, TypeInv, [Next]_vars
  PROVE  ReadingsMove
BY StepKinds, MoveByRequest, MoveByData, MoveByInsert, MoveElsewhere, MoveByProcess, MoveBySlot

-----------------------------------------------------------------------------
(* Usages.  Each reading but the first of a meter counts its water from an *)
(* earlier one, in memory and in the file, unless a reading of the meter   *)
(* was changed or removed by hand.                                         *)

Chained(t, meters) ==
  \A i, j \in DOMAIN t :
    i < j /\ t[i].meter = t[j].meter /\ t[j].meter \notin meters =>
      \E p \in DOMAIN t : Counted(t, p, j)

ChainInv == Chained(readings, edited) /\ Chained(disk.image.readings, edited)

LEMMA ChainedFewer ==
  ASSUME NEW t, NEW e, NEW f, e \subseteq f, Chained(t, e)
  PROVE  Chained(t, f)
BY DEF Chained

LEMMA ChainedEmpty == ASSUME NEW e PROVE Chained(Empty, e)
BY DEF Chained, Empty

\* The last id of some rows.
LEMMA LatestExists ==
  ASSUME NEW n \in Nat, NEW S \in SUBSET (1..n), S # {}
  PROVE  \E k \in S : Latest(S) = {k}
<1> DEFINE T == {n - k : k \in S}
<1>1. \A k \in S : k \in Nat /\ n - k \in Nat  OBVIOUS
<1>2. T \in SUBSET Nat /\ T # {}  BY <1>1
<1> HIDE DEF T
<1>3. PICK x \in T : \A y \in T : x <= y  BY <1>2, LeastNumber
<1>4. PICK k \in S : x = n - k  BY DEF T
<1>5. ASSUME NEW j \in S  PROVE j <= k
  <2>1. n - j \in T  BY DEF T
  <2>2. n - k <= n - j  BY <1>3, <1>4, <2>1
  <2> QED  BY <1>1, <2>2
<1>6. ASSUME NEW j \in S, \A l \in S : l <= j  PROVE j = k
  BY <1>1, <1>5, <1>6
<1> QED  BY <1>5, <1>6 DEF Latest

\* AddReading counts from the last appended reading of the meter.
LEMMA MeteredCounts ==
  ASSUME TypeInv, NEW row \in Reading, Of(row.meter) # {}
  PROVE  \E p \in Of(row.meter) :
           readings[p].value > 0 /\ Metered(row).usage >= 0 =>
             Metered(row).value - readings[p].value <= Metered(row).usage
<1> DEFINE m == row.meter
           before == {i \in Latest(Of(m)) : readings[i].value > 0 /\ row.value > readings[i].value}
<1>1. lastId \in Nat /\ Of(m) \in SUBSET (1..lastId)
  BY SameTables DEF Of, Table
<1>2. PICK p \in Of(m) : Latest(Of(m)) = {p}  BY <1>1, LatestExists
<1>3. readings[p] \in Reading /\ readings[p].value \in Int /\ row.value \in Int
      /\ Metered(row).usage \in Int
  BY <1>2, SameTables, MeteredReading DEF Of, Table, Reading
<1>4. Metered(row).value = row.value  BY MeteredReading DEF Reading
<1>5. CASE before = {}
  <2>1. readings[p].value > 0 => ~(row.value > readings[p].value)  BY <1>2, <1>5
  <2> QED  BY <1>3, <1>4, <2>1
<1>6. CASE before # {}
  <2>1. before = {p}  BY <1>2, <1>6
  <2>2. (CHOOSE i \in before : TRUE) = p  BY <2>1
  <2>3. Metered(row) = [row EXCEPT !.usage = row.value - readings[p].value]
    BY <1>6, <2>2 DEF Metered
  <2>4. Metered(row).usage = row.value - readings[p].value  BY <2>3 DEF Reading
  <2>5. row.value - readings[p].value <= row.value - readings[p].value  BY <1>3
  <2> HIDE DEF before
  <2> QED  BY <1>4, <2>4, <2>5
<1> QED  BY <1>5, <1>6

LEMMA AppendedChained ==
  ASSUME TypeInv, NEW e, Chained(readings, e), NEW row \in Reading
  PROVE  Chained(Put(readings, lastId + 1, Metered(row)), e)
<1> DEFINE new == lastId + 1
           t == Put(readings, new, Metered(row))
<1>1. /\ lastId \in Nat /\ DOMAIN readings \subseteq 1..lastId
      /\ DOMAIN t = DOMAIN readings \cup {new} /\ new \notin DOMAIN readings
  BY SameTables DEF Table, Put
<1>2. t[new] = Metered(row) /\ \A i \in DOMAIN readings : t[i] = readings[i]
  BY <1>1 DEF Put
<1>3. Metered(row).meter = row.meter  BY MeteredReading DEF Reading
<1> HIDE DEF t
<1>4. ASSUME NEW i \in DOMAIN t, NEW j \in DOMAIN t, i < j, t[i].meter = t[j].meter,
             t[j].meter \notin e
      PROVE  \E p \in DOMAIN t : Counted(t, p, j)
  <2>1. i \in DOMAIN readings  BY <1>1, <1>4
  <2>2. CASE j \in DOMAIN readings
    <3>1. PICK p \in DOMAIN readings : Counted(readings, p, j)
      BY <1>2, <1>4, <2>1, <2>2 DEF Chained
    <3>2. Counted(t, p, j)  BY <1>2, <2>2, <3>1 DEF Counted, Covers
    <3> QED  BY <1>1, <3>2
  <2>3. CASE j = new
    <3>1. i \in Of(row.meter)  BY <1>2, <1>3, <1>4, <2>1, <2>3 DEF Of
    <3>2. PICK p \in Of(row.meter) :
            readings[p].value > 0 /\ Metered(row).usage >= 0 =>
              Metered(row).value - readings[p].value <= Metered(row).usage
      BY <3>1, MeteredCounts
    <3>3. p \in DOMAIN readings /\ readings[p].meter = row.meter  BY DEF Of
    <3>4. p < new  BY <1>1, <3>3
    <3>5. Counted(t, p, j)  BY <1>2, <1>3, <2>3, <3>2, <3>3, <3>4 DEF Counted, Covers
    <3> QED  BY <1>1, <3>3, <3>5
  <2> QED  BY <1>1, <2>2, <2>3
<1> QED  BY <1>4 DEF Chained, t

\* A changed or removed reading decides only about its own meter.
LEMMA ChangedChained ==
  ASSUME TypeInv, NEW e, Chained(readings, e), NEW id \in DOMAIN readings, NEW row \in Reading,
         row.meter = readings[id].meter, readings[id].meter \in e
  PROVE  Chained([readings EXCEPT ![id] = row], e)
<1> DEFINE t == [readings EXCEPT ![id] = row]
<1>1. DOMAIN t = DOMAIN readings /\ t[id] = row
      /\ \A i \in DOMAIN readings : i # id => t[i] = readings[i]
  BY SameTables DEF Table
<1>2. \A i \in DOMAIN readings : t[i].meter = readings[i].meter  BY <1>1
<1> HIDE DEF t
<1>3. ASSUME NEW i \in DOMAIN t, NEW j \in DOMAIN t, i < j, t[i].meter = t[j].meter,
             t[j].meter \notin e
      PROVE  \E p \in DOMAIN t : Counted(t, p, j)
  <2>1. j # id  BY <1>2, <1>3
  <2>2. PICK p \in DOMAIN readings : Counted(readings, p, j)  BY <1>1, <1>2, <1>3 DEF Chained
  <2>3. p # id  BY <1>1, <1>2, <1>3, <2>2 DEF Counted
  <2> QED  BY <1>1, <1>3, <2>1, <2>2, <2>3 DEF Counted, Covers
<1> QED  BY <1>3 DEF Chained, t

LEMMA DroppedChained ==
  ASSUME TypeInv, NEW e, Chained(readings, e), NEW id \in DOMAIN readings,
         readings[id].meter \in e
  PROVE  Chained(Without(readings, {id}), e)
<1> DEFINE t == Without(readings, {id})
<1>1. DOMAIN t = DOMAIN readings \ {id} /\ \A i \in DOMAIN t : t[i] = readings[i]
  BY DEF Without
<1> HIDE DEF t
<1>2. ASSUME NEW i \in DOMAIN t, NEW j \in DOMAIN t, i < j, t[i].meter = t[j].meter,
             t[j].meter \notin e
      PROVE  \E p \in DOMAIN t : Counted(t, p, j)
  <2>1. PICK p \in DOMAIN readings : Counted(readings, p, j)  BY <1>1, <1>2 DEF Chained
  <2>2. p # id  BY <1>1, <1>2, <2>1 DEF Counted
  <2> QED  BY <1>1, <2>1, <2>2 DEF Counted, Covers
<1> QED  BY <1>2 DEF Chained, t

LEMMA SampleChained ==
  ASSUME StoreAssumption, SampleAssumption, NEW n \in Nat, NEW e
  PROVE  Chained(Listed(Sample, n), e)
<1> DEFINE t == Listed(Sample, n)
<1>1. Len(Sample) \in Nat /\ DOMAIN Sample = 1..Len(Sample)  BY DEF StoreAssumption
<1>2. /\ DOMAIN t = (n + 1)..(n + Len(Sample))
      /\ \A i \in DOMAIN t : i - n \in DOMAIN Sample /\ t[i] = Sample[i - n] /\ i \in Nat
  BY <1>1 DEF Listed
<1>3. \A p \in DOMAIN Sample : p + n \in DOMAIN t /\ t[p + n] = Sample[p] /\ p \in Nat
  BY <1>1 DEF Listed
<1> HIDE DEF t
<1>4. ASSUME NEW i \in DOMAIN t, NEW j \in DOMAIN t, i < j, t[i].meter = t[j].meter
      PROVE  \E p \in DOMAIN t : Counted(t, p, j)
  <2>1. i - n < j - n  BY <1>2, <1>4
  <2>2. PICK p \in DOMAIN Sample : Covers(Sample, p, j - n)
    BY <1>2, <1>4, <2>1 DEF SampleAssumption
  <2>3. p + n < j  BY <1>2, <1>3, <2>2 DEF Covers
  <2>4. Counted(t, p + n, j)  BY <1>2, <1>3, <2>2, <2>3 DEF Covers, Counted
  <2> QED  BY <1>3, <2>4
<1> QED  BY <1>4 DEF Chained, t

LEMMA ChainStep ==
  ASSUME StoreAssumption, SampleAssumption, FlowAssumption, TypeInv, ChainInv, [Next]_vars
  PROVE  ChainInv'
<1>1. ReadingsMove  BY EveryMove
<1>2. Chained(readings, edited') /\ Chained(disk.image.readings, edited')
  BY <1>1, ChainedFewer DEF ReadingsMove, ChainInv
<1>3. Chained(readings', edited')
  <2>1. ASSUME NEW row \in Reading, Appended(row)  PROVE Chained(readings', edited')
    BY <1>2, <2>1, AppendedChained DEF Appended
  <2>2. ASSUME NEW id \in DOMAIN readings, NEW row \in Reading, Changed(id, row)
        PROVE  Chained(readings', edited')
    BY <1>2, <2>2, ChangedChained DEF Changed
  <2>3. ASSUME NEW id \in DOMAIN readings, Dropped(id)  PROVE Chained(readings', edited')
    BY <1>2, <2>3, DroppedChained DEF Dropped
  <2>4. CASE readings' = Listed(Sample, lastId)
    BY <2>4, SampleChained, SameTables
  <2>5. CASE readings' \in {readings, Empty, disk.image.readings}
    BY <1>2, <2>5, ChainedEmpty
  <2> QED  BY <1>1, <2>1, <2>2, <2>3, <2>4, <2>5 DEF ReadingsMove
<1>4. Chained(disk'.image.readings, edited')
  BY <1>1, <1>2, <1>3, ChainedEmpty DEF ReadingsMove
<1> QED  BY <1>3, <1>4 DEF ChainInv

LEMMA ChainCovers ==
  ASSUME TypeInv, ChainInv
  PROVE  UsageCoversRegister
<1> SUFFICES ASSUME NEW m \in MeterIds \ edited,
                    \A k \in Of(m) : readings[k].value > 0 /\ readings[k].usage >= 0,
                    NEW i \in First(Of(m)), NEW j \in Latest(Of(m))
             PROVE  readings[j].value - readings[i].value <= Usages(readings, Of(m))
  BY DEF UsageCoversRegister
<1>1. i \in Of(m) /\ j \in Of(m) /\ \A k \in Of(m) : i <= k  BY DEF First, Latest
<1>2. /\ IsFiniteSet(Of(m)) /\ Of(m) \in SUBSET Nat
      /\ \A k \in Of(m) : readings[k] \in Reading
  <2>1. Of(m) \in SUBSET Of(m)  OBVIOUS
  <2> QED  BY <2>1, OfMeter
<1>3. \A k \in Of(m) :
        readings[k].usage \in Int /\ readings[k].usage >= 0 /\ readings[k].value \in Int
  BY <1>2 DEF Reading
<1>4. ASSUME NEW k \in Of(m) \ {i}  PROVE \E p \in Of(m) : Covers(readings, p, k)
  <2>1. i < k  BY <1>1, <1>2
  <2>2. /\ i \in DOMAIN readings /\ k \in DOMAIN readings
        /\ readings[i].meter = m /\ readings[k].meter = m
    BY <1>1 DEF Of
  <2>3. PICK p \in DOMAIN readings : Counted(readings, p, k)
    BY <2>1, <2>2 DEF ChainInv, Chained
  <2>4. p \in Of(m)  BY <2>2, <2>3 DEF Counted, Of
  <2> QED  BY <2>3, <2>4 DEF Counted
<1> QED  BY <1>1, <1>2, <1>3, <1>4, UsagesCover

\* However readings and estimates interleave, and whatever restarts bring back
\* from the file, the usages recorded for a meter whose register only counts up
\* cover all it counted (AddReading, seedSampleReadings).
THEOREM UsagesCoverRegister == Spec => []UsageCoversRegister
<1>1. Init => ChainInv
  BY ChainedEmpty DEF Init, StoreInit, ChainInv, Blank
<1>2. TypeInv /\ ChainInv /\ [Next]_vars => ChainInv'
  BY StoreAssumption, SampleAssumption, FlowAssumption, ChainStep
<1>3. TypeInv /\ ChainInv => UsageCoversRegister  BY ChainCovers
<1> QED  BY <1>1, <1>2, <1>3, TypeInvariant, PTL DEF Spec

-----------------------------------------------------------------------------
(* Gaps.  A reading that a bulk fill inserts was announced by the survey   *)
(* of its request, when there was none of the day: the readings inserted   *)
(* and the requests about to insert are together no more than the slots.   *)

\* A slot of a bulk fill that has the meter still to do for the day.
Aims(s, m, d) ==
  /\ s.at \in {"estimate", "insert"} /\ s.op \notin Singles
  /\ s.target = d /\ m \in s.todo

Filling(q, m, d) == {r \in Req : Aims(q[r], m, d)}

\* The estimate a slot inserts is for a meter it has to do, and for its day.
Aimed(q) ==
  \A r \in Req : q[r].at = "insert" =>
    q[r].est.meter \in q[r].todo /\ q[r].est.date = q[r].target

Bounded(b, t, q, m, d) ==
  Cardinality(Filled(b, t, m, d)) + Cardinality(Filling(q, m, d)) <= Cardinality(Req)

GapInv ==
  /\ Aimed(req)
  /\ \A m \in Meters \ edited, d \in Nat :
       /\ Bounded(bulk, readings, req, m, d)
       /\ Cardinality(Filled(bulk, disk.image.readings, m, d)) <= Cardinality(Req)

LEMMA FillingFinite ==
  ASSUME FlowAssumption, NEW q, NEW m, NEW d, NEW S \in SUBSET Filling(q, m, d)
  PROVE  /\ IsFiniteSet(S) /\ Cardinality(S) \in Nat
         /\ Cardinality(S) <= Cardinality(Filling(q, m, d))
         /\ Cardinality(S) <= Cardinality(Req) /\ Cardinality(Req) \in Nat
<1>1. IsFiniteSet(Req) /\ Filling(q, m, d) \in SUBSET Req  BY DEF FlowAssumption, Filling
<1>2. IsFiniteSet(Filling(q, m, d)) /\ S \in SUBSET Req  BY <1>1, FS_Subset
<1> QED  BY <1>1, <1>2, FS_Subset, FS_CardinalityType

\* With no more readings and no more requests the bound stays.
LEMMA BoundedFewer ==
  ASSUME FlowAssumption, NEW n \in Nat, NEW b, b \subseteq 1..n, NEW t, NEW q, NEW m, NEW d,
         Bounded(b, t, q, m, d), NEW c, NEW u, NEW p,
         Filled(c, u, m, d) \subseteq Filled(b, t, m, d),
         Filling(p, m, d) \subseteq Filling(q, m, d)
  PROVE  Bounded(c, u, p, m, d)
<1>1. /\ Filled(b, t, m, d) \in SUBSET Filled(b, t, m, d)
      /\ Filling(q, m, d) \in SUBSET Filling(q, m, d)
  OBVIOUS
<1>2. /\ IsFiniteSet(Filled(b, t, m, d)) /\ IsFiniteSet(Filling(q, m, d))
      /\ Cardinality(Req) \in Nat
  BY <1>1, FilledFinite, FillingFinite
<1> QED  BY <1>2, FewerTogether DEF Bounded

\* One more reading and one request less.
LEMMA BoundedMoved ==
  ASSUME FlowAssumption, NEW n \in Nat, NEW b, b \subseteq 1..n, NEW t, NEW q, NEW m, NEW d,
         Bounded(b, t, q, m, d), NEW c, NEW u, NEW p, NEW new, NEW r \in Filling(q, m, d),
         Filled(c, u, m, d) \subseteq Filled(b, t, m, d) \cup {new},
         Filling(p, m, d) \subseteq Filling(q, m, d) \ {r}
  PROVE  Bounded(c, u, p, m, d)
<1>1. /\ Filled(b, t, m, d) \in SUBSET Filled(b, t, m, d)
      /\ Filling(q, m, d) \in SUBSET Filling(q, m, d)
  OBVIOUS
<1>2. /\ IsFiniteSet(Filled(b, t, m, d)) /\ IsFiniteSet(Filling(q, m, d))
      /\ Cardinality(Req) \in Nat
  BY <1>1, FilledFinite, FillingFinite
<1>3. /\ Cardinality(Filled(b, t, m, d)) + Cardinality(Filling(q, m, d)) <= Cardinality(Req)
      /\ Filled(c, u, m, d) \subseteq Filled(b, t, m, d) \cup {new}
      /\ Filling(p, m, d) \subseteq Filling(q, m, d) \ {r} /\ r \in Filling(q, m, d)
  BY DEF Bounded
<1>4. Cardinality(Filled(c, u, m, d)) + Cardinality(Filling(p, m, d)) <= Cardinality(Req)
  BY ONLY <1>2, <1>3, MovedTogether
<1> QED  BY <1>4 DEF Bounded

-----------------------------------------------------------------------------
(* Slots.                                                                  *)

\* A slot whose step gives it no new meter.
Milder(s, t) ==
  /\ \A m, d : Aims(t, m, d) => Aims(s, m, d)
  /\ t.at = "insert" => t.est.meter \in t.todo /\ t.est.date = t.target

LEMMA MilderSlot ==
  ASSUME Aimed(req), req = [i \in Req |-> req[i]], NEW r \in Req, NEW s,
         req' = [req EXCEPT ![r] = s], Milder(req[r], s)
  PROVE  Aimed(req') /\ \A m, d : Filling(req', m, d) \subseteq Filling(req, m, d)
<1>1. \A i \in Req : req'[i] = IF i = r THEN s ELSE req[i]  OBVIOUS
<1>2. Aimed(req')  BY <1>1 DEF Aimed, Milder
<1>3. \A m, d : Filling(req', m, d) \subseteq Filling(req, m, d)  BY <1>1 DEF Filling, Milder
<1> QED  BY <1>2, <1>3

LEMMA SlotsAreFunction == ASSUME TypeInv PROVE req = [i \in Req |-> req[i]]
BY SameTables DEF SlotsTyped

Quiet == Aimed(req') /\ \A m, d : Filling(req', m, d) \subseteq Filling(req, m, d)

LEMMA QuietSame == ASSUME Aimed(req), UNCHANGED req PROVE Quiet
BY DEF Quiet

LEMMA QuietAnswer == ASSUME TypeInv, Aimed(req), NEW r \in Req, Answer(r) PROVE Quiet
<1>1. Milder(req[r], Idle)  BY IdleTyped DEF Milder, Aims
<1> QED  BY <1>1, MilderSlot, SlotsAreFunction DEF Answer, Quiet

LEMMA QuietElsewhere ==
  ASSUME TypeInv, Aimed(req), NEW out \in Outcomes,
         \/ TonnesNext(out) \/ InvoiceNext(out)
         \/ \E enabled \in BOOLEAN : PutPreferences(enabled, out)
  PROVE  Quiet
<1>1. UNCHANGED req \/ \E r \in Req : Answer(r)
  BY DEF TonnesNext, PostTonnes, EditTonnes, RemoveTonnes, InvoiceNext, CreateInvoice,
     RemoveInvoice, ReplaceInvoice, PutPreferences
<1> QED  BY <1>1, QuietSame, QuietAnswer

LEMMA QuietProcess ==
  ASSUME TypeInv, Aimed(req),
         (\E torn \in BOOLEAN : Crash(torn)) \/ (\E out \in Outcomes : Start(out))
  PROVE  Quiet
<1>1. CASE \E torn \in BOOLEAN : Crash(torn)
  <2>1. \A r \in Req : req'[r] = Idle  BY <1>1 DEF Crash
  <2> QED  BY <2>1, IdleTyped DEF Quiet, Aimed, Filling, Aims
<1>2. CASE \E out \in Outcomes : Start(out)  BY <1>2, QuietSame DEF Start
<1> QED  BY <1>1, <1>2

LEMMA QuietSlot ==
  ASSUME StoreAssumption, TypeInv, Aimed(req), NEW r \in Req,
         \/ \E id \in DOMAIN invoices, patch \in InvoicePatch : ReadInvoice(r, id, patch)
         \/ \E op \in Fills, m \in MeterIds, d \in Dates : BeginFill(r, op, m, d)
         \/ EstimateNext(r)
  PROVE  Quiet
<1>1. ASSUME NEW id, NEW patch, ReadInvoice(r, id, patch)  PROVE Quiet
  <2> DEFINE s == [Idle EXCEPT !.op = "invoice", !.at = "replace", !.id = id,
                               !.invoice = Merged(invoices[id], patch)]
  <2>1. s.at = "replace"  BY DEF Idle
  <2>2. req' = [req EXCEPT ![r] = s]  BY <1>1 DEF ReadInvoice, Proceed
  <2> HIDE DEF s
  <2>3. Milder(req[r], s)  BY <2>1 DEF Milder, Aims
  <2> QED  BY <2>2, <2>3, MilderSlot, SlotsAreFunction DEF Quiet
<1>2. ASSUME NEW op, NEW m, NEW d, BeginFill(r, op, m, d)  PROVE Quiet
  <2> DEFINE s == [Idle EXCEPT !.op = op, !.target = d,
                               !.at = IF op \in Singles THEN "estimate" ELSE "survey",
                               !.todo = IF op \in Singles THEN {m} ELSE {}]
  <2>1. s.op = op /\ s.at = (IF op \in Singles THEN "estimate" ELSE "survey")  BY DEF Idle
  <2>2. req' = [req EXCEPT ![r] = s]  BY <1>2 DEF BeginFill, Proceed
  <2> HIDE DEF s
  <2>3. Milder(req[r], s)  BY <2>1 DEF Milder, Aims
  <2> QED  BY <2>2, <2>3, MilderSlot, SlotsAreFunction DEF Quiet
<1>3. CASE EstimateNext(r)
  <2>1. req[r] \in Slot /\ req[r].at = "estimate"
    BY <1>3, SameTables, EstimateNextDoes DEF SlotsTyped
  <2>2. ASSUME NEW m \in req[r].todo,
               req' = [req EXCEPT ![r] = [req[r] EXCEPT !.todo = req[r].todo \ {m}]]
        PROVE  Quiet
    <3> DEFINE s == [req[r] EXCEPT !.todo = req[r].todo \ {m}]
    <3>1. /\ s.at = "estimate" /\ s.op = req[r].op /\ s.target = req[r].target
          /\ s.todo = req[r].todo \ {m}
      BY <2>1 DEF Slot
    <3> HIDE DEF s
    <3>2. Milder(req[r], s)  BY <2>1, <3>1 DEF Milder, Aims
    <3> QED  BY <2>2, <3>2, MilderSlot, SlotsAreFunction DEF Quiet, s
  <2>3. ASSUME NEW m \in req[r].todo, NEW est \in Reading, est.meter = m,
               est.date = req[r].target,
               req' = [req EXCEPT ![r] = [req[r] EXCEPT !.at = "insert", !.est = est]]
        PROVE  Quiet
    <3> DEFINE s == [req[r] EXCEPT !.at = "insert", !.est = est]
    <3>1. /\ s.at = "insert" /\ s.op = req[r].op /\ s.target = req[r].target
          /\ s.todo = req[r].todo /\ s.est = est
      BY <2>1 DEF Slot
    <3> HIDE DEF s
    <3>2. Milder(req[r], s)  BY <2>1, <2>3, <3>1 DEF Milder, Aims
    <3> QED  BY <2>3, <3>2, MilderSlot, SlotsAreFunction DEF Quiet, s
  <2> QED  BY <1>3, <2>2, <2>3, QuietAnswer, EstimateNextDoes
<1> QED  BY <1>1, <1>2, <1>3

-----------------------------------------------------------------------------
(* The bound over a step.                                                  *)

\* A step that inserts nothing for a bulk fill adds no such reading; a start
\* brings back those of the file, when no request is in flight.
LEMMA FilledMove ==
  ASSUME StoreAssumption, TypeInv, ReadingsMove, UNCHANGED bulk, NEW m, m \notin edited', NEW d
  PROVE  \/ Filled(bulk', readings', m, d) \subseteq Filled(bulk, readings, m, d)
         \/ readings' = disk.image.readings /\ req' = req /\ ~up
<1>1. lastId \in Nat /\ bulk \subseteq 1..lastId /\ DOMAIN readings \subseteq 1..lastId
  BY SameTables DEF HistoryTyped, Table
<1>2. ASSUME NEW row \in Reading, Appended(row)
      PROVE  Filled(bulk', readings', m, d) \subseteq Filled(bulk, readings, m, d)
  <2>1. lastId + 1 \notin bulk  BY <1>1
  <2>2. /\ DOMAIN readings' = DOMAIN readings \cup {lastId + 1}
        /\ \A i \in DOMAIN readings : i # lastId + 1 => readings'[i] = readings[i]
    BY <1>2 DEF Appended, Put
  <2> QED  BY <2>1, <2>2 DEF Filled
<1>3. ASSUME NEW id \in DOMAIN readings, NEW row \in Reading, Changed(id, row)
      PROVE  Filled(bulk', readings', m, d) \subseteq Filled(bulk, readings, m, d)
  <2>1. /\ DOMAIN readings' = DOMAIN readings /\ readings'[id] = row
        /\ \A i \in DOMAIN readings : i # id => readings'[i] = readings[i]
    BY <1>3, SameTables DEF Changed, Table
  <2>2. row.meter # m  BY <1>3 DEF Changed
  <2> QED  BY <2>1, <2>2 DEF Filled
<1>4. ASSUME NEW id \in DOMAIN readings, Dropped(id)
      PROVE  Filled(bulk', readings', m, d) \subseteq Filled(bulk, readings, m, d)
  BY <1>4 DEF Dropped, Without, Filled
<1>5. CASE readings' = Listed(Sample, lastId)
  <2>1. \A i \in DOMAIN readings' : i > lastId
    BY <1>1, <1>5 DEF Listed, StoreAssumption
  <2>2. \A i \in bulk : i <= lastId /\ i \in Nat  BY <1>1
  <2>3. ASSUME NEW i \in bulk  PROVE i \notin DOMAIN readings'  BY <1>1, <2>1, <2>2
  <2>4. Filled(bulk', readings', m, d) = {}  BY <2>3 DEF Filled
  <2> QED  BY <2>4
<1>6. CASE readings' = Empty  BY <1>6 DEF Empty, Filled
<1>7. CASE UNCHANGED readings  BY <1>7 DEF Filled
<1> QED  BY <1>2, <1>3, <1>4, <1>5, <1>6, <1>7 DEF ReadingsMove

\* The bound in memory gives the bound in the file.
LEMMA FileBounded ==
  ASSUME FlowAssumption, TypeInv, TypeInv', ReadingsMove, bulk' \subseteq bulk \cup {lastId + 1},
         NEW m, NEW d, Bounded(bulk', readings', req', m, d),
         Cardinality(Filled(bulk, disk.image.readings, m, d)) <= Cardinality(Req)
  PROVE  Cardinality(Filled(bulk', disk'.image.readings, m, d)) <= Cardinality(Req)
<1>1. /\ lastId \in Nat /\ bulk \subseteq 1..lastId
      /\ DOMAIN disk.image.readings \subseteq 1..lastId
  BY SameTables, TypeParts DEF HistoryTyped, Table, DiskTyped
<1>2. lastId' \in Nat /\ bulk' \subseteq 1..lastId'
  BY TypePartsNext DEF MemoryTyped, HistoryTyped
<1>3. Cardinality(Req) \in Nat  BY FS_CardinalityType DEF FlowAssumption
<1>4. CASE disk'.image.readings = readings'
  <2> DEFINE x == Cardinality(Filled(bulk', readings', m, d))
             v == Cardinality(Filling(req', m, d))
  <2>1. x \in Nat
    <3>1. Filled(bulk', readings', m, d) \in SUBSET Filled(bulk', readings', m, d)  OBVIOUS
    <3> QED  BY <1>2, <3>1, FilledFinite
  <2>2. v \in Nat
    <3>1. Filling(req', m, d) \in SUBSET Filling(req', m, d)  OBVIOUS
    <3> QED  BY <3>1, FillingFinite
  <2>3. x + v <= Cardinality(Req)  BY DEF Bounded
  <2> HIDE DEF x, v
  <2>4. x <= Cardinality(Req)  BY <1>3, <2>1, <2>2, <2>3
  <2> QED  BY <1>4, <2>4 DEF x
<1>5. CASE disk'.image.readings = disk.image.readings
  <2>1. lastId + 1 \notin DOMAIN disk.image.readings  BY <1>1
  <2>2. Filled(bulk', disk.image.readings, m, d) \in SUBSET Filled(bulk, disk.image.readings, m, d)
    BY <2>1 DEF Filled
  <2>3. Filled(bulk, disk.image.readings, m, d) \in SUBSET Filled(bulk, disk.image.readings, m, d)
    OBVIOUS
  <2>4. /\ Cardinality(Filled(bulk', disk.image.readings, m, d)) \in Nat
        /\ Cardinality(Filled(bulk, disk.image.readings, m, d)) \in Nat
        /\ Cardinality(Filled(bulk', disk.image.readings, m, d))
             <= Cardinality(Filled(bulk, disk.image.readings, m, d))
    BY <1>1, <2>2, <2>3, FilledFinite
  <2> QED  BY <1>3, <1>5, <2>4
<1>6. CASE disk'.image.readings = Empty
  <2>1. Filled(bulk', disk'.image.readings, m, d) = {}  BY <1>6 DEF Filled, Empty
  <2>2. Cardinality({}) = 0  BY FS_EmptySet
  <2> QED  BY <1>3, <2>1, <2>2
<1> QED  BY <1>4, <1>5, <1>6 DEF ReadingsMove

LEMMA GapQuiet ==
  ASSUME StoreAssumption, FlowAssumption, TypeInv, TypeInv', GapInv, ReadingsMove,
         UNCHANGED bulk, Quiet
  PROVE  GapInv'
<1>1. lastId \in Nat /\ bulk \subseteq 1..lastId  BY SameTables DEF HistoryTyped
<1>2. ASSUME NEW m \in Meters \ edited', NEW d \in Nat
      PROVE  /\ Bounded(bulk', readings', req', m, d)
             /\ Cardinality(Filled(bulk', disk'.image.readings, m, d)) <= Cardinality(Req)
  <2>1. m \in Meters \ edited /\ m \notin edited'  BY DEF ReadingsMove
  <2>2. /\ Bounded(bulk, readings, req, m, d)
        /\ Cardinality(Filled(bulk, disk.image.readings, m, d)) <= Cardinality(Req)
    BY <2>1 DEF GapInv
  <2>3. Bounded(bulk', readings', req', m, d)
    <3>1. CASE Filled(bulk', readings', m, d) \subseteq Filled(bulk, readings, m, d)
      <4>1. Filling(req', m, d) \subseteq Filling(req, m, d)  BY DEF Quiet
      <4> QED  BY <1>1, <2>2, <3>1, <4>1, BoundedFewer
    <3>2. CASE readings' = disk.image.readings /\ req' = req /\ ~up
      <4>1. \A r \in Req : req'[r] = Idle  BY <3>2, TypeParts DEF ProcessTyped
      <4>2. Filling(req', m, d) = {}  BY <4>1, IdleTyped DEF Filling, Aims
      <4>3. Cardinality({}) = 0 /\ Cardinality(Req) \in Nat
        BY FS_EmptySet, FS_CardinalityType DEF FlowAssumption
      <4>4. Filled(bulk, disk.image.readings, m, d)
              \in SUBSET Filled(bulk, disk.image.readings, m, d)
        OBVIOUS
      <4>5. Cardinality(Filled(bulk, disk.image.readings, m, d)) \in Nat
        BY <1>1, <4>4, FilledFinite
      <4> DEFINE x == Cardinality(Filled(bulk, disk.image.readings, m, d))
      <4>6. x + 0 <= Cardinality(Req)
        <5>1. x \in Nat /\ x <= Cardinality(Req)  BY <2>2, <4>5
        <5> HIDE DEF x
        <5> QED  BY <4>3, <5>1
      <4> QED  BY <3>2, <4>2, <4>3, <4>6 DEF Bounded
    <3> QED  BY <2>1, <3>1, <3>2, FilledMove
  <2>4. bulk' \subseteq bulk \cup {lastId + 1}  OBVIOUS
  <2> QED  BY <2>2, <2>3, <2>4, FileBounded
<1> QED  BY <1>2 DEF GapInv, Quiet

\* The survey names a meter only when it has no reading of the day yet.
LEMMA GapSurvey ==
  ASSUME StoreAssumption, FlowAssumption, TypeInv, TypeInv', GapInv, NEW r \in Req, NEW site,
         Survey(r, site)
  PROVE  GapInv'
<1>1. /\ ReadingsMove /\ UNCHANGED <<readings, bulk, edited, disk, lastId>>
      /\ lastId \in Nat /\ bulk \subseteq 1..lastId
  <2>1. UNCHANGED <<storeVars, history>>  BY DEF Survey
  <2> QED  BY <2>1, SameTables DEF storeVars, memory, history, ReadingsMove, HistoryTyped
<1> DEFINE s == [req[r] EXCEPT !.at = "estimate", !.todo = Stale(site, req[r].target)]
<1>2. /\ req = [i \in Req |-> req[i]] /\ req[r] \in Slot /\ req[r].at = "survey"
  BY SlotsAreFunction, SameTables DEF SlotsTyped, Survey
<1>3. req' = [req EXCEPT ![r] = s]  BY <1>2 DEF Survey, Slot
<1>4. /\ s.at = "estimate" /\ s.op = req[r].op /\ s.target = req[r].target
      /\ s.todo = Stale(site, req[r].target) /\ req[r].target \in Nat
  BY <1>2 DEF Slot
<1> HIDE DEF s
<1>5. \A i \in Req : req'[i] = IF i = r THEN s ELSE req[i]  BY <1>2, <1>3
<1>6. Aimed(req')  BY <1>4, <1>5 DEF Aimed, GapInv
<1>7. ASSUME NEW m \in Meters \ edited', NEW d \in Nat
      PROVE  /\ Bounded(bulk', readings', req', m, d)
             /\ Cardinality(Filled(bulk', disk'.image.readings, m, d)) <= Cardinality(Req)
  <2>1. /\ Bounded(bulk, readings, req, m, d)
        /\ Cardinality(Filled(bulk, disk.image.readings, m, d)) <= Cardinality(Req)
    BY <1>1 DEF GapInv
  <2>2. CASE m \in Stale(site, req[r].target) /\ d = req[r].target
    <3>1. ASSUME NEW i \in DOMAIN readings, readings[i].meter = m  PROVE readings[i].date # d
      <4>1. i \in Of(m) /\ readings[i] \in Reading  BY <3>1, SameTables DEF Of, Table
      <4>2. readings[i].date <= d - Freshness  BY <2>2, <4>1 DEF Stale
      <4>3. readings[i].date \in Nat  BY <4>1 DEF Reading
      <4> QED  BY <4>2, <4>3 DEF FlowAssumption
    <3>2. Filled(bulk, readings, m, d) = {}  BY <3>1 DEF Filled
    <3>3. Filling(req', m, d) \in SUBSET Filling(req', m, d)  OBVIOUS
    <3>4. /\ Cardinality(Filling(req', m, d)) \in Nat /\ Cardinality(Req) \in Nat
          /\ Cardinality(Filling(req', m, d)) <= Cardinality(Req)
      BY <3>3, FillingFinite
    <3>5. Cardinality({}) = 0  BY FS_EmptySet
    <3>6. Bounded(bulk', readings', req', m, d)  BY <1>1, <3>2, <3>4, <3>5 DEF Bounded
    <3> QED  BY <1>1, <2>1, <3>6
  <2>3. CASE ~(m \in Stale(site, req[r].target) /\ d = req[r].target)
    <3>1. Filling(req', m, d) \subseteq Filling(req, m, d)
      BY <1>4, <1>5, <2>3 DEF Filling, Aims
    <3>2. Bounded(bulk', readings', req', m, d)  BY <1>1, <2>1, <3>1, BoundedFewer
    <3> QED  BY <1>1, <2>1, <3>2
  <2> QED  BY <2>2, <2>3
<1> QED  BY <1>6, <1>7 DEF GapInv

\* The insertion takes its meter off the request's list.
LEMMA GapInsert ==
  ASSUME StoreAssumption, FlowAssumption, TypeInv, TypeInv', GapInv, NEW r \in Req,
         NEW out \in Outcomes, InsertEstimate(r, out)
  PROVE  GapInv'
<1> DEFINE est == req[r].est
           new == lastId + 1
<1>1. ReadingsMove /\ Appended(est) /\ UNCHANGED edited
  BY MoveByInsert, InsertEstimateDoes
<1>2. /\ lastId \in Nat /\ bulk \subseteq 1..lastId /\ DOMAIN readings \subseteq 1..lastId
      /\ req = [i \in Req |-> req[i]] /\ req[r] \in Slot /\ est \in Reading
  BY SameTables DEF HistoryTyped, Table, SlotsTyped, Slot
<1>3. bulk' = IF req[r].op \in Singles THEN bulk ELSE bulk \cup {new}
  BY InsertEstimateDoes DEF Fresh
<1>4. req[r].at = "insert" /\ est.meter \in req[r].todo /\ est.date = req[r].target
  BY InsertEstimateDoes DEF GapInv, Aimed
<1>5. PICK s : /\ req' = [req EXCEPT ![r] = s] /\ s.at # "insert"
               /\ s.at = "estimate" => /\ s.op = req[r].op /\ s.target = req[r].target
                                       /\ s.todo = req[r].todo \ {est.meter}
  <2>1. CASE Answer(r)  BY <2>1, IdleTyped DEF Answer
  <2>2. CASE req' = [req EXCEPT ![r] = [req[r] EXCEPT !.at = "estimate", !.est = None,
                                          !.todo = req[r].todo \ {est.meter}]]
    <3> DEFINE t == [req[r] EXCEPT !.at = "estimate", !.est = None,
                                   !.todo = req[r].todo \ {est.meter}]
    <3>1. /\ t.at = "estimate" /\ t.op = req[r].op /\ t.target = req[r].target
          /\ t.todo = req[r].todo \ {est.meter}
      BY <1>2 DEF Slot
    <3>2. req' = [req EXCEPT ![r] = t]  BY <2>2
    <3> HIDE DEF t, est
    <3> QED  BY <3>1, <3>2
  <2> QED  BY <2>1, <2>2, InsertEstimateDoes
<1>6. \A i \in Req : req'[i] = IF i = r THEN s ELSE req[i]  BY <1>2, <1>5
<1>7. Aimed(req')  BY <1>5, <1>6 DEF Aimed, GapInv
<1>8. \A m, d : Filling(req', m, d) \subseteq Filling(req, m, d)
  BY <1>4, <1>5, <1>6 DEF Filling, Aims
<1>9. /\ DOMAIN readings' = DOMAIN readings \cup {new} /\ new \notin DOMAIN readings
      /\ \A i \in DOMAIN readings : readings'[i] = readings[i]
      /\ readings'[new].meter = est.meter /\ readings'[new].date = est.date
  <2>1. readings' = Put(readings, new, Metered(est)) /\ new \notin DOMAIN readings
    BY <1>1, <1>2 DEF Appended
  <2>2. Metered(est).meter = est.meter /\ Metered(est).date = est.date
    BY <1>2, MeteredReading DEF Reading
  <2> HIDE DEF est, new
  <2> QED  BY <2>1, <2>2 DEF Put
<1> HIDE DEF new, est
<1>10. ASSUME NEW m \in Meters \ edited', NEW d \in Nat
       PROVE  Bounded(bulk', readings', req', m, d)
  <2>1. Bounded(bulk, readings, req, m, d)  BY <1>1, <1>10 DEF GapInv
  <2>2. CASE /\ req[r].op \notin Singles /\ m = est.meter /\ d = est.date
    <3>1. r \in Filling(req, m, d)  BY <1>4, <2>2 DEF Filling, Aims
    <3>2. r \notin Filling(req', m, d)  BY <1>5, <1>6, <2>2 DEF Filling, Aims
    <3>3. Filling(req', m, d) \subseteq Filling(req, m, d) \ {r}  BY <1>8, <3>2
    <3>4. Filled(bulk', readings', m, d) \subseteq Filled(bulk, readings, m, d) \cup {new}
      BY <1>3, <1>9 DEF Filled
    <3>5. lastId \in Nat /\ bulk \subseteq 1..lastId  BY <1>2
    <3> QED  BY ONLY FlowAssumption, <2>1, <3>1, <3>3, <3>4, <3>5, BoundedMoved
  <2>3. CASE ~(req[r].op \notin Singles /\ m = est.meter /\ d = est.date)
    <3>1. new \notin bulk  BY <1>2 DEF new
    <3>2. Filled(bulk', readings', m, d) \subseteq Filled(bulk, readings, m, d)
      BY <1>3, <1>9, <2>3, <3>1 DEF Filled
    <3> QED  BY <1>2, <1>8, <2>1, <3>2, BoundedFewer
  <2> QED  BY <2>2, <2>3
<1>11. ASSUME NEW m \in Meters \ edited', NEW d \in Nat
       PROVE  Cardinality(Filled(bulk', disk'.image.readings, m, d)) <= Cardinality(Req)
  <2>1. Cardinality(Filled(bulk, disk.image.readings, m, d)) <= Cardinality(Req)
    BY <1>1 DEF GapInv
  <2>2. bulk' \subseteq bulk \cup {lastId + 1}  BY <1>3 DEF new
  <2> QED  BY <1>1, <1>10, <2>1, <2>2, FileBounded
<1> QED  BY <1>7, <1>10, <1>11 DEF GapInv

LEMMA GapStep ==
  ASSUME StoreAssumption, FlowAssumption, TypeInv, TypeInv', GapInv, [Next]_vars
  PROVE  GapInv'
<1>1. Aimed(req)  BY DEF GapInv
<1>2. CASE \E out \in Outcomes : ReadingNext(out)
  <2>1. ReadingsMove /\ UNCHANGED <<bulk, req>>  BY <1>2, MoveByRequest
  <2> QED  BY <1>1, <2>1, QuietSame, GapQuiet
<1>3. CASE \E out \in Outcomes : Clear(out) \/ Seed(out)
  <2>1. ReadingsMove /\ UNCHANGED <<bulk, req>>  BY <1>3, MoveByData
  <2> QED  BY <1>1, <2>1, QuietSame, GapQuiet
<1>4. CASE \E out \in Outcomes, r \in Req : InsertEstimate(r, out)  BY <1>4, GapInsert
<1>5. CASE \E out \in Outcomes : \/ TonnesNext(out) \/ InvoiceNext(out)
                                 \/ \E enabled \in BOOLEAN : PutPreferences(enabled, out)
  BY <1>1, <1>5, MoveElsewhere, QuietElsewhere, GapQuiet
<1>6. CASE (\E torn \in BOOLEAN : Crash(torn)) \/ (\E out \in Outcomes : Start(out))
  BY <1>1, <1>6, MoveByProcess, QuietProcess, GapQuiet
<1>7. CASE SlotStep
  <2>1. ReadingsMove /\ UNCHANGED bulk  BY <1>7, MoveBySlot
  <2>2. PICK r \in Req :
          \/ \E site \in Sites \cup {Keep} : Survey(r, site)
          \/ \/ \E id \in DOMAIN invoices, patch \in InvoicePatch : ReadInvoice(r, id, patch)
             \/ \E op \in Fills, m \in MeterIds, d \in Dates : BeginFill(r, op, m, d)
             \/ EstimateNext(r)
    BY <1>7 DEF SlotStep
  <2>3. CASE \E site \in Sites \cup {Keep} : Survey(r, site)  BY <2>3, GapSurvey
  <2>4. CASE ~ \E site \in Sites \cup {Keep} : Survey(r, site)
    <3>1. Quiet  BY <1>1, <2>2, <2>4, QuietSlot
    <3> QED  BY <2>1, <3>1, GapQuiet
  <2> QED  BY <2>3, <2>4
<1>8. CASE UNCHANGED vars
  <2>1. ReadingsMove /\ UNCHANGED <<bulk, req>>  BY <1>8, MoveBySlot DEF vars
  <2> QED  BY <1>1, <2>1, QuietSame, GapQuiet
<1> QED  BY <1>2, <1>3, <1>4, <1>5, <1>6, <1>7, <1>8, StepKinds

LEMMA GapInit == ASSUME FlowAssumption, Init PROVE GapInv
<1>1. /\ bulk = {} /\ \A r \in Req : req[r] = Idle  BY DEF Init
<1>2. Aimed(req)  BY <1>1, IdleTyped DEF Aimed
<1>3. ASSUME NEW m, NEW d  PROVE Filling(req, m, d) = {}
  BY <1>1, IdleTyped DEF Filling, Aims
<1>4. ASSUME NEW t, NEW m, NEW d  PROVE Filled(bulk, t, m, d) = {}  BY <1>1 DEF Filled
<1>5. Cardinality({}) = 0 /\ Cardinality(Req) \in Nat
  BY FS_EmptySet, FS_CardinalityType DEF FlowAssumption
<1>6. ASSUME NEW m, NEW d
      PROVE  /\ Bounded(bulk, readings, req, m, d)
             /\ Cardinality(Filled(bulk, disk.image.readings, m, d)) <= Cardinality(Req)
  <2>1. /\ Filled(bulk, readings, m, d) = {} /\ Filling(req, m, d) = {}
        /\ Filled(bulk, disk.image.readings, m, d) = {}
    BY <1>3, <1>4
  <2> QED  BY <1>5, <2>1 DEF Bounded
<1> QED  BY <1>2, <1>6 DEF GapInv

LEMMA GapBound ==
  ASSUME FlowAssumption, TypeInv, GapInv
  PROVE  GapsFilledOncePerRequest
<1> SUFFICES ASSUME NEW m \in Meters \ edited, NEW d \in Dates
             PROVE  Cardinality({i \in bulk \cap Of(m) : readings[i].date = d}) <= Cardinality(Req)
  BY DEF GapsFilledOncePerRequest
<1>1. {i \in bulk \cap Of(m) : readings[i].date = d} = Filled(bulk, readings, m, d)
  BY DEF Of, Filled
<1>2. d \in Nat /\ Bounded(bulk, readings, req, m, d)  BY DEF FlowAssumption, GapInv
<1>3. lastId \in Nat /\ bulk \subseteq 1..lastId  BY SameTables DEF HistoryTyped
<1> DEFINE x == Cardinality(Filled(bulk, readings, m, d))
           v == Cardinality(Filling(req, m, d))
<1>4. x \in Nat
  <2>1. Filled(bulk, readings, m, d) \in SUBSET Filled(bulk, readings, m, d)  OBVIOUS
  <2> QED  BY <1>3, <2>1, FilledFinite
<1>5. v \in Nat /\ Cardinality(Req) \in Nat
  <2>1. Filling(req, m, d) \in SUBSET Filling(req, m, d)  OBVIOUS
  <2> QED  BY <2>1, FillingFinite
<1>6. x + v <= Cardinality(Req)  BY <1>2 DEF Bounded
<1> HIDE DEF x, v
<1>7. x <= Cardinality(Req)  BY <1>4, <1>5, <1>6
<1> QED  BY <1>1, <1>7 DEF x

\* Bulk fills check freshness on a snapshot and insert later, so the same gap
\* may be filled once by each request in flight, and never more often: not by
\* requests that follow, nor by what a restart brings back from the file.
THEOREM GapsFilled == Spec => []GapsFilledOncePerRequest
<1>1. Init => GapInv  BY FlowAssumption, GapInit
<1>2. TypeInv /\ TypeInv' /\ GapInv /\ [Next]_vars => GapInv'
  BY StoreAssumption, FlowAssumption, GapStep
<1>3. TypeInv /\ GapInv => GapsFilledOncePerRequest  BY FlowAssumption, GapBound
<1> QED  BY <1>1, <1>2, <1>3, TypeInvariant, PTL DEF Spec
=============================================================================
