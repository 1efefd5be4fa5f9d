------------------------------ MODULE WaterProofs ------------------------------
(***************************************************************************)
(* The invoices and the durability of rows, for any number of meters, rows *)
(* and requests: one inductive invariant, and the implementation of the    *)
(* abstract register of invoices.                                          *)
(***************************************************************************)
EXTENDS WaterFlow, WaterDataProofs

\* The register's invoices.
LEMMA RegisterProper == Register!Proper = Proper
BY DEF Register!Proper, Proper

\* Three tables whose ids are apart and were given, and invoices of their site.
Sound(rs, ts, is, n) ==
  /\ DOMAIN rs \subseteq 1..n /\ DOMAIN ts \subseteq 1..n /\ DOMAIN is \subseteq 1..n
  /\ DOMAIN rs \cap DOMAIN ts = {} /\ DOMAIN rs \cap DOMAIN is = {}
  /\ DOMAIN ts \cap DOMAIN is = {}
  /\ is \in [DOMAIN is -> Proper]

MemorySound == Sound(readings, tonnes, invoices, lastId)

DiskSound == /\ Sound(disk.image.readings, disk.image.tonnes, disk.image.invoices, lastId)
             /\ disk.state \in {"missing", "whole", "torn"}
             /\ disk.state # "whole" => disk.image = Blank

\* The copy a request is about to write is one it has checked.
IsSlot(s) == /\ {"at", "invoice"} \subseteq DOMAIN s
             /\ s.at = "replace" => s.invoice \in Proper

Checked == /\ req = [r \in Req |-> req[r]]
           /\ \A r \in Req : IsSlot(req[r])

Down == ~up => /\ \A r \in Req : req[r].at = "idle"
               /\ invoices = Empty

Given == lastId \in Nat /\ kept \subseteq 1..lastId /\ gone \subseteq 1..lastId

IInv == /\ up \in BOOLEAN /\ Given
        /\ MemorySound /\ DiskSound /\ Checked /\ Down
        /\ AnsweredSurvives /\ RemovalSticks

LEMMA InvariantImplies ==
  ASSUME IInv
  PROVE  InvoicesMatchSites /\ AnsweredSurvives /\ RemovalSticks
<1>1. ASSUME NEW table, table \in [DOMAIN table -> Proper], NEW id \in DOMAIN table
      PROVE  table[id].site = SiteOf[table[id].meter]
  BY <1>1 DEF Proper
<1>2. \A table \in {invoices, disk.image.invoices} : table \in [DOMAIN table -> Proper]
  BY DEF IInv, MemorySound, DiskSound, Sound
<1> QED  BY <1>1, <1>2 DEF IInv, InvoicesMatchSites

-----------------------------------------------------------------------------
(* A working step: rows added and removed, then a Save.                    *)

LEMMA BlankSound ==
  ASSUME NEW n \in Nat
  PROVE  Sound(Blank.readings, Blank.tonnes, Blank.invoices, n) /\ Rows(Blank) = {}
BY DEF Sound, Blank, Empty, Rows

LEMMA SaveOutcome ==
  ASSUME NEW out \in Outcomes, Save(out)
  PROVE  \/ /\ out = "written" /\ disk'.state = "whole"
            /\ disk'.image.readings = readings' /\ disk'.image.tonnes = tonnes'
            /\ disk'.image.invoices = invoices' /\ disk'.image.autoFill = autoFill'
         \/ out = "left" /\ disk' = disk
         \/ out = "torn" /\ disk' = [state |-> "torn", image |-> Blank]
<1>1. CASE out = "written"  BY <1>1 DEF Save
<1>2. CASE out = "left"  BY <1>2 DEF Save
<1>3. CASE out = "torn"  BY <1>3 DEF Save
<1> QED  BY <1>1, <1>2, <1>3 DEF Outcomes

LEMMA SoundGrows ==
  ASSUME NEW rs, NEW ts, NEW is, NEW n \in Nat, NEW k \in Nat, n <= k, Sound(rs, ts, is, n)
  PROVE  Sound(rs, ts, is, k)
<1>1. 1..n \subseteq 1..k  OBVIOUS
<1> QED  BY <1>1 DEF Sound

LEMMA SaveKeepsDisk ==
  ASSUME NEW out \in Outcomes, Save(out), Given, DiskSound,
         lastId' \in Nat, lastId <= lastId', MemorySound'
  PROVE  DiskSound'
<1>1. CASE out = "written"  BY <1>1, SaveOutcome DEF DiskSound, MemorySound
<1>2. CASE out = "left"  BY <1>2, SaveOutcome, SoundGrows DEF DiskSound, Given
<1>3. CASE out = "torn"
  <2>1. disk' = [state |-> "torn", image |-> Blank]  BY <1>3, SaveOutcome
  <2> QED  BY <2>1, BlankSound DEF DiskSound
<1> QED  BY <1>1, <1>2, <1>3 DEF Outcomes

\* The rows a step adds have ids never given, and those it removes were there.
LEMMA RowsStep ==
  ASSUME IInv, up, up', NEW out \in Outcomes, Save(out),
         lastId' \in Nat, lastId <= lastId', MemorySound',
         NEW add, add \subseteq (lastId + 1)..lastId', NEW del, del \subseteq InMemory,
         InMemory' = (InMemory \ del) \cup add,
         kept' \subseteq (kept \ del) \cup (IF out = "written" THEN add ELSE {}),
         gone' \subseteq gone \cup (IF out = "written" THEN del ELSE {})
  PROVE  Given' /\ AnsweredSurvives' /\ RemovalSticks'
<1>1. 1..lastId \subseteq 1..lastId' /\ add \subseteq 1..lastId' /\ add \cap 1..lastId = {}
  BY DEF IInv, Given
<1>2. InMemory \subseteq 1..lastId  BY DEF IInv, MemorySound, Sound, InMemory
<1>3. Given'  BY <1>1, <1>2 DEF IInv, Given
<1>4. kept' \subseteq InMemory'  BY DEF IInv, AnsweredSurvives
<1>5. gone' \cap InMemory' = {}
  <2>1. gone \cap add = {} /\ del \cap add = {}  BY <1>1, <1>2 DEF IInv, Given
  <2>2. gone \cap InMemory = {}  BY DEF IInv, RemovalSticks
  <2> QED  BY <2>1, <2>2
<1>6. CASE out = "written"
  <2>1. Rows(disk'.image) = InMemory'  BY <1>6, SaveOutcome DEF Rows, InMemory
  <2> QED  BY <1>3, <1>4, <1>5, <2>1 DEF AnsweredSurvives, RemovalSticks
<1>7. CASE out = "left"
  <2>1. disk' = disk /\ kept' \subseteq kept /\ gone' \subseteq gone  BY <1>7, SaveOutcome
  <2>2. AnsweredSurvives'  BY <1>4, <2>1 DEF IInv, AnsweredSurvives
  <2>3. RemovalSticks'  BY <1>5, <2>1 DEF IInv, RemovalSticks
  <2> QED  BY <1>3, <2>2, <2>3
<1>8. CASE out = "torn"
  <2>1. disk' = [state |-> "torn", image |-> Blank]  BY <1>8, SaveOutcome
  <2>2. Rows(disk'.image) = {}  BY <2>1, BlankSound DEF IInv, Given
  <2> QED  BY <1>3, <1>4, <1>5, <2>1, <2>2 DEF AnsweredSurvives, RemovalSticks
<1> QED  BY <1>6, <1>7, <1>8 DEF Outcomes

Works(out, add, del) ==
  /\ up /\ up' = up /\ Save(out)
  /\ lastId' \in Nat /\ lastId <= lastId' /\ MemorySound'
  /\ add \subseteq (lastId + 1)..lastId' /\ del \subseteq InMemory
  /\ InMemory' = (InMemory \ del) \cup add
  /\ kept' \subseteq (kept \ del) \cup (IF out = "written" THEN add ELSE {})
  /\ gone' \subseteq gone \cup (IF out = "written" THEN del ELSE {})
  /\ Checked'

LEMMA WorkKeeps ==
  ASSUME IInv, NEW out \in Outcomes, NEW add, NEW del, Works(out, add, del)
  PROVE  IInv'
<1>1. Given' /\ AnsweredSurvives' /\ RemovalSticks'  BY RowsStep DEF Works
<1>2. DiskSound'  BY SaveKeepsDisk DEF Works, IInv
<1>3. Down' /\ up' \in BOOLEAN  BY DEF Works, Down, IInv
<1> QED  BY <1>1, <1>2, <1>3 DEF IInv, Works

\* A step that leaves the slots alone leaves them checked.
LEMMA SameSlots == ASSUME Checked, UNCHANGED req  PROVE Checked'
BY DEF Checked

LEMMA IdleSlot == IsSlot(Idle) /\ Idle.at = "idle"
BY DEF IsSlot, Idle

LEMMA OneSlot ==
  ASSUME Checked, NEW r \in Req, NEW s, req' = [req EXCEPT ![r] = s],
         IsSlot(s)
  PROVE  Checked'
BY DEF Checked

-----------------------------------------------------------------------------
(* Tables.                                                                 *)

LEMMA PutRow ==
  ASSUME NEW t, NEW k, NEW row
  PROVE  DOMAIN Put(t, k, row) = DOMAIN t \cup {k}
BY DEF Put

LEMMA WithoutRows ==
  ASSUME NEW t, NEW ids
  PROVE  DOMAIN Without(t, ids) = DOMAIN t \ ids
BY DEF Without

LEMMA AddReadingWorks ==
  ASSUME IInv, NEW row, NEW out, AddReading(row, out)
  PROVE  /\ lastId' = lastId + 1 /\ lastId' \in Nat /\ Save(out) /\ MemorySound'
         /\ InMemory' = InMemory \cup {Fresh}
<1>1. /\ lastId' = lastId + 1 /\ Save(out)
      /\ DOMAIN readings' = DOMAIN readings \cup {lastId + 1}
      /\ UNCHANGED <<tonnes, invoices>>
  BY PutRow DEF AddReading, Fresh
<1>2. lastId \in Nat  BY DEF IInv, Given
<1>3. 1..lastId \subseteq 1..(lastId + 1) /\ lastId + 1 \in 1..(lastId + 1)
      /\ lastId + 1 \notin 1..lastId
  BY <1>2
<1>4. MemorySound'  BY <1>1, <1>3 DEF IInv, MemorySound, Sound
<1> QED  BY <1>1, <1>2, <1>4 DEF InMemory, Fresh

LEMMA AddTonnesWorks ==
  ASSUME IInv, NEW row, NEW out, AddTonnes(row, out)
  PROVE  /\ lastId' = lastId + 1 /\ lastId' \in Nat /\ Save(out) /\ MemorySound'
         /\ InMemory' = InMemory \cup {Fresh}
<1>1. /\ lastId' = lastId + 1 /\ Save(out)
      /\ DOMAIN tonnes' = DOMAIN tonnes \cup {lastId + 1}
      /\ UNCHANGED <<readings, invoices>>
  BY PutRow DEF AddTonnes, Fresh
<1>2. lastId \in Nat  BY DEF IInv, Given
<1>3. 1..lastId \subseteq 1..(lastId + 1) /\ lastId + 1 \in 1..(lastId + 1)
      /\ lastId + 1 \notin 1..lastId
  BY <1>2
<1>4. MemorySound'  BY <1>1, <1>3 DEF IInv, MemorySound, Sound
<1> QED  BY <1>1, <1>2, <1>4 DEF InMemory, Fresh

LEMMA AddInvoiceWorks ==
  ASSUME IInv, NEW row \in Proper, NEW out, AddInvoice(row, out)
  PROVE  /\ lastId' = lastId + 1 /\ lastId' \in Nat /\ Save(out) /\ MemorySound'
         /\ InMemory' = InMemory \cup {Fresh}
<1>1. /\ lastId' = lastId + 1 /\ Save(out)
      /\ DOMAIN invoices' = DOMAIN invoices \cup {lastId + 1}
      /\ UNCHANGED <<readings, tonnes>>
  BY PutRow DEF AddInvoice, Fresh
<1>2. lastId \in Nat  BY DEF IInv, Given
<1>3. 1..lastId \subseteq 1..(lastId + 1) /\ lastId + 1 \in 1..(lastId + 1)
      /\ lastId + 1 \notin 1..lastId
  BY <1>2
<1>4. invoices' \in [DOMAIN invoices' -> Proper]
  BY DEF IInv, MemorySound, Sound, AddInvoice, Put
<1>5. MemorySound'  BY <1>1, <1>3, <1>4 DEF IInv, MemorySound, Sound
<1> QED  BY <1>1, <1>2, <1>5 DEF InMemory, Fresh

-----------------------------------------------------------------------------
(* The handlers.                                                           *)

LEMMA PostReadingKeeps ==
  ASSUME IInv, NEW m, NEW v, NEW d, NEW out \in Outcomes, PostReading(m, v, d, out)
  PROVE  IInv'
<1>1. \E row : AddReading(row, out)  BY DEF PostReading
<1>2. /\ lastId' = lastId + 1 /\ lastId' \in Nat /\ Save(out) /\ MemorySound'
      /\ InMemory' = InMemory \cup {Fresh}
  BY <1>1, AddReadingWorks
<1>3. Checked'  BY SameSlots DEF IInv, PostReading
<1>4. Works(out, {Fresh}, {})
  BY <1>2, <1>3 DEF IInv, Given, Works, Fresh, PostReading, Sends, Added
<1> QED  BY <1>4, WorkKeeps

LEMMA PostTonnesKeeps ==
  ASSUME IInv, NEW site, NEW amount, NEW out \in Outcomes, PostTonnes(site, amount, out)
  PROVE  IInv'
<1>1. \E row : AddTonnes(row, out)  BY DEF PostTonnes
<1>2. /\ lastId' = lastId + 1 /\ lastId' \in Nat /\ Save(out) /\ MemorySound'
      /\ InMemory' = InMemory \cup {Fresh}
  BY <1>1, AddTonnesWorks
<1>3. Checked'  BY SameSlots DEF IInv, PostTonnes
<1>4. Works(out, {Fresh}, {})
  BY <1>2, <1>3 DEF IInv, Given, Works, Fresh, PostTonnes, Sends, Added
<1> QED  BY <1>4, WorkKeeps

LEMMA PutPreferencesKeeps ==
  ASSUME IInv, NEW enabled, NEW out \in Outcomes, PutPreferences(enabled, out)
  PROVE  IInv'
<1>1. Save(out) /\ UNCHANGED <<readings, tonnes, invoices, lastId, up, req, kept, gone>>
  BY DEF PutPreferences, UpdatePreferences, history
<1>2. MemorySound' /\ InMemory' = InMemory /\ Checked'
  BY <1>1, SameSlots DEF IInv, MemorySound, InMemory
<1>3. Works(out, {}, {})
  BY <1>1, <1>2 DEF IInv, Given, Works, PutPreferences, Sends
<1> QED  BY <1>3, WorkKeeps

LEMMA ClearKeeps ==
  ASSUME IInv, NEW out \in Outcomes, Clear(out)
  PROVE  IInv'
<1> DEFINE del == DOMAIN readings \cup DOMAIN tonnes
<1>1. /\ Save(out) /\ UNCHANGED <<invoices, lastId, up, req>>
      /\ DOMAIN readings' = {} /\ DOMAIN tonnes' = {}
  BY DEF Clear, ClearData, Empty
<1>2. MemorySound' /\ InMemory' = (InMemory \ del) \cup {} /\ Checked'
  BY <1>1, SameSlots DEF IInv, MemorySound, InMemory, Sound
<1>3. Works(out, {}, del)
  BY <1>1, <1>2 DEF IInv, Given, Works, Clear, Sends, Removed, InMemory
<1> QED  BY <1>3, WorkKeeps

LEMMA ListedRows ==
  ASSUME NEW list, NEW base
  PROVE  DOMAIN Listed(list, base) = (base + 1)..(base + Len(list))
BY DEF Listed

LEMMA SampleLength ==
  ASSUME StoreAssumption
  PROVE  Len(Sample) \in Nat /\ Len(SampleTonnes) \in Nat
BY DEF StoreAssumption

\* The sample data in fresh rows, with the invoices is.
LEMMA SampleSound ==
  ASSUME StoreAssumption, NEW n \in Nat, NEW is, Sound(Empty, Empty, is, n)
  PROVE  LET rs == Listed(Sample, n)
             ts == Listed(SampleTonnes, n + Len(Sample))
             k  == n + Len(Sample) + Len(SampleTonnes)
         IN /\ k \in Nat /\ n <= k /\ Sound(rs, ts, is, k)
            /\ DOMAIN rs \cup DOMAIN ts = (n + 1)..k
<1> DEFINE rs == Listed(Sample, n)
           ts == Listed(SampleTonnes, n + Len(Sample))
           k  == n + Len(Sample) + Len(SampleTonnes)
<1>1. Len(Sample) \in Nat /\ Len(SampleTonnes) \in Nat  BY SampleLength
<1>2. /\ DOMAIN rs = (n + 1)..(n + Len(Sample))
      /\ DOMAIN ts = (n + Len(Sample) + 1)..(n + Len(Sample) + Len(SampleTonnes))
  BY ListedRows
<1>3. DOMAIN rs \cap DOMAIN ts = {} /\ DOMAIN rs \cup DOMAIN ts = (n + 1)..k
  BY <1>1, <1>2
<1>4. DOMAIN rs \subseteq 1..k /\ DOMAIN ts \subseteq 1..k /\ 1..n \subseteq 1..k
  BY <1>1, <1>2
<1>5. DOMAIN rs \cap 1..n = {} /\ DOMAIN ts \cap 1..n = {}  BY <1>1, <1>2
<1>6. DOMAIN is \subseteq 1..n /\ is \in [DOMAIN is -> Proper]  BY DEF Sound
<1>7. Sound(rs, ts, is, k)  BY <1>3, <1>4, <1>5, <1>6 DEF Sound
<1> QED  BY <1>1, <1>3, <1>7

LEMMA SeedKeeps ==
  ASSUME StoreAssumption, IInv, NEW out \in Outcomes, Seed(out)
  PROVE  IInv'
<1> DEFINE del == DOMAIN readings \cup DOMAIN tonnes
<1>1. /\ Save(out) /\ UNCHANGED <<invoices, up, req>>
      /\ lastId' = lastId + Len(Sample) + Len(SampleTonnes)
      /\ readings' = Listed(Sample, lastId)
      /\ tonnes' = Listed(SampleTonnes, lastId + Len(Sample))
  BY DEF Seed, SeedSampleData
<1>2. Sound(Empty, Empty, invoices, lastId)
  BY DEF IInv, MemorySound, Sound, Empty
<1>3. /\ lastId' \in Nat /\ lastId <= lastId' /\ MemorySound'
      /\ DOMAIN readings' \cup DOMAIN tonnes' = (lastId + 1)..lastId'
  BY <1>1, <1>2, SampleSound DEF IInv, Given, MemorySound
<1>4. SampleIds = (lastId + 1)..lastId'  BY <1>1 DEF SampleIds, Fresh
<1>5. InMemory' = (InMemory \ del) \cup SampleIds
  BY <1>1, <1>3, <1>4 DEF IInv, InMemory, MemorySound, Sound
<1>6. Checked'  BY <1>1, SameSlots DEF IInv
<1>7. Works(out, SampleIds, del)
  BY <1>1, <1>3, <1>4, <1>5, <1>6 DEF Works, Seed, Sends, InMemory
<1> QED  BY <1>7, WorkKeeps

LEMMA EditReadingKeeps ==
  ASSUME IInv, NEW id, NEW update, NEW out \in Outcomes, EditReading(id, update, out)
  PROVE  IInv'
<1>1. /\ Save(out) /\ UNCHANGED <<tonnes, invoices, lastId, up, req, kept, gone>>
      /\ DOMAIN readings' = DOMAIN readings
  BY DEF EditReading, UpdateReading
<1>2. MemorySound' /\ InMemory' = InMemory /\ Checked'
  BY <1>1, SameSlots DEF IInv, MemorySound, InMemory, Sound
<1>3. Works(out, {}, {})
  BY <1>1, <1>2 DEF IInv, Given, Works, EditReading, Sends
<1> QED  BY <1>3, WorkKeeps

LEMMA RemoveReadingKeeps ==
  ASSUME IInv, NEW id, NEW out \in Outcomes, RemoveReading(id, out)
  PROVE  IInv'
<1>1. /\ Save(out) /\ UNCHANGED <<tonnes, invoices, lastId, up, req>>
      /\ id \in DOMAIN readings /\ DOMAIN readings' = DOMAIN readings \ {id}
  BY WithoutRows DEF RemoveReading, DeleteReading
<1>2. MemorySound' /\ InMemory' = (InMemory \ {id}) \cup {} /\ Checked'
  BY <1>1, SameSlots DEF IInv, MemorySound, InMemory, Sound
<1>3. Works(out, {}, {id})
  BY <1>1, <1>2 DEF IInv, Given, Works, RemoveReading, Sends, Removed, InMemory
<1> QED  BY <1>3, WorkKeeps

LEMMA EditTonnesKeeps ==
  ASSUME IInv, NEW id, NEW site, NEW amount, NEW out \in Outcomes,
         EditTonnes(id, site, amount, out)
  PROVE  IInv'
<1>1. /\ Save(out) /\ UNCHANGED <<readings, invoices, lastId, up, req, kept, gone>>
      /\ DOMAIN tonnes' = DOMAIN tonnes
  BY DEF EditTonnes, UpdateTonnes, history
<1>2. MemorySound' /\ InMemory' = InMemory /\ Checked'
  BY <1>1, SameSlots DEF IInv, MemorySound, InMemory, Sound
<1>3. Works(out, {}, {})
  BY <1>1, <1>2 DEF IInv, Given, Works, EditTonnes, Sends
<1> QED  BY <1>3, WorkKeeps

LEMMA RemoveTonnesKeeps ==
  ASSUME IInv, NEW id, NEW out \in Outcomes, RemoveTonnes(id, out)
  PROVE  IInv'
<1>1. /\ Save(out) /\ UNCHANGED <<readings, invoices, lastId, up, req>>
      /\ id \in DOMAIN tonnes /\ DOMAIN tonnes' = DOMAIN tonnes \ {id}
  BY WithoutRows DEF RemoveTonnes, DeleteTonnes
<1>2. MemorySound' /\ InMemory' = (InMemory \ {id}) \cup {} /\ Checked'
  BY <1>1, SameSlots DEF IInv, MemorySound, InMemory, Sound
<1>3. Works(out, {}, {id})
  BY <1>1, <1>2 DEF IInv, Given, Works, RemoveTonnes, Sends, Removed, InMemory
<1> QED  BY <1>3, WorkKeeps

-----------------------------------------------------------------------------
(* Invoices.                                                               *)

LEMMA CreateInvoiceKeeps ==
  ASSUME IInv, NEW m, NEW site, NEW amount \in Amounts, NEW actor \in Actors,
         NEW out \in Outcomes, CreateInvoice(m, site, amount, actor, out)
  PROVE  IInv'
<1> DEFINE row == [meter |-> m, site |-> site, amount |-> amount, createdBy |-> actor]
<1>1. row \in Proper  BY DEF CreateInvoice, Proper
<1>2. AddInvoice(row, out)  BY DEF CreateInvoice
<1>3. /\ lastId' = lastId + 1 /\ lastId' \in Nat /\ Save(out) /\ MemorySound'
      /\ InMemory' = InMemory \cup {Fresh}
  BY <1>1, <1>2, AddInvoiceWorks
<1>4. Checked'  BY SameSlots DEF IInv, CreateInvoice
<1>5. Works(out, {Fresh}, {})
  BY <1>3, <1>4 DEF IInv, Given, Works, Fresh, CreateInvoice, Sends, Added
<1> QED  BY <1>5, WorkKeeps

LEMMA ReadInvoiceKeeps ==
  ASSUME IInv, NEW r \in Req, NEW id, NEW patch \in InvoicePatch, ReadInvoice(r, id, patch)
  PROVE  IInv'
<1>1. invoices[id] \in Proper
  BY DEF IInv, MemorySound, Sound, ReadInvoice
<1>2. Merged(invoices[id], patch) \in Proper  BY <1>1, MergedProper DEF ReadInvoice
<1>3. Checked'
  <2> DEFINE s == [Idle EXCEPT !.op = "invoice", !.at = "replace", !.id = id,
                              !.invoice = Merged(invoices[id], patch)]
  <2>1. IsSlot(s)  BY <1>2 DEF IsSlot, Idle
  <2>2. req' = [req EXCEPT ![r] = s]  BY DEF ReadInvoice, Proceed
  <2> QED  BY <2>1, <2>2, OneSlot DEF IInv
<1>4. /\ up /\ UNCHANGED <<readings, tonnes, invoices, lastId, disk, up, kept, gone>>
  BY DEF ReadInvoice, Sends, storeVars, memory, history
<1> QED  BY <1>3, <1>4 DEF IInv, Given, MemorySound, DiskSound, Down, AnsweredSurvives,
                           RemovalSticks, InMemory

LEMMA UpdateInvoiceSound ==
  ASSUME IInv, NEW id, NEW inv \in Proper, NEW out, UpdateInvoice(id, inv, out)
  PROVE  /\ MemorySound' /\ InMemory' = InMemory
         /\ invoices'[id] \in Proper /\ invoices'[id].createdBy = invoices[id].createdBy
         /\ DOMAIN invoices' = DOMAIN invoices
         /\ invoices' = [invoices EXCEPT ![id] = invoices'[id]]
<1> DEFINE new == [inv EXCEPT !.createdBy = invoices[id].createdBy]
<1>1. /\ id \in DOMAIN invoices /\ invoices' = [invoices EXCEPT ![id] = new]
      /\ UNCHANGED <<readings, tonnes, lastId>>
  BY DEF UpdateInvoice
<1>2. invoices \in [DOMAIN invoices -> Proper]  BY DEF IInv, MemorySound, Sound
<1>3. new \in Proper /\ new.createdBy = invoices[id].createdBy
  BY <1>1, <1>2 DEF Proper
<1>4. /\ invoices'[id] = new /\ DOMAIN invoices' = DOMAIN invoices
      /\ invoices' \in [DOMAIN invoices' -> Proper]
  BY <1>1, <1>2, <1>3
<1>5. MemorySound' /\ InMemory' = InMemory
  BY <1>1, <1>4 DEF IInv, MemorySound, Sound, InMemory
<1> QED  BY <1>1, <1>3, <1>4, <1>5

LEMMA ReplaceInvoiceKeeps ==
  ASSUME IInv, NEW r \in Req, NEW out \in Outcomes, ReplaceInvoice(r, out)
  PROVE  IInv'
<1>1. /\ req[r].at = "replace" /\ req[r].invoice \in Proper /\ up
      /\ UNCHANGED <<up, kept, gone>>
  BY DEF IInv, Checked, IsSlot, Down, ReplaceInvoice, history
<1>2. Checked'  BY IdleSlot, OneSlot DEF IInv, ReplaceInvoice, Answer
<1>3. CASE UpdateInvoice(req[r].id, req[r].invoice, out)
  <2>1. MemorySound' /\ InMemory' = InMemory  BY <1>1, <1>3, UpdateInvoiceSound
  <2>2. Save(out) /\ lastId' = lastId  BY <1>3 DEF UpdateInvoice
  <2>3. Works(out, {}, {})  BY <1>1, <1>2, <2>1, <2>2 DEF IInv, Given, Works
  <2> QED  BY <2>3, WorkKeeps
<1>4. CASE UNCHANGED storeVars
  BY <1>1, <1>2, <1>4 DEF IInv, Given, MemorySound, DiskSound, Down, AnsweredSurvives,
                          RemovalSticks, InMemory, storeVars, memory
<1> QED  BY <1>3, <1>4 DEF ReplaceInvoice

LEMMA RemoveInvoiceKeeps ==
  ASSUME IInv, NEW id, NEW out \in Outcomes, RemoveInvoice(id, out)
  PROVE  IInv'
<1>1. /\ Save(out) /\ UNCHANGED <<readings, tonnes, lastId, up, req>>
      /\ id \in DOMAIN invoices /\ DOMAIN invoices' = DOMAIN invoices \ {id}
  BY WithoutRows DEF RemoveInvoice, DeleteInvoice
<1>2. invoices' \in [DOMAIN invoices' -> Proper]
  BY <1>1 DEF IInv, MemorySound, Sound, RemoveInvoice, DeleteInvoice, Without
<1>3. MemorySound' /\ InMemory' = (InMemory \ {id}) \cup {} /\ Checked'
  BY <1>1, <1>2, SameSlots DEF IInv, MemorySound, InMemory, Sound
<1>4. Works(out, {}, {id})
  BY <1>1, <1>3 DEF IInv, Given, Works, RemoveInvoice, Sends, Removed, InMemory
<1> QED  BY <1>4, WorkKeeps

-----------------------------------------------------------------------------
(* Fills, and the process.                                                 *)

LEMMA FillStepKeeps ==
  ASSUME IInv, NEW r \in Req,
         \/ \E op, m, d : BeginFill(r, op, m, d)
         \/ \E site : Survey(r, site)
         \/ EstimateNext(r)
  PROVE  IInv'
<1>1. /\ up /\ UNCHANGED <<readings, tonnes, invoices, lastId, disk, up, kept, gone>>
  BY DEF IInv, Down, BeginFill, Survey, EstimateNext, Sends, storeVars, memory, history
<1>2. Checked'
  <2>1. CASE \E op, m, d : BeginFill(r, op, m, d)
    <3>1. PICK op, m, d : BeginFill(r, op, m, d)  BY <2>1
    <3> DEFINE s == [Idle EXCEPT !.op = op, !.target = d,
                                 !.at = IF op \in Singles THEN "estimate" ELSE "survey",
                                 !.todo = IF op \in Singles THEN {m} ELSE {}]
    <3>2. IsSlot(s)  BY DEF IsSlot, Idle
    <3>3. req' = [req EXCEPT ![r] = s]  BY <3>1 DEF BeginFill, Proceed
    <3> QED  BY <3>2, <3>3, OneSlot DEF IInv
  <2>2. CASE \E site : Survey(r, site)
    <3>1. PICK site : Survey(r, site)  BY <2>2
    <3> DEFINE s == [req[r] EXCEPT !.at = "estimate", !.todo = Stale(site, req[r].target)]
    <3>2. IsSlot(s)  BY DEF IInv, Checked, IsSlot
    <3>3. req' = [req EXCEPT ![r] = s]  BY <3>1 DEF IInv, Checked, Survey
    <3> QED  BY <3>2, <3>3, OneSlot DEF IInv
  <2>3. CASE EstimateNext(r)
    <3>1. CASE Answer(r)  BY <3>1, IdleSlot, OneSlot DEF IInv, Answer
    <3>2. CASE \E m : req' = [req EXCEPT ![r].todo = @ \ {m}]
      BY <3>2 DEF IInv, Checked, IsSlot
    <3>3. CASE \E est : req' = [req EXCEPT ![r].at = "insert", ![r].est = est]
      BY <3>3 DEF IInv, Checked, IsSlot
    <3> QED  BY <2>3, <3>1, <3>2, <3>3 DEF EstimateNext
  <2> QED  BY <2>1, <2>2, <2>3
<1> QED  BY <1>1, <1>2 DEF IInv, Given, MemorySound, DiskSound, Down, AnsweredSurvives,
                           RemovalSticks, InMemory

LEMMA InsertEstimateKeeps ==
  ASSUME IInv, NEW r \in Req, NEW out \in Outcomes, InsertEstimate(r, out)
  PROVE  IInv'
<1>1. AddReading(req[r].est, out) /\ up /\ UNCHANGED <<up, gone>> /\ Added({Fresh}, out)
  BY DEF IInv, Down, InsertEstimate
<1>2. /\ lastId' = lastId + 1 /\ lastId' \in Nat /\ Save(out) /\ MemorySound'
      /\ InMemory' = InMemory \cup {Fresh}
  BY <1>1, AddReadingWorks
<1>3. Checked'
  <2>1. CASE Answer(r)  BY <2>1, IdleSlot, OneSlot DEF IInv, Answer
  <2>2. CASE req' = [req EXCEPT ![r].at = "estimate", ![r].est = None,
                                ![r].todo = @ \ {req[r].est.meter}]
    BY <2>2 DEF IInv, Checked, IsSlot
  <2> QED  BY <2>1, <2>2 DEF InsertEstimate
<1>4. Works(out, {Fresh}, {})
  BY <1>1, <1>2, <1>3 DEF IInv, Given, Works, Fresh, Added
<1> QED  BY <1>4, WorkKeeps

LEMMA CrashKeeps ==
  ASSUME IInv, NEW torn \in BOOLEAN, Crash(torn)
  PROVE  IInv'
<1>1. /\ up' = FALSE /\ UNCHANGED <<lastId, kept, gone>> /\ req' = [r \in Req |-> Idle]
      /\ readings' = Empty /\ tonnes' = Empty /\ invoices' = Empty
      /\ disk' = IF torn THEN [state |-> "torn", image |-> Blank] ELSE disk
  BY DEF Crash, history
<1>2. Sound(Empty, Empty, Empty, lastId) /\ Rows(Blank) = {}
  BY BlankSound DEF Blank, IInv, Given
<1>3. Given' /\ MemorySound' /\ Checked' /\ Down'
  BY <1>1, <1>2, IdleSlot DEF IInv, Given, MemorySound, Checked, Down
<1>4. InMemory' = {}  BY <1>1 DEF InMemory, Empty
<1>5. CASE torn
  <2>1. DiskSound'  BY <1>1, <1>5, BlankSound DEF DiskSound, IInv, Given
  <2> QED  BY <1>1, <1>2, <1>3, <1>4, <1>5, <2>1 DEF IInv, AnsweredSurvives, RemovalSticks
<1>6. CASE ~torn
  BY <1>1, <1>3, <1>4, <1>6 DEF IInv, DiskSound, AnsweredSurvives, RemovalSticks
<1> QED  BY <1>5, <1>6

LEMMA ReloadSound ==
  ASSUME StoreAssumption, IInv, Reload
  PROVE  /\ lastId' \in Nat /\ lastId <= lastId' /\ MemorySound'
         /\ invoices' = disk.image.invoices
         /\ kept \subseteq InMemory' /\ gone \cap InMemory' = {} /\ disk.state # "torn"
<1>1. lastId \in Nat  BY DEF IInv, Given
<1>2. CASE disk.state = "whole"
  <2>1. /\ readings' = disk.image.readings /\ tonnes' = disk.image.tonnes
        /\ invoices' = disk.image.invoices /\ lastId' = lastId
    BY <1>2 DEF Reload
  <2>2. MemorySound' /\ InMemory' = Rows(disk.image)
    BY <2>1 DEF IInv, DiskSound, MemorySound, InMemory, Rows
  <2> QED  BY <1>1, <1>2, <2>1, <2>2 DEF IInv, AnsweredSurvives, RemovalSticks
<1>3. CASE disk.state = "missing"
  <2>1. /\ lastId' = lastId + Len(Sample) + Len(SampleTonnes)
        /\ readings' = Listed(Sample, lastId)
        /\ tonnes' = Listed(SampleTonnes, lastId + Len(Sample)) /\ invoices' = Empty
    BY <1>3 DEF Reload
  <2>2. Sound(Empty, Empty, Empty, lastId)  BY <1>1, BlankSound DEF Blank
  <2>3. /\ lastId' \in Nat /\ lastId <= lastId' /\ MemorySound'
        /\ DOMAIN readings' \cup DOMAIN tonnes' = (lastId + 1)..lastId'
    BY <1>1, <2>1, <2>2, SampleSound DEF MemorySound
  <2>4. InMemory' = (lastId + 1)..lastId'  BY <2>1, <2>3 DEF InMemory, Empty
  <2>5. gone \cap InMemory' = {}  BY <1>1, <2>3, <2>4 DEF IInv, Given
  <2>6. disk.image = Blank  BY <1>3 DEF IInv, DiskSound
  <2>7. kept = {}  BY <1>1, <1>3, <2>6, BlankSound DEF IInv, AnsweredSurvives
  <2> QED  BY <1>3, <2>1, <2>3, <2>5, <2>6, <2>7 DEF Blank
<1> QED  BY <1>2, <1>3 DEF Reload

LEMMA StartKeeps ==
  ASSUME StoreAssumption, IInv, NEW out \in Outcomes, Start(out)
  PROVE  IInv'
<1>1. ~up /\ up' = TRUE /\ UNCHANGED <<req, kept, gone>> /\ Reload /\ Save(out)
  BY DEF Start, history
<1>2. Checked' /\ Down'  BY <1>1, SameSlots DEF IInv, Down
<1>3. /\ lastId' \in Nat /\ lastId <= lastId' /\ MemorySound'
      /\ kept \subseteq InMemory' /\ gone \cap InMemory' = {}
  BY <1>1, ReloadSound
<1>4. Given'
  <2>1. 1..lastId \subseteq 1..lastId'  BY <1>3 DEF IInv, Given
  <2> QED  BY <1>1, <1>3, <2>1 DEF IInv, Given
<1>5. DiskSound'  BY <1>1, <1>3, SaveKeepsDisk DEF IInv
<1>6. AnsweredSurvives' /\ RemovalSticks'
  <2>1. CASE out = "written"
    <3>1. Rows(disk'.image) = InMemory'  BY <1>1, <2>1, SaveOutcome DEF Rows, InMemory
    <3> QED  BY <1>1, <1>3, <3>1 DEF AnsweredSurvives, RemovalSticks
  <2>2. CASE out = "left"
    <3>1. disk' = disk  BY <1>1, <2>2, SaveOutcome
    <3> QED  BY <1>1, <1>3, <3>1 DEF IInv, AnsweredSurvives, RemovalSticks
  <2>3. CASE out = "torn"
    <3>1. disk' = [state |-> "torn", image |-> Blank]  BY <1>1, <2>3, SaveOutcome
    <3>2. Rows(disk'.image) = {}  BY <3>1, BlankSound DEF IInv, Given
    <3> QED  BY <1>1, <1>3, <3>1, <3>2 DEF AnsweredSurvives, RemovalSticks
  <2> QED  BY <2>1, <2>2, <2>3 DEF Outcomes
<1> QED  BY <1>1, <1>2, <1>3, <1>4, <1>5, <1>6 DEF IInv

LEMMA StutterKeeps == ASSUME IInv, UNCHANGED vars  PROVE IInv'
BY DEF IInv, Given, MemorySound, DiskSound, Checked, Down, AnsweredSurvives, RemovalSticks,
       InMemory, vars, storeVars, memory, history

LEMMA NextKeeps == ASSUME StoreAssumption, IInv, [Next]_vars  PROVE IInv'
<1>1. ASSUME NEW out \in Outcomes, ReadingNext(out)  PROVE IInv'
  BY <1>1, PostReadingKeeps, EditReadingKeeps, RemoveReadingKeeps DEF ReadingNext
<1>2. ASSUME NEW out \in Outcomes, TonnesNext(out)  PROVE IInv'
  BY <1>2, PostTonnesKeeps, EditTonnesKeeps, RemoveTonnesKeeps DEF TonnesNext
<1>3. ASSUME NEW out \in Outcomes, InvoiceNext(out)  PROVE IInv'
  BY <1>3, CreateInvoiceKeeps, RemoveInvoiceKeeps, ReplaceInvoiceKeeps DEF InvoiceNext
<1>4. ASSUME NEW out \in Outcomes, DataNext(out)  PROVE IInv'
  BY <1>4, PutPreferencesKeeps, ClearKeeps, SeedKeeps, InsertEstimateKeeps DEF DataNext
<1>5. ASSUME NEW r \in Req, NEW id, NEW patch \in InvoicePatch, ReadInvoice(r, id, patch)
      PROVE  IInv'
  BY <1>5, ReadInvoiceKeeps
<1>6. ASSUME NEW r \in Req,
             \/ \E op, m, d : BeginFill(r, op, m, d)
             \/ \E site : Survey(r, site)
             \/ EstimateNext(r)
      PROVE  IInv'
  BY <1>6, FillStepKeeps
<1>7. CASE \E torn \in BOOLEAN : Crash(torn)  BY <1>7, CrashKeeps
<1>8. CASE \E out \in Outcomes : Start(out)  BY <1>8, StartKeeps
<1>9. CASE UNCHANGED vars  BY <1>9, StutterKeeps
<1> QED  BY <1>1, <1>2, <1>3, <1>4, <1>5, <1>6, <1>7, <1>8, <1>9 DEF Next

LEMMA InitSound == ASSUME Init  PROVE IInv
<1>1. /\ readings = Empty /\ tonnes = Empty /\ invoices = Empty /\ lastId = 0
      /\ disk = [state |-> "missing", image |-> Blank]
      /\ up = FALSE /\ req = [r \in Req |-> Idle] /\ kept = {} /\ gone = {}
  BY DEF Init, StoreInit
<1>2. MemorySound  BY <1>1, BlankSound DEF MemorySound, Blank
<1>3. DiskSound  BY <1>1, BlankSound DEF DiskSound
<1>4. Checked /\ Down  BY <1>1, IdleSlot DEF Checked, Down
<1> QED  BY <1>1, <1>2, <1>3, <1>4 DEF IInv, Given, AnsweredSurvives, RemovalSticks

\* In every reachable state the tables have rows of ids given, apart from each
\* other, and memory and file agree on what clients were told (db.go, handlers).
THEOREM WaterInvariant == Spec => []IInv
<1>1. Init => IInv  BY InitSound
<1>2. IInv /\ [Next]_vars => IInv'  BY StoreAssumption, NextKeeps
<1> QED  BY <1>1, <1>2, PTL DEF Spec

\* Every invoice, in memory and in the file, is for a meter of its site, whatever
\* a concurrent update checked on its copy (admin_handlers.go updateInvoice).
THEOREM InvoicesMatch == Spec => []InvoicesMatchSites
<1>1. IInv => InvoicesMatchSites  BY InvariantImplies
<1> QED  BY <1>1, WaterInvariant, PTL

\* A row that was answered with 201 outlives failed saves and restarts, unless
\* the file is torn (db.go Save and Open).
THEOREM AnswersSurvive == Spec => []AnsweredSurvives
<1>1. IInv => AnsweredSurvives  BY InvariantImplies
<1> QED  BY <1>1, WaterInvariant, PTL

\* A row whose removal was answered with 200 is never back (db.go, ClearData).
THEOREM RemovalIsFinal == Spec => []RemovalSticks
<1>1. IInv => RemovalSticks  BY InvariantImplies
<1> QED  BY <1>1, WaterInvariant, PTL

-----------------------------------------------------------------------------
(* The abstract register.                                                  *)

LEMMA SaveMaps ==
  ASSUME NEW out \in Outcomes, Save(out)
  PROVE  Register!Written \/ Register!Kept \/ Register!Ruined
<1>1. CASE out = "written"
  BY <1>1, SaveOutcome DEF Register!Written
<1>2. CASE out = "left"  BY <1>2, SaveOutcome DEF Register!Kept
<1>3. CASE out = "torn"  BY <1>3, SaveOutcome DEF Register!Ruined
<1> QED  BY <1>1, <1>2, <1>3 DEF Outcomes

Unseen == UNCHANGED <<up, invoices, disk>>

LEMMA UnseenMaps == ASSUME Unseen  PROVE UNCHANGED Register!vars
BY DEF Unseen, Register!vars

\* A step that saves and leaves the invoices alone.
LEMMA QuietMaps ==
  ASSUME NEW out \in Outcomes, Save(out), up, UNCHANGED <<up, invoices>>
  PROVE  Register!Next
BY SaveMaps DEF Register!Next, Register!Work

LEMMA ReadingMaps ==
  ASSUME NEW out \in Outcomes, ReadingNext(out)
  PROVE  Register!Next
<1>1. Save(out) /\ up /\ UNCHANGED <<up, invoices>>
  BY DEF ReadingNext, PostReading, EditReading, RemoveReading, AddReading, UpdateReading,
         DeleteReading, Sends
<1> QED  BY <1>1, QuietMaps

LEMMA TonnesMaps ==
  ASSUME NEW out \in Outcomes, TonnesNext(out)
  PROVE  Register!Next
<1>1. Save(out) /\ up /\ UNCHANGED <<up, invoices>>
  BY DEF TonnesNext, PostTonnes, EditTonnes, RemoveTonnes, AddTonnes, UpdateTonnes,
         DeleteTonnes, Sends
<1> QED  BY <1>1, QuietMaps

LEMMA DataMaps ==
  ASSUME IInv, NEW out \in Outcomes, DataNext(out)
  PROVE  Register!Next
<1>1. CASE \E r \in Req : InsertEstimate(r, out)
  BY <1>1, QuietMaps DEF InsertEstimate, AddReading, IInv, Down
<1>2. CASE \E enabled \in BOOLEAN : PutPreferences(enabled, out)
  BY <1>2, QuietMaps DEF PutPreferences, UpdatePreferences, Sends
<1>3. CASE Clear(out)  BY <1>3, QuietMaps DEF Clear, ClearData, Sends
<1>4. CASE Seed(out)  BY <1>4, QuietMaps DEF Seed, SeedSampleData, Sends
<1> QED  BY <1>1, <1>2, <1>3, <1>4 DEF DataNext

LEMMA CreateMaps ==
  ASSUME IInv, NEW m, NEW site, NEW amount \in Amounts, NEW actor \in Actors,
         NEW out \in Outcomes, CreateInvoice(m, site, amount, actor, out)
  PROVE  Register!Next
<1> DEFINE row == [meter |-> m, site |-> site, amount |-> amount, createdBy |-> actor]
<1>1. row \in Register!Proper  BY DEF CreateInvoice, Register!Proper
<1>2. /\ up /\ UNCHANGED up /\ Save(out)
      /\ invoices' = Put(invoices, Fresh, row)
  BY DEF CreateInvoice, AddInvoice, Sends
<1>3. Fresh \notin DOMAIN invoices
  BY DEF IInv, Given, MemorySound, Sound, Fresh
<1>4. /\ Fresh \in DOMAIN invoices' \ DOMAIN invoices /\ invoices'[Fresh] = row
      /\ invoices' = [i \in DOMAIN invoices \cup {Fresh} |->
                        IF i = Fresh THEN invoices'[Fresh] ELSE invoices[i]]
  BY <1>2, <1>3 DEF Put
<1>5. Register!Enter  BY <1>1, <1>4 DEF Register!Enter
<1> QED  BY <1>2, <1>5, SaveMaps DEF Register!Next, Register!Work

LEMMA ReplaceMaps ==
  ASSUME IInv, NEW r \in Req, NEW out \in Outcomes, ReplaceInvoice(r, out)
  PROVE  Register!Next \/ Unseen
<1>1. req[r].invoice \in Proper /\ up /\ UNCHANGED up
  BY DEF IInv, Checked, IsSlot, Down, ReplaceInvoice
<1>2. CASE UpdateInvoice(req[r].id, req[r].invoice, out)
  <2> DEFINE id == req[r].id
  <2>1. /\ id \in DOMAIN invoices /\ Save(out)
        /\ invoices'[id] \in Register!Proper
        /\ invoices'[id].createdBy = invoices[id].createdBy
        /\ DOMAIN invoices' = DOMAIN invoices
        /\ invoices' = [invoices EXCEPT ![id] = invoices'[id]]
    BY <1>1, <1>2, UpdateInvoiceSound, RegisterProper DEF UpdateInvoice
  <2>2. Register!Amend  BY <2>1 DEF Register!Amend
  <2> QED  BY <1>1, <2>1, <2>2, SaveMaps DEF Register!Next, Register!Work
<1>3. CASE UNCHANGED storeVars
  BY <1>1, <1>3 DEF Unseen, storeVars, memory
<1> QED  BY <1>2, <1>3 DEF ReplaceInvoice

LEMMA RemoveMaps ==
  ASSUME NEW id, NEW out \in Outcomes, RemoveInvoice(id, out)
  PROVE  Register!Next
<1>1. /\ up /\ UNCHANGED up /\ Save(out) /\ id \in DOMAIN invoices
      /\ invoices' = [i \in DOMAIN invoices \ {id} |-> invoices[i]]
  BY DEF RemoveInvoice, DeleteInvoice, Without, Sends
<1>2. Register!Strike  BY <1>1 DEF Register!Strike
<1> QED  BY <1>1, <1>2, SaveMaps DEF Register!Next, Register!Work

LEMMA SlotsMap ==
  ASSUME NEW r,
         \/ \E id, patch : ReadInvoice(r, id, patch)
         \/ \E op, m, d : BeginFill(r, op, m, d)
         \/ \E site : Survey(r, site)
         \/ EstimateNext(r)
  PROVE  Unseen
BY DEF Unseen, ReadInvoice, BeginFill, Survey, EstimateNext, storeVars, memory

LEMMA CrashMaps ==
  ASSUME IInv, NEW torn \in BOOLEAN, Crash(torn)
  PROVE  Register!Next
<1>1. /\ up /\ up' = FALSE /\ invoices' = Register!Void
      /\ disk' = IF torn THEN [state |-> "torn", image |-> Blank] ELSE disk
  BY DEF Crash, Empty, Register!Void
<1>2. CASE torn
  BY <1>1, <1>2 DEF Register!Next, Register!Stop, Register!Ruined
<1>3. CASE ~torn
  BY <1>1, <1>3 DEF Register!Next, Register!Stop, Register!Kept
<1> QED  BY <1>2, <1>3

LEMMA StartMaps ==
  ASSUME StoreAssumption, IInv, NEW out \in Outcomes, Start(out)
  PROVE  Register!Next
<1>1. ~up /\ up' = TRUE /\ Reload /\ Save(out)  BY DEF Start
<1>2. disk.state # "torn" /\ invoices' = disk.image.invoices  BY <1>1, ReloadSound
<1> QED  BY <1>1, <1>2, SaveMaps DEF Register!Next, Register!Reopen

LEMMA NextMaps ==
  ASSUME StoreAssumption, IInv, [Next]_vars
  PROVE  [Register!Next]_(Register!vars)
<1>1. ASSUME NEW out \in Outcomes, InvoiceNext(out)  PROVE Register!Next \/ Unseen
  BY <1>1, CreateMaps, RemoveMaps, ReplaceMaps DEF InvoiceNext
<1>2. ASSUME UNCHANGED vars  PROVE Unseen  BY <1>2 DEF vars, storeVars, memory, Unseen
<1>3. ASSUME NEW out \in Outcomes, ReadingNext(out) \/ TonnesNext(out) \/ DataNext(out)
      PROVE  Register!Next
  BY <1>3, ReadingMaps, TonnesMaps, DataMaps
<1>4. ASSUME NEW r \in Req,
             \/ \E id, patch : ReadInvoice(r, id, patch)
             \/ \E op, m, d : BeginFill(r, op, m, d)
             \/ \E site : Survey(r, site)
             \/ EstimateNext(r)
      PROVE  Unseen
  BY <1>4, SlotsMap
<1>5. ASSUME \E torn \in BOOLEAN : Crash(torn)  PROVE Register!Next  BY <1>5, CrashMaps
<1>6. ASSUME \E out \in Outcomes : Start(out)  PROVE Register!Next  BY <1>6, StartMaps
<1>7. Register!Next \/ Unseen  BY <1>1, <1>2, <1>3, <1>4, <1>5, <1>6 DEF Next
<1> QED  BY <1>7, UnseenMaps

LEMMA InitMaps == ASSUME Init  PROVE Register!Init
BY DEF Init, StoreInit, Blank, Empty, Register!Init, Register!Void

\* The invoices of the handlers and the database implement the register: each
\* is of its site and keeps its creator, and a restart finds the last written.
THEOREM ImplementsRegister == Spec => RegisterSpec
<1>1. Init => Register!Init  BY InitMaps
<1>2. IInv /\ [Next]_vars => [Register!Next]_(Register!vars)
  BY StoreAssumption, NextMaps
<1> QED  BY <1>1, <1>2, WaterInvariant, PTL DEF Spec, RegisterSpec, Register!Spec
=============================================================================
