----------------------------- MODULE PgWaterProofs -----------------------------
(***************************************************************************)
(* The PostgreSQL water database and its handlers, for any number of       *)
(* meters, rows, requests and errors of the connection: what rows and      *)
(* invoices go through, with the implementation of the register of         *)
(* invoices that the JSON database implements too; the types; what the     *)
(* recorded usages cover; and what bulk fills insert.                      *)
(***************************************************************************)
EXTENDS PgWaterFlow, WaterDataProofs

\* The register's invoices.
LEMMA RegisterProper == Register!Proper = Proper
BY DEF Register!Proper, Proper

\* Tables whose ids are apart and were given, and invoices of their site.
TablesSound ==
  /\ DOMAIN readings \subseteq 1..lastId /\ DOMAIN tonnes \subseteq 1..lastId
  /\ DOMAIN invoices \subseteq 1..lastId
  /\ DOMAIN readings \cap DOMAIN tonnes = {} /\ DOMAIN readings \cap DOMAIN invoices = {}
  /\ DOMAIN tonnes \cap DOMAIN invoices = {}
  /\ invoices \in [DOMAIN invoices -> Proper]

\* The row a request is about to write is one it has checked.
IsSlot(s) == /\ {"op", "at", "todo", "target", "row", "found", "id", "invoice"} = DOMAIN s
             /\ s.at = "replace" => s.invoice \in Proper

Checked == /\ req = [r \in Req |-> req[r]]
           /\ \A r \in Req : IsSlot(req[r])

Down == ~up => \A r \in Req : req[r].at = "idle"

Given == lastId \in Nat /\ kept \subseteq 1..lastId /\ gone \subseteq 1..lastId

IInv == /\ up \in BOOLEAN /\ Given /\ TablesSound /\ Checked /\ Down
        /\ AnsweredSurvives /\ RemovalSticks

-----------------------------------------------------------------------------
(* Steps.                                                                  *)

\* What a step does to the rows: it adds some with fresh ids, removes some, and
\* tells the clients no more than that.
Works(add, del) ==
  /\ up /\ up' = up
  /\ lastId' \in Nat /\ lastId <= lastId' /\ TablesSound'
  /\ add \subseteq (lastId + 1)..lastId' /\ del \subseteq InTables
  /\ InTables' = (InTables \ del) \cup add
  /\ kept' \subseteq (kept \ del) \cup add
  /\ gone' \subseteq gone \cup del
  /\ Checked'

LEMMA WorkKeeps ==
  ASSUME IInv, NEW add, NEW del, Works(add, del)
  PROVE  IInv'
<1>1. 1..lastId \subseteq 1..lastId' /\ add \subseteq 1..lastId' /\ add \cap 1..lastId = {}
  BY DEF IInv, Given, Works
<1>2. InTables \subseteq 1..lastId  BY DEF IInv, TablesSound, InTables
<1>3. Given'  BY <1>1, <1>2 DEF IInv, Given, Works
<1>4. AnsweredSurvives'  BY DEF IInv, AnsweredSurvives, Works
<1>5. RemovalSticks'
  <2>1. gone \cap add = {} /\ del \cap add = {}  BY <1>1, <1>2 DEF IInv, Given, Works
  <2>2. gone \cap InTables = {}  BY DEF IInv, RemovalSticks
  <2> QED  BY <2>1, <2>2 DEF RemovalSticks, Works
<1>6. Down' /\ up' \in BOOLEAN  BY DEF Works, Down, IInv
<1> QED  BY <1>3, <1>4, <1>5, <1>6 DEF IInv, Works

\* A step that leaves the slots alone leaves them checked.
LEMMA SameSlots == ASSUME Checked, UNCHANGED req  PROVE Checked'
BY DEF Checked

LEMMA IdleSlot == IsSlot(Idle) /\ Idle.at = "idle"
BY DEF IsSlot, Idle

LEMMA OneSlot ==
  ASSUME Checked, NEW r \in Req, NEW s, req' = [req EXCEPT ![r] = s], IsSlot(s)
  PROVE  Checked'
BY DEF Checked

LEMMA AnswerChecked == ASSUME Checked, NEW r \in Req, Answer(r)  PROVE Checked'
BY IdleSlot, OneSlot DEF Answer

\* A step that leaves the tables and the clients alone.
Quiet == UNCHANGED <<readings, tonnes, invoices, lastId, up, kept, gone>>

LEMMA QuietKeeps ==
  ASSUME IInv, up, Quiet, Checked'
  PROVE  IInv'
BY DEF IInv, Given, TablesSound, Down, AnsweredSurvives, RemovalSticks, InTables, Quiet

-----------------------------------------------------------------------------
(* Statements.                                                             *)

LEMMA PutRow ==
  ASSUME NEW t, NEW k, NEW row
  PROVE  DOMAIN Put(t, k, row) = DOMAIN t \cup {k}
BY DEF Put

LEMMA WithoutRows ==
  ASSUME NEW t, NEW ids
  PROVE  DOMAIN Without(t, ids) = DOMAIN t \ ids
BY DEF Without

New(out) == IF Ran(out) THEN {Fresh} ELSE {}
Old(id, out) == IF Ran(out) THEN {id} ELSE {}

LEMMA FreshId ==
  ASSUME Given
  PROVE  /\ Fresh \in Nat /\ Fresh = lastId + 1 /\ lastId <= Fresh
         /\ 1..lastId \subseteq 1..Fresh /\ Fresh \in 1..Fresh /\ Fresh \notin 1..lastId
         /\ {Fresh} \subseteq (lastId + 1)..Fresh
BY DEF Given, Fresh

Grows(out) == /\ lastId' \in Nat /\ lastId <= lastId' /\ TablesSound'
              /\ New(out) \subseteq (lastId + 1)..lastId'
              /\ InTables' = InTables \cup New(out)

LEMMA InsertReadingWorks ==
  ASSUME IInv, NEW row, NEW out, InsertReading(row, out)
  PROVE  Grows(out)
<1>1. CASE Ran(out)
  <2>0. /\ lastId' = Fresh /\ readings' = Put(readings, Fresh, row)
        /\ UNCHANGED <<tonnes, invoices>>
    BY <1>1 DEF InsertReading
  <2>1. DOMAIN readings' = DOMAIN readings \cup {Fresh}  BY <2>0, PutRow
  <2>2. TablesSound'  BY <2>0, <2>1, FreshId DEF IInv, TablesSound
  <2> QED  BY <1>1, <2>0, <2>1, <2>2, FreshId DEF IInv, Grows, New, InTables
<1>2. CASE ~Ran(out)
  BY <1>2 DEF InsertReading, IInv, Given, Grows, New, TablesSound, InTables
<1> QED  BY <1>1, <1>2

LEMMA AddTonnesWorks ==
  ASSUME IInv, NEW entry, NEW out, AddTonnes(entry, out)
  PROVE  Grows(out)
<1>1. CASE Ran(out)
  <2>0. /\ lastId' = Fresh /\ tonnes' = Put(tonnes, Fresh, entry)
        /\ UNCHANGED <<readings, invoices>>
    BY <1>1 DEF AddTonnes
  <2>1. DOMAIN tonnes' = DOMAIN tonnes \cup {Fresh}  BY <2>0, PutRow
  <2>2. TablesSound'  BY <2>0, <2>1, FreshId DEF IInv, TablesSound
  <2> QED  BY <1>1, <2>0, <2>1, <2>2, FreshId DEF IInv, Grows, New, InTables
<1>2. CASE ~Ran(out)
  BY <1>2 DEF AddTonnes, IInv, Given, Grows, New, TablesSound, InTables
<1> QED  BY <1>1, <1>2

LEMMA AddInvoiceWorks ==
  ASSUME IInv, NEW invoice \in Proper, NEW out, AddInvoice(invoice, out)
  PROVE  Grows(out)
<1>1. CASE Ran(out)
  <2>0. /\ lastId' = Fresh /\ invoices' = Put(invoices, Fresh, invoice)
        /\ UNCHANGED <<readings, tonnes>>
    BY <1>1 DEF AddInvoice
  <2>1. DOMAIN invoices' = DOMAIN invoices \cup {Fresh}  BY <2>0, PutRow
  <2>2. invoices' \in [DOMAIN invoices' -> Proper]
    BY <1>1 DEF IInv, TablesSound, AddInvoice, Put
  <2>3. TablesSound'  BY <2>0, <2>1, <2>2, FreshId DEF IInv, TablesSound
  <2> QED  BY <1>1, <2>0, <2>1, <2>3, FreshId DEF IInv, Grows, New, InTables
<1>2. CASE ~Ran(out)
  BY <1>2 DEF AddInvoice, IInv, Given, Grows, New, TablesSound, InTables
<1> QED  BY <1>1, <1>2

-----------------------------------------------------------------------------
(* Readings.                                                               *)

LEMMA InsertKeeps ==
  ASSUME IInv, NEW r \in Req, NEW out, Insert(r, out)
  PROVE  IInv'
<1>1. /\ up /\ UNCHANGED <<up, gone>> /\ InsertReading(req[r].row, out)
      /\ kept' \subseteq kept \cup New(out)
  BY DEF IInv, Down, Insert, Added, New, Ran
<1>2. Grows(out)  BY <1>1, InsertReadingWorks
<1>3. Checked'
  <2>1. CASE Answer(r)  BY <2>1, AnswerChecked DEF IInv
  <2>2. CASE req' = [req EXCEPT ![r].at = "last", ![r].row = None, ![r].found = FALSE,
                                ![r].todo = @ \ {req[r].row.meter}]
    BY <2>2 DEF IInv, Checked, IsSlot
  <2> QED  BY <2>1, <2>2 DEF Insert
<1>4. Works(New(out), {})
  BY <1>1, <1>2, <1>3 DEF IInv, Given, Works, Grows
<1> QED  BY <1>4, WorkKeeps

LEMMA EditReadingKeeps ==
  ASSUME IInv, NEW id, NEW update, NEW out, EditReading(id, update, out)
  PROVE  IInv'
<1>1. /\ up /\ UNCHANGED <<tonnes, invoices, lastId, up, req, kept, gone>>
      /\ DOMAIN readings' = DOMAIN readings
  BY DEF EditReading, UpdateReading, Arrives, answers
<1>2. TablesSound' /\ InTables' = InTables /\ Checked'
  BY <1>1, SameSlots DEF IInv, TablesSound, InTables
<1>3. Works({}, {})  BY <1>1, <1>2 DEF IInv, Given, Works
<1> QED  BY <1>3, WorkKeeps

LEMMA RemoveReadingKeeps ==
  ASSUME IInv, NEW id, NEW out, RemoveReading(id, out)
  PROVE  IInv'
<1>1. /\ up /\ UNCHANGED <<tonnes, invoices, lastId, up, req>>
      /\ id \in DOMAIN readings /\ DOMAIN readings' = DOMAIN readings \ Old(id, out)
  BY WithoutRows DEF RemoveReading, DeleteReading, Arrives, Old
<1>2. TablesSound' /\ InTables' = (InTables \ Old(id, out)) \cup {} /\ Checked'
  BY <1>1, SameSlots DEF IInv, TablesSound, InTables, Old
<1>3. kept' \subseteq kept \ Old(id, out) /\ gone' \subseteq gone \cup Old(id, out)
  BY DEF RemoveReading, Removed, Old, Ran
<1>4. Works({}, Old(id, out))
  BY <1>1, <1>2, <1>3 DEF IInv, Given, Works, Old, InTables
<1> QED  BY <1>4, WorkKeeps

-----------------------------------------------------------------------------
(* Tonnes, preferences, and the removal of everything.                     *)

LEMMA PostTonnesKeeps ==
  ASSUME IInv, NEW site, NEW amount, NEW out, PostTonnes(site, amount, out)
  PROVE  IInv'
<1>1. /\ up /\ UNCHANGED <<up, gone, req>> /\ kept' \subseteq kept \cup New(out)
      /\ \E entry : AddTonnes(entry, out)
  BY DEF PostTonnes, Arrives, Added, New, Ran
<1>2. Grows(out) /\ Checked'  BY <1>1, AddTonnesWorks, SameSlots DEF IInv
<1>3. Works(New(out), {})  BY <1>1, <1>2 DEF IInv, Given, Works, Grows
<1> QED  BY <1>3, WorkKeeps

LEMMA EditTonnesKeeps ==
  ASSUME IInv, NEW id, NEW site, NEW amount, NEW out, EditTonnes(id, site, amount, out)
  PROVE  IInv'
<1>1. /\ up /\ UNCHANGED <<readings, invoices, lastId, up, req, kept, gone>>
      /\ DOMAIN tonnes' = DOMAIN tonnes
  BY DEF EditTonnes, UpdateTonnes, Arrives, answers
<1>2. TablesSound' /\ InTables' = InTables /\ Checked'
  BY <1>1, SameSlots DEF IInv, TablesSound, InTables
<1>3. Works({}, {})  BY <1>1, <1>2 DEF IInv, Given, Works
<1> QED  BY <1>3, WorkKeeps

LEMMA RemoveTonnesKeeps ==
  ASSUME IInv, NEW id, NEW out, RemoveTonnes(id, out)
  PROVE  IInv'
<1>1. /\ up /\ UNCHANGED <<readings, invoices, lastId, up, req>>
      /\ id \in DOMAIN tonnes /\ DOMAIN tonnes' = DOMAIN tonnes \ Old(id, out)
  BY WithoutRows DEF RemoveTonnes, DeleteTonnes, Arrives, Old
<1>2. TablesSound' /\ InTables' = (InTables \ Old(id, out)) \cup {} /\ Checked'
  BY <1>1, SameSlots DEF IInv, TablesSound, InTables, Old
<1>3. kept' \subseteq kept \ Old(id, out) /\ gone' \subseteq gone \cup Old(id, out)
  BY DEF RemoveTonnes, Removed, Old, Ran
<1>4. Works({}, Old(id, out))
  BY <1>1, <1>2, <1>3 DEF IInv, Given, Works, Old, InTables
<1> QED  BY <1>4, WorkKeeps

LEMMA PutPreferencesKeeps ==
  ASSUME IInv, NEW enabled, NEW out, PutPreferences(enabled, out)
  PROVE  IInv'
<1>1. up /\ Quiet /\ UNCHANGED req
  BY DEF PutPreferences, UpdatePreferences, Arrives, answers, Quiet
<1> QED  BY <1>1, SameSlots, QuietKeeps DEF IInv

\* Readings and tonnes go together, or not at all.
LEMMA ClearedWorks ==
  ASSUME IInv, up, NEW out, Cleared(out), Checked', NEW said,
         Removed(DOMAIN readings \cup DOMAIN tonnes, said),
         Ran(said) <=> Ran(out)
  PROVE  IInv'
<1> DEFINE del == IF Ran(out) THEN DOMAIN readings \cup DOMAIN tonnes ELSE {}
<1>1. /\ UNCHANGED <<invoices, lastId, up>>
      /\ DOMAIN readings' = DOMAIN readings \ del /\ DOMAIN tonnes' = DOMAIN tonnes \ del
  BY DEF Cleared, ClearData, Empty
<1>2. TablesSound' /\ InTables' = (InTables \ del) \cup {}
  BY <1>1 DEF IInv, TablesSound, InTables
<1>3. kept' \subseteq kept \ del /\ gone' \subseteq gone \cup del
  BY DEF Removed, Ran
<1>4. Works({}, del)
  BY <1>1, <1>2, <1>3 DEF IInv, Given, Works, InTables
<1> QED  BY <1>4, WorkKeeps

LEMMA ClearKeeps ==
  ASSUME IInv, NEW out, Clear(out)
  PROVE  IInv'
BY ClearedWorks, SameSlots DEF IInv, Clear, Arrives

LEMMA SeedKeeps ==
  ASSUME IInv, NEW r \in Req, NEW out, Seed(r, out)
  PROVE  IInv'
<1>1. up /\ Cleared(out)  BY DEF Seed, Enters, Arrives
<1>2. Checked'
  <2>1. CASE UNCHANGED req  BY <2>1, SameSlots DEF IInv
  <2>2. CASE req' = [req EXCEPT ![r] = [Idle EXCEPT !.op = "seed", !.at = "plant"]]
    <3>1. IsSlot([Idle EXCEPT !.op = "seed", !.at = "plant"])  BY DEF IsSlot, Idle
    <3> QED  BY <2>2, <3>1, OneSlot DEF IInv
  <2> QED  BY <2>1, <2>2 DEF Seed, Enters
<1> DEFINE said == IF out = "done" THEN "lost" ELSE out
<1>3. Removed(DOMAIN readings \cup DOMAIN tonnes, said) /\ (Ran(said) <=> Ran(out))
  BY DEF Seed, Ran
<1> HIDE DEF said
<1> QED  BY <1>1, <1>2, <1>3, ClearedWorks

-----------------------------------------------------------------------------
(* Invoices.                                                               *)

LEMMA CreateInvoiceKeeps ==
  ASSUME IInv, NEW m, NEW site, NEW amount \in Amounts, NEW actor \in Actors,
         NEW out, CreateInvoice(m, site, amount, actor, out)
  PROVE  IInv'
<1> DEFINE row == [meter |-> m, site |-> site, amount |-> amount, createdBy |-> actor]
<1>1. row \in Proper  BY DEF CreateInvoice, Proper
<1>2. /\ up /\ UNCHANGED <<up, gone, req>> /\ kept' \subseteq kept \cup New(out)
      /\ AddInvoice(row, out)
  BY DEF CreateInvoice, Arrives, Added, New, Ran
<1>3. Grows(out) /\ Checked'  BY <1>1, <1>2, AddInvoiceWorks, SameSlots DEF IInv
<1>4. Works(New(out), {})  BY <1>2, <1>3 DEF IInv, Given, Works, Grows
<1> QED  BY <1>4, WorkKeeps

LEMMA ReadInvoiceKeeps ==
  ASSUME IInv, NEW r \in Req, NEW id, NEW patch \in InvoicePatch, ReadInvoice(r, id, patch)
  PROVE  IInv'
<1>1. invoices[id] \in Proper  BY DEF IInv, TablesSound, ReadInvoice
<1>2. Merged(invoices[id], patch) \in Proper  BY <1>1, MergedProper DEF ReadInvoice
<1>3. Checked'
  <2> DEFINE s == [Idle EXCEPT !.op = "invoice", !.at = "replace", !.id = id,
                              !.invoice = Merged(invoices[id], patch)]
  <2>1. IsSlot(s)  BY <1>2 DEF IsSlot, Idle
  <2>2. req' = [req EXCEPT ![r] = s]  BY DEF ReadInvoice, Enters
  <2> QED  BY <2>1, <2>2, OneSlot DEF IInv
<1>4. up /\ Quiet
  BY DEF ReadInvoice, Enters, Arrives, Quiet, storeVars, tables, answers
<1> QED  BY <1>3, <1>4, QuietKeeps

LEMMA UpdateInvoiceSound ==
  ASSUME IInv, NEW id, NEW inv \in Proper, NEW out, UpdateInvoice(id, inv, out)
  PROVE  /\ TablesSound' /\ InTables' = InTables /\ lastId' = lastId
         /\ id \in DOMAIN invoices /\ DOMAIN invoices' = DOMAIN invoices
         /\ invoices'[id] \in Proper /\ invoices'[id].createdBy = invoices[id].createdBy
         /\ invoices' = [invoices EXCEPT ![id] = invoices'[id]]
<1> DEFINE new == IF Ran(out) THEN [inv EXCEPT !.createdBy = invoices[id].createdBy]
                  ELSE invoices[id]
<1>1. id \in DOMAIN invoices /\ UNCHANGED <<readings, tonnes, lastId>>
  BY DEF UpdateInvoice
<1>2. invoices \in [DOMAIN invoices -> Proper]  BY DEF IInv, TablesSound
<1>3. invoices' = [invoices EXCEPT ![id] = new]  BY <1>2 DEF UpdateInvoice, Ran
<1>4. new \in Proper /\ new.createdBy = invoices[id].createdBy
  BY <1>1, <1>2 DEF Proper
<1>5. /\ invoices'[id] = new /\ DOMAIN invoices' = DOMAIN invoices
      /\ invoices' \in [DOMAIN invoices' -> Proper]
  BY <1>1, <1>2, <1>3, <1>4
<1>6. TablesSound' /\ InTables' = InTables
  BY <1>1, <1>5 DEF IInv, TablesSound, InTables
<1> QED  BY <1>1, <1>3, <1>4, <1>5, <1>6

LEMMA ReplaceInvoiceKeeps ==
  ASSUME IInv, NEW r \in Req, NEW out, ReplaceInvoice(r, out)
  PROVE  IInv'
<1>1. req[r].invoice \in Proper /\ up /\ UNCHANGED <<up, kept, gone>>
  BY DEF IInv, Checked, IsSlot, Down, ReplaceInvoice, answers
<1>2. Checked'  BY AnswerChecked DEF IInv, ReplaceInvoice
<1>3. CASE UpdateInvoice(req[r].id, req[r].invoice, out)
  <2>1. TablesSound' /\ InTables' = InTables /\ lastId' = lastId
    BY <1>1, <1>3, UpdateInvoiceSound
  <2>2. Works({}, {})  BY <1>1, <1>2, <2>1 DEF IInv, Given, Works
  <2> QED  BY <2>2, WorkKeeps
<1>4. CASE UNCHANGED storeVars
  BY <1>1, <1>2, <1>4, QuietKeeps DEF Quiet, storeVars, tables
<1> QED  BY <1>3, <1>4 DEF ReplaceInvoice

LEMMA RemoveInvoiceKeeps ==
  ASSUME IInv, NEW id, NEW out, RemoveInvoice(id, out)
  PROVE  IInv'
<1>1. /\ up /\ UNCHANGED <<readings, tonnes, lastId, up, req>>
      /\ id \in DOMAIN invoices /\ DOMAIN invoices' = DOMAIN invoices \ Old(id, out)
  BY WithoutRows DEF RemoveInvoice, DeleteInvoice, Arrives, Old
<1>2. invoices' \in [DOMAIN invoices' -> Proper]
  BY <1>1 DEF IInv, TablesSound, RemoveInvoice, DeleteInvoice, Without
<1>3. TablesSound' /\ InTables' = (InTables \ Old(id, out)) \cup {} /\ Checked'
  BY <1>1, <1>2, SameSlots DEF IInv, TablesSound, InTables, Old
<1>4. kept' \subseteq kept \ Old(id, out) /\ gone' \subseteq gone \cup Old(id, out)
  BY DEF RemoveInvoice, Removed, Old, Ran
<1>5. Works({}, Old(id, out))
  BY <1>1, <1>3, <1>4 DEF IInv, Given, Works, Old, InTables
<1> QED  BY <1>5, WorkKeeps

-----------------------------------------------------------------------------
(* The steps that only read, and the process.                              *)

\* Slots that reach no UPDATE of an invoice.
LEMMA SlotMoves ==
  ASSUME Checked, NEW r \in Req, NEW s, IsSlot(s),
         req' = [req EXCEPT ![r] = s] \/ UNCHANGED req
  PROVE  Checked'
BY OneSlot, SameSlots

LEMMA SlotOf == ASSUME Checked, NEW r \in Req  PROVE IsSlot(req[r])
BY DEF Checked

LEMMA ArrivalKeeps ==
  ASSUME IInv, NEW r \in Req, \/ \E m, v, d : PostReading(r, m, v, d)
                              \/ \E op, m, d : BeginFill(r, op, m, d)
  PROVE  IInv'
<1>1. up /\ Quiet
  BY DEF PostReading, BeginFill, Enters, Arrives, Quiet, storeVars, tables, answers
<1>2. CASE \E m, v, d : PostReading(r, m, v, d)
  <2>1. PICK m, v, d : PostReading(r, m, v, d)  BY <1>2
  <2> DEFINE s == [Idle EXCEPT !.op = "reading", !.at = "before",
                     !.row = [meter |-> m, value |-> v, usage |-> 0, date |-> d, est |-> FALSE]]
  <2>2. IsSlot(s)  BY DEF IsSlot, Idle
  <2>3. req' = [req EXCEPT ![r] = s]  BY <2>1 DEF PostReading, Enters
  <2>4. Checked'  BY <2>2, <2>3, OneSlot DEF IInv
  <2> QED  BY <1>1, <2>4, QuietKeeps
<1>3. CASE \E op, m, d : BeginFill(r, op, m, d)
  <2>1. PICK op, m, d : BeginFill(r, op, m, d)  BY <1>3
  <2> DEFINE s == [Idle EXCEPT !.op = op, !.target = d,
                               !.at = IF op \in Singles THEN "last" ELSE "survey",
                               !.todo = IF op \in Singles THEN {m} ELSE {}]
  <2>2. IsSlot(s)  BY DEF IsSlot, Idle
  <2>3. req' = [req EXCEPT ![r] = s]  BY <2>1 DEF BeginFill, Enters
  <2>4. Checked'  BY <2>2, <2>3, OneSlot DEF IInv
  <2> QED  BY <1>1, <2>4, QuietKeeps
<1> QED  BY <1>2, <1>3

LEMMA QueryKeeps ==
  ASSUME IInv, NEW r \in Req,
         \/ \E site : Survey(r, site)
         \/ Plant(r) \/ SelectLast(r) \/ FindLast(r) \/ FindUsages(r)
  PROVE  IInv'
<1>1. up /\ Quiet
  BY DEF IInv, Down, Survey, Plant, SelectLast, FindLast, FindUsages, Quiet, storeVars,
         tables, answers
<1>2. IsSlot(req[r])  BY SlotOf DEF IInv
<1>3. CASE Answer(r)  BY <1>1, <1>3, AnswerChecked, QuietKeeps DEF IInv
<1>4. ASSUME NEW s, IsSlot(s), req' = [req EXCEPT ![r] = s]  PROVE IInv'
  BY <1>1, <1>4, OneSlot, QuietKeeps DEF IInv
<1>5. CASE \E site : Survey(r, site)
  <2>1. PICK ms : req' = [req EXCEPT ![r].at = "last", ![r].todo = ms]
    BY <1>5 DEF Survey
  <2>2. IsSlot([req[r] EXCEPT !.at = "last", !.todo = ms])  BY <1>2 DEF IsSlot
  <2>3. req' = [req EXCEPT ![r] = [req[r] EXCEPT !.at = "last", !.todo = ms]]
    BY <2>1 DEF IInv, Checked
  <2> QED  BY <1>4, <2>2, <2>3
<1>6. CASE Plant(r)  BY <1>3, <1>6 DEF Plant
<1>7. CASE SelectLast(r)
  <2>1. CASE req' = [req EXCEPT ![r].at = "insert", ![r].found = FALSE]
    <3> DEFINE s == [req[r] EXCEPT !.at = "insert", !.found = FALSE]
    <3>1. IsSlot(s)  BY <1>2 DEF IsSlot
    <3>2. req' = [req EXCEPT ![r] = s]  BY <2>1 DEF IInv, Checked
    <3> QED  BY <1>4, <3>1, <3>2
  <2>2. ASSUME NEW row, req' = [req EXCEPT ![r].at = "insert", ![r].found = TRUE,
                                           ![r].row = row]
        PROVE  IInv'
    <3> DEFINE s == [req[r] EXCEPT !.at = "insert", !.found = TRUE, !.row = row]
    <3>1. IsSlot(s)  BY <1>2 DEF IsSlot
    <3>2. req' = [req EXCEPT ![r] = s]  BY <2>2 DEF IInv, Checked
    <3> QED  BY <1>4, <3>1, <3>2
  <2> QED  BY <1>7, <2>1, <2>2 DEF SelectLast
<1>8. ASSUME NEW m, Skip(r, m)  PROVE IInv'
  <2> DEFINE s == [req[r] EXCEPT !.at = "last", !.row = None, !.todo = @ \ {m}]
  <2>1. IsSlot(s)  BY <1>2 DEF IsSlot
  <2>2. req' = [req EXCEPT ![r] = s]  BY <1>8 DEF IInv, Checked, Skip
  <2> QED  BY <1>4, <2>1, <2>2
<1>9. ASSUME NEW row, NEW step \in {"usages", "before"},
             req' = [req EXCEPT ![r].at = step, ![r].row = row]
      PROVE  IInv'
  <2> DEFINE s == [req[r] EXCEPT !.at = step, !.row = row]
  <2>1. IsSlot(s)  BY <1>2 DEF IsSlot
  <2>2. req' = [req EXCEPT ![r] = s]  BY <1>9 DEF IInv, Checked
  <2> QED  BY <1>4, <2>1, <2>2
<1>10. CASE FindLast(r)  BY <1>3, <1>8, <1>9, <1>10 DEF FindLast
<1>11. CASE FindUsages(r)  BY <1>8, <1>9, <1>11 DEF FindUsages
<1> QED  BY <1>5, <1>6, <1>7, <1>10, <1>11

LEMMA CrashKeeps ==
  ASSUME IInv, Crash
  PROVE  IInv'
<1>1. /\ up' = FALSE /\ req' = [r \in Req |-> Idle]
      /\ UNCHANGED <<readings, tonnes, invoices, lastId, kept, gone>>
  BY DEF Crash, tables, answers
<1>2. Checked' /\ Down'  BY <1>1, IdleSlot DEF Checked, Down
<1> QED  BY <1>1, <1>2 DEF IInv, Given, TablesSound, AnsweredSurvives, RemovalSticks, InTables

LEMMA StartKeeps ==
  ASSUME IInv, Start
  PROVE  IInv'
BY DEF Start, IInv, Given, TablesSound, Checked, Down, AnsweredSurvives, RemovalSticks,
       InTables, storeVars, tables, answers

LEMMA StutterKeeps == ASSUME IInv, UNCHANGED vars  PROVE IInv'
BY DEF IInv, Given, TablesSound, Checked, Down, AnsweredSurvives, RemovalSticks, InTables,
       vars, storeVars, tables, answers

LEMMA NextKeeps == ASSUME IInv, [Next]_vars  PROVE IInv'
<1>1. ASSUME NEW out \in Outs, ReadingNext(out)  PROVE IInv'
  BY <1>1, InsertKeeps, EditReadingKeeps, RemoveReadingKeeps DEF ReadingNext
<1>2. ASSUME NEW out \in Outs, TonnesNext(out)  PROVE IInv'
  BY <1>2, PostTonnesKeeps, EditTonnesKeeps, RemoveTonnesKeeps DEF TonnesNext
<1>3. ASSUME NEW out \in Outs, InvoiceNext(out)  PROVE IInv'
  BY <1>3, CreateInvoiceKeeps, RemoveInvoiceKeeps, ReplaceInvoiceKeeps DEF InvoiceNext
<1>4. ASSUME NEW out \in Outs, DataNext(out)  PROVE IInv'
  BY <1>4, PutPreferencesKeeps, ClearKeeps, SeedKeeps DEF DataNext
<1>5. ASSUME NEW r \in Req, SlotNext(r)  PROVE IInv'
  BY <1>5, ReadInvoiceKeeps, ArrivalKeeps, QueryKeeps DEF SlotNext
<1>6. CASE Crash  BY <1>6, CrashKeeps
<1>7. CASE Start  BY <1>7, StartKeeps
<1>8. CASE UNCHANGED vars  BY <1>8, StutterKeeps
<1> QED  BY <1>1, <1>2, <1>3, <1>4, <1>5, <1>6, <1>7, <1>8 DEF Next

LEMMA InitSound == ASSUME StoreAssumption, Init  PROVE IInv
<1>1. /\ readings = Archive /\ tonnes = Empty /\ invoices = Empty /\ lastId = Len(Archive)
      /\ up = FALSE /\ req = [r \in Req |-> Idle] /\ kept = {} /\ gone = {}
  BY DEF Init, StoreInit
<1>2. Len(Archive) \in Nat /\ DOMAIN Archive = 1..Len(Archive)  BY DEF StoreAssumption
<1>3. DOMAIN Empty = {} /\ Empty \in [{} -> Proper]  BY DEF Empty
<1>4. TablesSound  BY <1>1, <1>2, <1>3 DEF TablesSound
<1>5. Checked /\ Down  BY <1>1, IdleSlot DEF Checked, Down
<1> QED  BY <1>1, <1>2, <1>4, <1>5 DEF IInv, Given, AnsweredSurvives, RemovalSticks

\* In every reachable state the tables have rows of ids given, apart from each
\* other, and agree with what clients were told (db_postgres.go, handlers).
THEOREM PgWaterInvariant == Spec => []IInv
<1>1. Init => IInv  BY StoreAssumption, InitSound
<1>2. IInv /\ [Next]_vars => IInv'  BY NextKeeps
<1> QED  BY <1>1, <1>2, PTL DEF Spec

\* A row whose creation was answered with success is there until a request
\* removes it, through lost answers, refused statements and stops (db_postgres.go).
THEOREM PgAnswersSurvive == Spec => []AnsweredSurvives
<1>1. IInv => AnsweredSurvives  BY DEF IInv
<1> QED  BY <1>1, PgWaterInvariant, PTL

\* A row whose removal was answered with success never comes back: no UPDATE
\* of a row read before inserts it again (db_postgres.go, updateInvoice).
THEOREM PgRemovalIsFinal == Spec => []RemovalSticks
<1>1. IInv => RemovalSticks  BY DEF IInv
<1> QED  BY <1>1, PgWaterInvariant, PTL

-----------------------------------------------------------------------------
(* The abstract register.                                                  *)

Unseen == UNCHANGED <<up, invoices>>

LEMMA UnseenMaps == ASSUME Unseen  PROVE UNCHANGED Register!vars
BY DEF Unseen, Register!vars

LEMMA OthersUnseen ==
  ASSUME NEW out, ReadingNext(out) \/ TonnesNext(out) \/ DataNext(out)
  PROVE  Unseen
<1>1. ASSUME ReadingNext(out)  PROVE Unseen
  BY <1>1 DEF ReadingNext, EditReading, RemoveReading, Insert, UpdateReading, DeleteReading,
              InsertReading, Unseen
<1>2. ASSUME TonnesNext(out)  PROVE Unseen
  BY <1>2 DEF TonnesNext, PostTonnes, EditTonnes, RemoveTonnes, AddTonnes, UpdateTonnes,
              DeleteTonnes, Unseen
<1>3. ASSUME DataNext(out)  PROVE Unseen
  BY <1>3 DEF DataNext, PutPreferences, UpdatePreferences, Clear, Seed, Cleared, ClearData,
              Unseen
<1> QED  BY <1>1, <1>2, <1>3

LEMMA SlotsUnseen ==
  ASSUME NEW r, SlotNext(r)
  PROVE  Unseen
BY DEF SlotNext, PostReading, ReadInvoice, BeginFill, Survey, Plant, SelectLast, FindLast,
       FindUsages, storeVars, tables, Unseen

LEMMA CreateMaps ==
  ASSUME IInv, NEW m, NEW site, NEW amount \in Amounts, NEW actor \in Actors,
         NEW out, CreateInvoice(m, site, amount, actor, out)
  PROVE  Register!Next \/ Unseen
<1> DEFINE row == [meter |-> m, site |-> site, amount |-> amount, createdBy |-> actor]
<1>1. row \in Register!Proper  BY DEF CreateInvoice, Register!Proper
<1>2. up /\ UNCHANGED up /\ AddInvoice(row, out)  BY DEF CreateInvoice, Arrives
<1>3. CASE Ran(out)
  <2>1. invoices' = Put(invoices, Fresh, row)  BY <1>2, <1>3 DEF AddInvoice
  <2>2. Fresh \notin DOMAIN invoices  BY FreshId DEF IInv, TablesSound
  <2>3. /\ Fresh \in DOMAIN invoices' \ DOMAIN invoices /\ invoices'[Fresh] = row
        /\ invoices' = [i \in DOMAIN invoices \cup {Fresh} |->
                          IF i = Fresh THEN invoices'[Fresh] ELSE invoices[i]]
    BY <2>1, <2>2 DEF Put
  <2>4. Register!Enter  BY <1>1, <1>2, <2>3 DEF Register!Enter
  <2> QED  BY <1>2, <2>4 DEF Register!Next, Register!Work, Register!Written
<1>4. CASE ~Ran(out)  BY <1>2, <1>4 DEF AddInvoice, Unseen
<1> QED  BY <1>3, <1>4

LEMMA ReplaceMaps ==
  ASSUME IInv, NEW r \in Req, NEW out, ReplaceInvoice(r, out)
  PROVE  Register!Next \/ Unseen
<1>1. req[r].invoice \in Proper /\ up /\ UNCHANGED up
  BY DEF IInv, Checked, IsSlot, Down, ReplaceInvoice
<1>2. CASE UpdateInvoice(req[r].id, req[r].invoice, out)
  <2> DEFINE id == req[r].id
  <2>1. /\ id \in DOMAIN invoices /\ DOMAIN invoices' = DOMAIN invoices
        /\ invoices'[id] \in Register!Proper
        /\ invoices'[id].createdBy = invoices[id].createdBy
        /\ invoices' = [invoices EXCEPT ![id] = invoices'[id]]
    BY <1>1, <1>2, UpdateInvoiceSound, RegisterProper
  <2>2. Register!Amend  BY <1>1, <2>1 DEF Register!Amend
  <2> QED  BY <1>1, <2>2 DEF Register!Next, Register!Work, Register!Written
<1>3. CASE UNCHANGED storeVars
  BY <1>1, <1>3 DEF Unseen, storeVars, tables
<1> QED  BY <1>2, <1>3 DEF ReplaceInvoice

LEMMA RemoveMaps ==
  ASSUME NEW id, NEW out, RemoveInvoice(id, out)
  PROVE  Register!Next \/ Unseen
<1>1. up /\ UNCHANGED up /\ DeleteInvoice(id, out)  BY DEF RemoveInvoice, Arrives
<1>2. CASE Ran(out)
  <2>1. id \in DOMAIN invoices /\ invoices' = [i \in DOMAIN invoices \ {id} |-> invoices[i]]
    BY <1>1, <1>2 DEF DeleteInvoice, Without
  <2>2. Register!Strike  BY <1>1, <2>1 DEF Register!Strike
  <2> QED  BY <1>1, <2>2 DEF Register!Next, Register!Work, Register!Written
<1>3. CASE ~Ran(out)  BY <1>1, <1>3 DEF DeleteInvoice, Unseen
<1> QED  BY <1>2, <1>3

LEMMA CrashMaps == ASSUME Crash  PROVE Register!Next
BY DEF Crash, tables, Empty, Register!Next, Register!Stop, Register!Void, Register!Kept

LEMMA StartMaps == ASSUME Start  PROVE Register!Next
BY DEF Start, storeVars, tables, Register!Next, Register!Reopen, Register!Kept

LEMMA NextMaps ==
  ASSUME IInv, [Next]_vars
  PROVE  [Register!Next]_(Register!vars)
<1>1. ASSUME NEW out \in Outs, InvoiceNext(out)  PROVE Register!Next \/ Unseen
  BY <1>1, CreateMaps, RemoveMaps, ReplaceMaps DEF InvoiceNext
<1>2. ASSUME NEW out \in Outs, ReadingNext(out) \/ TonnesNext(out) \/ DataNext(out)
      PROVE  Unseen
  BY <1>2, OthersUnseen
<1>3. ASSUME NEW r \in Req, SlotNext(r)  PROVE Unseen  BY <1>3, SlotsUnseen
<1>4. ASSUME UNCHANGED vars  PROVE Unseen  BY <1>4 DEF vars, storeVars, tables, Unseen
<1>5. Register!Next \/ Unseen
  BY <1>1, <1>2, <1>3, <1>4, CrashMaps, StartMaps DEF Next
<1> QED  BY <1>5, UnseenMaps

LEMMA InitMaps == ASSUME Init  PROVE Register!Init
BY DEF Init, StoreInit, Empty, Register!Init, Register!Void

\* The invoices of the handlers over PostgreSQL implement the register that the
\* JSON database implements: each is of its site and keeps its creator, and a
\* restart finds the book as it was (admin_handlers.go, db_postgres.go).
THEOREM PgImplementsRegister == Spec => RegisterSpec
<1>1. Init => Register!Init  BY InitMaps
<1>2. IInv /\ [Next]_vars => [Register!Next]_(Register!vars)  BY NextMaps
<1> QED  BY <1>1, <1>2, PgWaterInvariant, PTL DEF Spec, RegisterSpec, Register!Spec

-----------------------------------------------------------------------------
(* The type invariant.  An update of an invoice writes what it has checked *)
(* before: TypeOK is inductive with this.                                  *)

Copied == \A r \in Req : req[r].at = "replace" => req[r].invoice \in Invoice

TypeInv == TypeOK /\ Copied

RowsTyped ==
  /\ lastId \in Nat /\ autoFill \in BOOLEAN
  /\ Table(readings, Reading, lastId) /\ Table(tonnes, Entry, lastId)
  /\ Table(invoices, Invoice, lastId)

SlotsTyped == req \in [Req -> Slot] /\ Copied

HistoryTyped ==
  /\ kept \subseteq 1..lastId /\ gone \subseteq 1..lastId
  /\ bulk \subseteq 1..lastId /\ roots \subseteq 1..lastId /\ edited \subseteq MeterIds

ProcessTyped ==
  /\ up \in BOOLEAN /\ sent \in Nat /\ faults \in Nat
  /\ ~up => req = [r \in Req |-> Idle]

LEMMA TypeParts == TypeInv <=> RowsTyped /\ SlotsTyped /\ HistoryTyped /\ ProcessTyped
BY DEF IsTable, Table, TypeInv, TypeOK, RowsTyped, SlotsTyped, HistoryTyped, ProcessTyped

LEMMA TypePartsNext ==
  TypeInv' <=> RowsTyped' /\ SlotsTyped' /\ HistoryTyped' /\ ProcessTyped'
BY DEF IsTable, Table, TypeInv, TypeOK, RowsTyped, SlotsTyped, HistoryTyped, ProcessTyped, Copied

LEMMA Parts ==
  ASSUME TypeInv
  PROVE  /\ lastId \in Nat /\ Fresh = lastId + 1 /\ Fresh \in Nat /\ faults \in Nat
         /\ autoFill \in BOOLEAN
         /\ Table(readings, Reading, lastId) /\ Table(tonnes, Entry, lastId)
         /\ Table(invoices, Invoice, lastId)
         /\ RowsTyped /\ SlotsTyped /\ HistoryTyped /\ req \in [Req -> Slot]
         /\ req = [r \in Req |-> req[r]]
BY TypeParts DEF RowsTyped, SlotsTyped, ProcessTyped, Fresh

\* A step of a running program that goes on running.
Ticks == /\ up /\ up' /\ up' = up
         /\ sent' \in {sent, sent + 1} /\ faults' \in {faults, faults + 1}

LEMMA TicksTyped ==
  ASSUME TypeInv, Ticks, RowsTyped', SlotsTyped', HistoryTyped'
  PROVE  TypeInv'
<1>1. sent' \in Nat /\ faults' \in Nat  BY TypeParts DEF ProcessTyped, Ticks
<1>2. ProcessTyped'  BY <1>1 DEF ProcessTyped, Ticks
<1> QED  BY <1>2, TypePartsNext

LEMMA SlotTyped ==
  ASSUME TypeInv, Ticks, UNCHANGED <<tables, answers, fills>>, SlotsTyped'
  PROVE  TypeInv'
<1>1. RowsTyped' /\ HistoryTyped'
  BY Parts DEF RowsTyped, HistoryTyped, tables, answers, fills
<1> QED  BY <1>1, TicksTyped

LEMMA SameSlotsTyped == ASSUME SlotsTyped, UNCHANGED req  PROVE SlotsTyped'
BY DEF SlotsTyped, Copied

LEMMA OneSlotTyped ==
  ASSUME SlotsTyped, NEW r \in Req, NEW s \in Slot, req' = [req EXCEPT ![r] = s],
         s.at = "replace" => s.invoice \in Invoice
  PROVE  SlotsTyped'
BY DEF SlotsTyped, Copied

LEMMA IdleTyped == Idle \in Slot /\ Idle.at = "idle" /\ Idle.op = "none" /\ None \in Reading
<1>1. None \in Reading  BY DEF None, Reading, MeterIds
<1>2. Idle \in Slot  BY <1>1 DEF Idle, Slot, NoInvoice
<1> QED  BY <1>1, <1>2 DEF Idle

\* A request in flight means a running program.
LEMMA Running == ASSUME TypeInv, NEW r \in Req, req[r].at # "idle"  PROVE up
BY TypeParts, IdleTyped DEF ProcessTyped

LEMMA HistoryGrows ==
  ASSUME HistoryTyped, lastId \in Nat, lastId' \in Nat, lastId <= lastId',
         kept' \subseteq kept \cup ((lastId + 1)..lastId'),
         gone' \subseteq gone \cup 1..lastId',
         bulk' \subseteq bulk \cup ((lastId + 1)..lastId'),
         roots' \subseteq roots \cup ((lastId + 1)..lastId'), edited' \subseteq MeterIds
  PROVE  HistoryTyped'
<1>1. 1..lastId \subseteq 1..lastId' /\ (lastId + 1)..lastId' \subseteq 1..lastId'  OBVIOUS
<1> QED  BY <1>1 DEF HistoryTyped

-----------------------------------------------------------------------------
(* What becomes of a slot.                                                 *)

\* A request begins.
Arrival(s) ==
  /\ s \in Slot /\ s.at \in {"before", "replace", "last", "survey", "plant"}
  /\ s.at = "replace" => s.invoice \in Invoice
  /\ s.at = "before" => s.op = "reading"
  /\ s.at = "last" => s.op \in Singles

\* A query: the slot after it.
Surveyed(r, s) ==
  /\ req[r].at = "survey"
  /\ \E ms \in SUBSET Active :
       /\ s = [req[r] EXCEPT !.at = "last", !.todo = ms]
       /\ \/ ms \subseteq Stale(req[r].target)
          \/ faults' = faults + 1

Skipped(r, s) ==
  /\ req[r].at \in {"last", "usages"}
  /\ \E m : s = [req[r] EXCEPT !.at = "last", !.row = None, !.todo = req[r].todo \ {m}]

FoundLast(r, s) ==
  /\ req[r].at = "last"
  /\ \E m \in req[r].todo, row \in Reading :
       row.meter = m /\ s = [req[r] EXCEPT !.at = "usages", !.row = row]

Estimated(r, s) ==
  /\ req[r].at = "usages"
  /\ \E row \in Reading :
       /\ row.meter = req[r].row.meter /\ row.date = req[r].target
       /\ s = [req[r] EXCEPT !.at = "before", !.row = row]

SelectedNone(r, s) ==
  req[r].at = "before" /\ s = [req[r] EXCEPT !.at = "insert", !.found = FALSE]

Selected(r, s) ==
  /\ req[r].at = "before"
  /\ \E i \in Of(req[r].row.meter) :
       s = [req[r] EXCEPT !.at = "insert", !.found = TRUE,
                          !.row = Metered(req[r].row, readings[i].value)]

Query(r, s) ==
  \/ s = Idle
  \/ Surveyed(r, s) \/ Skipped(r, s) \/ FoundLast(r, s) \/ Estimated(r, s)
  \/ SelectedNone(r, s) \/ Selected(r, s)

LEMMA OfMeter ==
  ASSUME TypeInv, NEW m, NEW S \in SUBSET Of(m)
  PROVE  /\ IsFiniteSet(S) /\ S \in SUBSET Nat
         /\ \A i \in S : i \in DOMAIN readings /\ readings[i] \in Reading /\ readings[i].meter = m
<1>1. IsFiniteSet(DOMAIN readings) /\ DOMAIN readings \in SUBSET Nat  BY Parts, FiniteTable
<1>2. S \in SUBSET DOMAIN readings /\ \A i \in S : readings[i].meter = m  BY DEF Of
<1> QED  BY <1>1, <1>2, Parts, FS_Subset DEF Table

LEMMA RecentOf ==
  ASSUME TypeInv, NEW m, NEW since, NEW guessed
  PROVE  /\ IsFiniteSet(Recent(m, since, guessed)) /\ Recent(m, since, guessed) \in SUBSET Nat
         /\ \A j \in Recent(m, since, guessed) : readings[j].usage \in Int
<1>1. Recent(m, since, guessed) \in SUBSET Of(m)  BY DEF Recent
<1> QED  BY <1>1, OfMeter DEF Reading

\* The divisions of the estimates are defined: Week is not zero, and there are
\* usages to take the mean of.
LEMMA MeanReading ==
  ASSUME StoreAssumption, TypeInv, NEW m \in MeterIds, NEW last \in Reading,
         NEW target \in Nat, NEW est \in Mean(m, last, target)
  PROVE  est \in Reading /\ est.meter = m /\ est.date = target
<1> DEFINE recent == Recent(m, target - MeanWindow, TRUE)
           passed == (Usages(readings, recent) * (target - last.date))
                       \div (Week * Cardinality(recent))
<1>1. recent # {} /\ est = Estimate(m, last.value + passed, passed, target)  BY DEF Mean
<1>2. IsFiniteSet(recent) /\ \A j \in recent : readings[j].usage \in Int  BY RecentOf
<1> HIDE DEF recent
<1>3. Usages(readings, recent) \in Int  BY <1>2, UsagesInt
<1>4. Cardinality(recent) \in Nat \ {0}  BY <1>1, <1>2, FS_CardinalityType, FS_EmptySet
<1>5. Week * Cardinality(recent) \in Nat \ {0}  BY <1>4, ProductPositive DEF StoreAssumption
<1>6. target - last.date \in Int  BY DEF Reading
<1>7. passed \in Int  BY <1>3, <1>5, <1>6, ProductInt, QuotientInt
<1> HIDE DEF passed
<1>8. last.value + passed \in Int  BY <1>7 DEF Reading
<1> QED  BY <1>1, <1>7, <1>8, EstimateReading

LEMMA MedianReading ==
  ASSUME TypeInv, NEW m \in MeterIds, NEW last \in Reading, NEW target \in Nat,
         NEW est \in Middle(m, last, target)
  PROVE  est \in Reading /\ est.meter = m /\ est.date = target
<1> DEFINE recent == Recent(m, target - Lookback, FALSE)
           v == [i \in recent |-> readings[i].usage]
           middle == Median(v)
<1>1. recent # {} /\ est = Estimate(m, last.value + middle, middle, target)  BY DEF Middle
<1>2. /\ IsFiniteSet(recent) /\ recent \in SUBSET Nat
      /\ \A j \in recent : readings[j].usage \in Int
  BY RecentOf
<1> HIDE DEF recent
<1>3. middle \in Int
  <2>1. DOMAIN v = recent /\ v \in [recent -> Int] /\ recent \in SUBSET Int  BY <1>2
  <2> HIDE DEF v
  <2> QED  BY <1>1, <1>2, <2>1, MedianInt
<1> HIDE DEF middle
<1>4. last.value + middle \in Int  BY <1>3 DEF Reading
<1> QED  BY <1>1, <1>3, <1>4, EstimateReading

\* The queries of a slot.
SlotQuery(r) ==
  \/ \E site \in Sites \cup {Keep} : Survey(r, site)
  \/ Plant(r) \/ SelectLast(r) \/ FindLast(r) \/ FindUsages(r)

LEMMA SurveyDoes ==
  ASSUME StoreAssumption, TypeInv, NEW r \in Req, NEW site, Survey(r, site)
  PROVE  \E s : Query(r, s) /\ req' = [req EXCEPT ![r] = s]
<1> DEFINE AtSite(ms) == {m \in ms : site \in {Keep, SiteOf[m]}}
<1>1. req[r] \in Slot /\ req[r].at = "survey"  BY Parts DEF SlotsTyped, Survey
<1>2. ASSUME NEW ms \in SUBSET Active, req' = [req EXCEPT ![r].at = "last", ![r].todo = ms],
             ms \subseteq Stale(req[r].target) \/ faults' = faults + 1
      PROVE  \E s : Query(r, s) /\ req' = [req EXCEPT ![r] = s]
  <2> DEFINE s == [req[r] EXCEPT !.at = "last", !.todo = ms]
  <2>1. req' = [req EXCEPT ![r] = s]  BY <1>1, <1>2, Parts
  <2>2. Surveyed(r, s)  BY <1>1, <1>2 DEF Surveyed
  <2> QED  BY <2>1, <2>2 DEF Query
<1>3. /\ AtSite(Stale(req[r].target)) \in SUBSET Active /\ AtSite(Active) \in SUBSET Active
      /\ AtSite(Stale(req[r].target)) \subseteq Stale(req[r].target) /\ {} \in SUBSET Active
  BY DEF Stale
<1>4. \/ req' = [req EXCEPT ![r].at = "last", ![r].todo = AtSite(Stale(req[r].target))]
      \/ /\ faults' = faults + 1
         /\ \/ req' = [req EXCEPT ![r].at = "last", ![r].todo = AtSite(Active)]
            \/ req' = [req EXCEPT ![r].at = "last", ![r].todo = {}]
  BY DEF Survey, Fault
<1> HIDE DEF AtSite
<1> QED  BY <1>2, <1>3, <1>4

LEMMA SkipDoes ==
  ASSUME TypeInv, NEW r \in Req, req[r].at \in {"last", "usages"}, NEW m, Skip(r, m)
  PROVE  \E s : Query(r, s) /\ req' = [req EXCEPT ![r] = s]
<1> DEFINE s == [req[r] EXCEPT !.at = "last", !.row = None, !.todo = req[r].todo \ {m}]
<1>1. req[r] \in Slot  BY Parts DEF SlotsTyped
<1>2. req' = [req EXCEPT ![r] = s]  BY <1>1, Parts DEF Skip
<1>3. Skipped(r, s)  BY DEF Skipped
<1> QED  BY <1>2, <1>3 DEF Query

LEMMA FindLastDoes ==
  ASSUME TypeInv, NEW r \in Req, FindLast(r)
  PROVE  \E s : Query(r, s) /\ req' = [req EXCEPT ![r] = s]
<1>1. req[r] \in Slot /\ req[r].at = "last"  BY Parts DEF SlotsTyped, FindLast
<1>2. CASE Answer(r)  BY <1>2 DEF Answer, Query
<1>3. ASSUME NEW m, Skip(r, m)  PROVE \E s : Query(r, s) /\ req' = [req EXCEPT ![r] = s]
  BY <1>1, <1>3, SkipDoes
<1>4. ASSUME NEW m \in First(req[r].todo), NEW i \in Newest(m),
             req' = [req EXCEPT ![r].at = "usages", ![r].row = readings[i]]
      PROVE  \E s : Query(r, s) /\ req' = [req EXCEPT ![r] = s]
  <2> DEFINE row == readings[i]
             s == [req[r] EXCEPT !.at = "usages", !.row = row]
  <2>1. i \in Of(m) /\ m \in req[r].todo  BY DEF Newest, First
  <2>2. row \in Reading /\ row.meter = m
    <3>1. Of(m) \in SUBSET Of(m)  OBVIOUS
    <3> QED  BY <2>1, <3>1, OfMeter
  <2>3. req' = [req EXCEPT ![r] = s]  BY <1>1, <1>4, Parts
  <2> HIDE DEF row
  <2>4. FoundLast(r, s)  BY <1>1, <2>1, <2>2 DEF FoundLast
  <2> QED  BY <2>3, <2>4 DEF Query
<1> QED  BY <1>2, <1>3, <1>4 DEF FindLast

LEMMA FindUsagesDoes ==
  ASSUME StoreAssumption, TypeInv, NEW r \in Req, FindUsages(r)
  PROVE  \E s : Query(r, s) /\ req' = [req EXCEPT ![r] = s]
<1> DEFINE slot == req[r]
           m == slot.row.meter
           estimates == IF slot.op \in Means THEN Mean(m, slot.row, slot.target)
                                             ELSE Middle(m, slot.row, slot.target)
<1>1. /\ slot \in Slot /\ slot.at = "usages" /\ slot.row \in Reading
      /\ slot.target \in Nat /\ m \in MeterIds
  BY Parts DEF SlotsTyped, FindUsages, Slot, Reading
<1>2. CASE Skip(r, m)  BY <1>1, <1>2, SkipDoes
<1>3. ASSUME NEW est \in estimates, req' = [req EXCEPT ![r].at = "before", ![r].row = est]
      PROVE  \E s : Query(r, s) /\ req' = [req EXCEPT ![r] = s]
  <2> DEFINE s == [slot EXCEPT !.at = "before", !.row = est]
  <2>1. est \in Reading /\ est.meter = m /\ est.date = slot.target
    <3>1. est \in Mean(m, slot.row, slot.target) \/ est \in Middle(m, slot.row, slot.target)
      BY <1>3
    <3> HIDE DEF m, slot, estimates
    <3> QED  BY <1>1, <3>1, MeanReading, MedianReading
  <2>2. req' = [req EXCEPT ![r] = s]  BY <1>1, <1>3, Parts
  <2>3. Estimated(r, s)  BY <1>1, <2>1 DEF Estimated
  <2> QED  BY <2>2, <2>3 DEF Query
<1>4. Skip(r, m) \/ \E est \in estimates : req' = [req EXCEPT ![r].at = "before", ![r].row = est]
  BY DEF FindUsages
<1> QED  BY <1>2, <1>3, <1>4

LEMMA SelectLastDoes ==
  ASSUME TypeInv, NEW r \in Req, SelectLast(r)
  PROVE  \E s : Query(r, s) /\ req' = [req EXCEPT ![r] = s]
<1>1. req[r] \in Slot /\ req[r].at = "before"  BY Parts DEF SlotsTyped, SelectLast
<1>2. CASE req' = [req EXCEPT ![r].at = "insert", ![r].found = FALSE]
  <2> DEFINE s == [req[r] EXCEPT !.at = "insert", !.found = FALSE]
  <2>1. req' = [req EXCEPT ![r] = s]  BY <1>1, <1>2, Parts
  <2>2. SelectedNone(r, s)  BY <1>1 DEF SelectedNone
  <2> QED  BY <2>1, <2>2 DEF Query
<1>3. ASSUME NEW i \in Newest(req[r].row.meter),
             req' = [req EXCEPT ![r].at = "insert", ![r].found = TRUE,
                                ![r].row = Metered(req[r].row, readings[i].value)]
      PROVE  \E s : Query(r, s) /\ req' = [req EXCEPT ![r] = s]
  <2> DEFINE row == Metered(req[r].row, readings[i].value)
             s == [req[r] EXCEPT !.at = "insert", !.found = TRUE, !.row = row]
  <2>1. req' = [req EXCEPT ![r] = s]
    <3> HIDE DEF row
    <3>1. req' = [req EXCEPT ![r].at = "insert", ![r].found = TRUE, ![r].row = row]
      BY <1>3 DEF row
    <3> QED  BY <1>1, <3>1, Parts
  <2>2. i \in Of(req[r].row.meter)  BY DEF Newest
  <2>3. Selected(r, s)  BY <1>1, <2>2 DEF Selected
  <2> QED  BY <2>1, <2>3 DEF Query
<1> QED  BY <1>2, <1>3 DEF SelectLast

LEMMA QueryDoes ==
  ASSUME StoreAssumption, TypeInv, NEW r \in Req, SlotQuery(r)
  PROVE  /\ UNCHANGED <<tables, sent, answers, fills>> /\ Ticks
         /\ \E s : Query(r, s) /\ req' = [req EXCEPT ![r] = s]
<1>1. UNCHANGED <<tables, up, sent, answers, fills>> /\ faults' \in {faults, faults + 1}
  BY DEF SlotQuery, Survey, Plant, SelectLast, FindLast, FindUsages, Fault, Misses, storeVars
<1>2. req[r].at # "idle"
  BY DEF SlotQuery, Survey, Plant, SelectLast, FindLast, FindUsages
<1>3. Ticks  BY <1>1, <1>2, Running DEF Ticks
<1>4. CASE Plant(r)
  <2>1. req' = [req EXCEPT ![r] = Idle] /\ Query(r, Idle)  BY <1>4 DEF Plant, Answer, Query
  <2> QED  BY <1>1, <1>3, <2>1
<1> QED  BY <1>1, <1>3, <1>4, SurveyDoes, SelectLastDoes, FindLastDoes, FindUsagesDoes
        DEF SlotQuery

\* The usage from a value selected.
LEMMA MeteredReading ==
  ASSUME NEW row \in Reading, NEW last \in Int
  PROVE  /\ Metered(row, last) \in Reading /\ Metered(row, last).meter = row.meter
         /\ Metered(row, last).value = row.value /\ Metered(row, last).date = row.date
         /\ Metered(row, last).usage
              = IF last > 0 /\ row.value > last THEN row.value - last ELSE row.usage
<1> DEFINE usage == IF last > 0 /\ row.value > last THEN row.value - last ELSE row.usage
<1>1. usage \in Int  BY DEF Reading
<1>2. Metered(row, last) = [row EXCEPT !.usage = usage]  BY DEF Metered, Reading
<1> HIDE DEF usage
<1>3. Metered(row, last).usage = usage /\ Metered(row, last) \in Reading
  BY <1>1, <1>2 DEF Reading
<1>4. /\ Metered(row, last).meter = row.meter /\ Metered(row, last).value = row.value
      /\ Metered(row, last).date = row.date
  BY <1>2 DEF Reading
<1> QED  BY <1>3, <1>4 DEF usage

\* What a slot says after a query.
LEMMA QuerySlot ==
  ASSUME StoreAssumption, TypeInv, NEW r \in Req, NEW s, Query(r, s)
  PROVE  s \in Slot /\ s.at # "replace"
<1>1. req[r] \in Slot /\ Active \subseteq MeterIds
  BY Parts DEF SlotsTyped, StoreAssumption, MeterIds
<1>2. CASE s = Idle  BY <1>2, IdleTyped
<1>3. CASE Surveyed(r, s)  BY <1>1, <1>3 DEF Surveyed, Slot
<1>4. CASE Skipped(r, s)
  <2>1. PICK m : s = [req[r] EXCEPT !.at = "last", !.row = None, !.todo = req[r].todo \ {m}]
    BY <1>4 DEF Skipped
  <2>2. req[r].todo \ {m} \in SUBSET MeterIds  BY <1>1 DEF Slot
  <2> QED  BY <1>1, <2>1, <2>2, IdleTyped DEF Slot
<1>5. CASE FoundLast(r, s)  BY <1>1, <1>5 DEF FoundLast, Slot
<1>6. CASE Estimated(r, s)  BY <1>1, <1>6 DEF Estimated, Slot
<1>7. CASE SelectedNone(r, s)  BY <1>1, <1>7 DEF SelectedNone, Slot
<1>8. CASE Selected(r, s)
  <2>1. PICK i \in Of(req[r].row.meter) :
          s = [req[r] EXCEPT !.at = "insert", !.found = TRUE,
                             !.row = Metered(req[r].row, readings[i].value)]
    BY <1>8 DEF Selected
  <2>2. readings[i] \in Reading /\ req[r].row \in Reading
    <3>1. ASSUME NEW m  PROVE \A k \in Of(m) : readings[k] \in Reading
      <4>1. Of(m) \in SUBSET Of(m)  OBVIOUS
      <4> QED  BY <4>1, OfMeter
    <3>2. req[r].row \in Reading  BY <1>1 DEF Slot
    <3> QED  BY <3>1, <3>2
  <2>3. readings[i].value \in Int  BY <2>2 DEF Reading
  <2> DEFINE row == Metered(req[r].row, readings[i].value)
  <2>4. row \in Reading  BY <2>2, <2>3, MeteredReading
  <2> HIDE DEF row
  <2>5. s = [req[r] EXCEPT !.at = "insert", !.found = TRUE, !.row = row]  BY <2>1 DEF row
  <2> QED  BY <1>1, <2>4, <2>5 DEF Slot
<1> QED  BY <1>2, <1>3, <1>4, <1>5, <1>6, <1>7, <1>8 DEF Query

LEMMA QueryTyped ==
  ASSUME StoreAssumption, TypeInv, NEW r \in Req, SlotQuery(r)
  PROVE  TypeInv'
<1>1. PICK s : Query(r, s) /\ req' = [req EXCEPT ![r] = s]  BY QueryDoes
<1>2. s \in Slot /\ s.at # "replace"  BY <1>1, QuerySlot
<1>3. SlotsTyped'  BY <1>1, <1>2, Parts, OneSlotTyped
<1> QED  BY <1>3, QueryDoes, SlotTyped

-----------------------------------------------------------------------------
(* Statements: they add a row of a new id, or change and remove rows.      *)

LEMMA OutcomeCounts == ASSUME NEW out, Outcome(out)  PROVE faults' \in {faults, faults + 1}
BY DEF Outcome, Fault

LEMMA StepTyped ==
  ASSUME TypeInv, Ticks, RowsTyped', SlotsTyped', lastId <= lastId',
         kept' \subseteq kept \cup ((lastId + 1)..lastId'),
         gone' \subseteq gone \cup 1..lastId',
         bulk' \subseteq bulk \cup ((lastId + 1)..lastId'),
         roots' \subseteq roots \cup ((lastId + 1)..lastId'), edited' \subseteq MeterIds
  PROVE  TypeInv'
<1>1. lastId' \in Nat  BY DEF RowsTyped
<1>2. HistoryTyped'  BY <1>1, Parts, HistoryGrows
<1> QED  BY <1>2, TicksTyped

\* A step that gives no id.
LEMMA SameIdsTyped ==
  ASSUME TypeInv, Ticks, UNCHANGED lastId, autoFill' \in BOOLEAN, SlotsTyped',
         Table(readings', Reading, lastId), Table(tonnes', Entry, lastId),
         Table(invoices', Invoice, lastId),
         kept' \subseteq kept, gone' \subseteq gone \cup 1..lastId,
         UNCHANGED <<bulk, roots>>, edited' \subseteq MeterIds
  PROVE  TypeInv'
<1>1. RowsTyped' /\ lastId <= lastId'  BY Parts DEF RowsTyped
<1> QED  BY <1>1, StepTyped

\* A row added.
IdGiven(out) == lastId' = IF Ran(out) THEN Fresh ELSE lastId

LEMMA OneMore ==
  ASSUME TypeInv, NEW out, IdGiven(out)
  PROVE  /\ lastId' \in Nat /\ lastId <= lastId' /\ New(out) \subseteq (lastId + 1)..lastId'
         /\ \A t, row : Table(t, row, lastId) => Table(t, row, lastId')
<1>1. lastId' \in Nat /\ lastId <= lastId'  BY Parts DEF IdGiven
<1>2. New(out) \subseteq (lastId + 1)..lastId'  BY <1>1, Parts DEF New, IdGiven
<1>3. ASSUME NEW t, NEW row, Table(t, row, lastId)  PROVE Table(t, row, lastId')
  BY <1>1, <1>3, Parts, TableGrows
<1> QED  BY <1>1, <1>2, <1>3

LEMMA PutTyped ==
  ASSUME TypeInv, NEW out, IdGiven(out), NEW t, NEW row, Table(t, row, lastId), NEW x \in row,
         NEW u, u = IF Ran(out) THEN Put(t, Fresh, x) ELSE t
  PROVE  Table(u, row, lastId')
<1>1. lastId \in Nat /\ Fresh = lastId + 1  BY Parts
<1>2. CASE Ran(out)
  <2>1. u = Put(t, lastId + 1, x) /\ lastId' = lastId + 1  BY <1>1, <1>2 DEF IdGiven
  <2> QED  BY <1>1, <2>1, PutTable
<1>3. CASE ~Ran(out)  BY <1>3, OneMore
<1> QED  BY <1>2, <1>3

LEMMA AddedNew ==
  ASSUME NEW out, Added({Fresh}, out)
  PROVE  kept' \subseteq kept \cup New(out)
BY DEF Added, New, Ran

LEMMA InsertReadingTyped ==
  ASSUME TypeInv, NEW row \in Reading, NEW out, InsertReading(row, out)
  PROVE  RowsTyped' /\ IdGiven(out) /\ faults' \in {faults, faults + 1}
<1>1. /\ IdGiven(out) /\ UNCHANGED <<tonnes, invoices, autoFill>>
      /\ readings' = IF Ran(out) THEN Put(readings, Fresh, row) ELSE readings
  BY DEF InsertReading, IdGiven
<1>2. Table(readings', Reading, lastId')  BY <1>1, Parts, PutTyped
<1> QED  BY <1>1, <1>2, Parts, OneMore, OutcomeCounts DEF RowsTyped, InsertReading

LEMMA InsertTyped ==
  ASSUME TypeInv, NEW r \in Req, NEW out, Insert(r, out)
  PROVE  TypeInv'
<1>1. req[r] \in Slot /\ req[r].row \in Reading /\ req[r].at = "insert"
  BY Parts DEF SlotsTyped, Slot, Insert
<1>2. /\ InsertReading(req[r].row, out) /\ Added({Fresh}, out)
      /\ UNCHANGED <<up, sent, gone, edited>>
      /\ bulk' \subseteq bulk \cup New(out) /\ roots' \subseteq roots \cup New(out)
  BY DEF Insert, New
<1>3. RowsTyped' /\ IdGiven(out) /\ Ticks
  BY <1>1, <1>2, InsertReadingTyped, Running DEF Ticks
<1>4. SlotsTyped'
  <2>1. CASE Answer(r)  BY <2>1, IdleTyped, OneSlotTyped, Parts DEF Answer
  <2>2. CASE req' = [req EXCEPT ![r].at = "last", ![r].row = None, ![r].found = FALSE,
                                ![r].todo = @ \ {req[r].row.meter}]
    <3> DEFINE s == [req[r] EXCEPT !.at = "last", !.row = None, !.found = FALSE,
                                   !.todo = req[r].todo \ {req[r].row.meter}]
    <3>1. req' = [req EXCEPT ![r] = s]  BY <1>1, <2>2, Parts
    <3>2. req[r].todo \ {req[r].row.meter} \in SUBSET MeterIds  BY <1>1 DEF Slot
    <3>3. s \in Slot /\ s.at # "replace"  BY <1>1, <3>2, IdleTyped DEF Slot
    <3> HIDE DEF s
    <3> QED  BY <3>1, <3>3, OneSlotTyped, Parts
  <2> QED  BY <2>1, <2>2 DEF Insert
<1>5. edited' \subseteq MeterIds /\ gone' \subseteq gone \cup 1..lastId'
  BY <1>2, Parts DEF HistoryTyped
<1> QED  BY <1>2, <1>3, <1>4, <1>5, OneMore, AddedNew, StepTyped

LEMMA PostTonnesTyped ==
  ASSUME TypeInv, NEW site \in Sites, NEW amount \in Amounts, NEW out,
         PostTonnes(site, amount, out)
  PROVE  TypeInv'
<1> DEFINE row == [site |-> site, tonnes |-> amount]
<1>1. row \in Entry  BY DEF Entry
<1>2. /\ IdGiven(out) /\ tonnes' = IF Ran(out) THEN Put(tonnes, Fresh, row) ELSE tonnes
      /\ UNCHANGED <<readings, invoices, autoFill, req, gone, bulk, roots, edited>>
      /\ Outcome(out) /\ Arrives /\ up' = up /\ Added({Fresh}, out)
  BY DEF PostTonnes, AddTonnes, IdGiven, fills
<1> HIDE DEF row
<1>3. Table(tonnes', Entry, lastId')  BY <1>1, <1>2, Parts, PutTyped
<1>4. RowsTyped'  BY <1>2, <1>3, Parts, OneMore DEF RowsTyped
<1>5. Ticks  BY <1>2, OutcomeCounts DEF Ticks, Arrives
<1>6. edited' \subseteq MeterIds /\ gone' \subseteq gone \cup 1..lastId'
  BY <1>2, Parts DEF HistoryTyped
<1> QED  BY <1>2, <1>4, <1>5, <1>6, Parts, SameSlotsTyped, OneMore, AddedNew, StepTyped

LEMMA CreateInvoiceTyped ==
  ASSUME TypeInv, NEW m, NEW site \in Sites, NEW amount \in Amounts, NEW actor \in Actors,
         NEW out, CreateInvoice(m, site, amount, actor, out)
  PROVE  TypeInv'
<1> DEFINE row == [meter |-> m, site |-> site, amount |-> amount, createdBy |-> actor]
<1>1. row \in Invoice  BY DEF CreateInvoice, Invoice
<1>2. /\ IdGiven(out) /\ invoices' = IF Ran(out) THEN Put(invoices, Fresh, row) ELSE invoices
      /\ UNCHANGED <<readings, tonnes, autoFill, req, gone, bulk, roots, edited>>
      /\ Outcome(out) /\ Arrives /\ up' = up /\ Added({Fresh}, out)
  BY DEF CreateInvoice, AddInvoice, IdGiven, fills
<1> HIDE DEF row
<1>3. Table(invoices', Invoice, lastId')  BY <1>1, <1>2, Parts, PutTyped
<1>4. RowsTyped'  BY <1>2, <1>3, Parts, OneMore DEF RowsTyped
<1>5. Ticks  BY <1>2, OutcomeCounts DEF Ticks, Arrives
<1>6. edited' \subseteq MeterIds /\ gone' \subseteq gone \cup 1..lastId'
  BY <1>2, Parts DEF HistoryTyped
<1> QED  BY <1>2, <1>4, <1>5, <1>6, Parts, SameSlotsTyped, OneMore, AddedNew, StepTyped

-----------------------------------------------------------------------------
(* Changes and removals.                                                   *)

LEMMA EditedReading ==
  ASSUME FlowAssumption, NEW row \in Reading, NEW v \in Values, NEW u \in Values,
         NEW d \in Dates \cup {Keep}
  PROVE  /\ Edited(row, [value |-> v, usage |-> u, date |-> d]) \in Reading
         /\ Edited(row, [value |-> v, usage |-> u, date |-> d]).meter = row.meter
<1>1. v \in Int /\ u \in Int /\ (d # Keep => d \in Nat)  BY DEF FlowAssumption
<1> DEFINE value == IF v = 0 THEN row.value ELSE v
           usage == IF u = 0 THEN row.usage ELSE u
           date == IF d = Keep THEN row.date ELSE d
<1>2. value \in Int /\ usage \in Int /\ date \in Nat  BY <1>1 DEF Reading
<1>3. Edited(row, [value |-> v, usage |-> u, date |-> d])
        = [row EXCEPT !.value = value, !.usage = usage, !.date = date]
  BY DEF Edited
<1> HIDE DEF value, usage, date
<1> QED  BY <1>2, <1>3 DEF Reading

LEMMA EditReadingTyped ==
  ASSUME FlowAssumption, TypeInv, NEW id \in DOMAIN readings, NEW v \in Values,
         NEW u \in Values, NEW d \in Dates \cup {Keep}, NEW out,
         EditReading(id, [value |-> v, usage |-> u, date |-> d], out)
  PROVE  TypeInv'
<1> DEFINE row == IF Ran(out) THEN Edited(readings[id], [value |-> v, usage |-> u, date |-> d])
                  ELSE readings[id]
<1>1. readings[id] \in Reading /\ readings[id].meter \in MeterIds
      /\ readings = [i \in DOMAIN readings |-> readings[i]]
  BY Parts DEF Table, Reading
<1>2. /\ readings' = [readings EXCEPT ![id] = row] /\ Arrives /\ up' = up
      /\ UNCHANGED <<tonnes, invoices, autoFill, lastId, req, kept, gone, bulk, roots>>
      /\ edited' = edited \cup {readings[id].meter} /\ Outcome(out)
  BY <1>1 DEF EditReading, UpdateReading, answers
<1>3. row \in Reading  BY <1>1, EditedReading
<1> HIDE DEF row
<1>4. Table(readings', Reading, lastId)  BY <1>2, <1>3, Parts, ExceptTable
<1>5. Ticks  BY <1>2, OutcomeCounts DEF Ticks, Arrives
<1>6. edited' \subseteq MeterIds  BY <1>1, <1>2, Parts DEF HistoryTyped
<1> QED  BY <1>2, <1>4, <1>5, <1>6, Parts, SameSlotsTyped, SameIdsTyped

\* A row, or none, is removed, and the client may hear of it.
LEMMA OldTyped ==
  ASSUME TypeInv, NEW t, NEW row, Table(t, row, lastId), NEW id \in DOMAIN t, NEW out,
         Removed({id}, out), NEW u, u = IF Ran(out) THEN Without(t, {id}) ELSE t
  PROVE  /\ Table(u, row, lastId)
         /\ kept' \subseteq kept /\ gone' \subseteq gone \cup 1..lastId
<1>1. Table(u, row, lastId)  BY Parts, WithoutTable
<1>2. id \in 1..lastId  BY DEF Table
<1> QED  BY <1>1, <1>2 DEF Removed

LEMMA RemoveReadingTyped ==
  ASSUME TypeInv, NEW id \in DOMAIN readings, NEW out, RemoveReading(id, out)
  PROVE  TypeInv'
<1>1. /\ readings' = IF Ran(out) THEN Without(readings, {id}) ELSE readings
      /\ Removed({id}, out) /\ Arrives /\ up' = up /\ Outcome(out)
      /\ UNCHANGED <<tonnes, invoices, autoFill, lastId, req, bulk, roots>>
      /\ edited' = edited \cup {readings[id].meter}
  BY DEF RemoveReading, DeleteReading
<1>2. /\ Table(readings', Reading, lastId)
      /\ kept' \subseteq kept /\ gone' \subseteq gone \cup 1..lastId
  BY <1>1, Parts, OldTyped
<1>3. edited' \subseteq MeterIds  BY <1>1, Parts DEF HistoryTyped, Table, Reading
<1>4. Ticks  BY <1>1, OutcomeCounts DEF Ticks, Arrives
<1> QED  BY <1>1, <1>2, <1>3, <1>4, Parts, SameSlotsTyped, SameIdsTyped

LEMMA RemoveTonnesTyped ==
  ASSUME TypeInv, NEW id \in DOMAIN tonnes, NEW out, RemoveTonnes(id, out)
  PROVE  TypeInv'
<1>1. /\ tonnes' = IF Ran(out) THEN Without(tonnes, {id}) ELSE tonnes
      /\ Removed({id}, out) /\ Arrives /\ up' = up /\ Outcome(out)
      /\ UNCHANGED <<readings, invoices, autoFill, lastId, req, bulk, roots, edited>>
  BY DEF RemoveTonnes, DeleteTonnes, fills
<1>2. /\ Table(tonnes', Entry, lastId)
      /\ kept' \subseteq kept /\ gone' \subseteq gone \cup 1..lastId
  BY <1>1, Parts, OldTyped
<1>3. Ticks /\ edited' \subseteq MeterIds
  BY <1>1, Parts, OutcomeCounts DEF Ticks, Arrives, HistoryTyped
<1> QED  BY <1>1, <1>2, <1>3, Parts, SameSlotsTyped, SameIdsTyped

LEMMA RemoveInvoiceTyped ==
  ASSUME TypeInv, NEW id \in DOMAIN invoices, NEW out, RemoveInvoice(id, out)
  PROVE  TypeInv'
<1>1. /\ invoices' = IF Ran(out) THEN Without(invoices, {id}) ELSE invoices
      /\ Removed({id}, out) /\ Arrives /\ up' = up /\ Outcome(out)
      /\ UNCHANGED <<readings, tonnes, autoFill, lastId, req, bulk, roots, edited>>
  BY DEF RemoveInvoice, DeleteInvoice, fills
<1>2. /\ Table(invoices', Invoice, lastId)
      /\ kept' \subseteq kept /\ gone' \subseteq gone \cup 1..lastId
  BY <1>1, Parts, OldTyped
<1>3. Ticks /\ edited' \subseteq MeterIds
  BY <1>1, Parts, OutcomeCounts DEF Ticks, Arrives, HistoryTyped
<1> QED  BY <1>1, <1>2, <1>3, Parts, SameSlotsTyped, SameIdsTyped

LEMMA EditTonnesTyped ==
  ASSUME TypeInv, NEW id \in DOMAIN tonnes, NEW site \in Sites \cup {Keep},
         NEW amount \in Amounts \cup {Keep}, NEW out, EditTonnes(id, site, amount, out)
  PROVE  TypeInv'
<1> DEFINE s == IF site = Keep THEN tonnes[id].site ELSE site
           a == IF amount \in {Keep, 0} THEN tonnes[id].tonnes ELSE amount
           row == [tonnes[id] EXCEPT !.site = s, !.tonnes = a]
<1>1. tonnes[id] \in Entry /\ tonnes \in [DOMAIN tonnes -> Entry]  BY Parts DEF Table
<1>2. /\ tonnes' = IF Ran(out) THEN [tonnes EXCEPT ![id] = row] ELSE tonnes
      /\ UNCHANGED <<readings, invoices, autoFill, lastId, req, kept, gone, bulk, roots, edited>>
      /\ Arrives /\ up' = up /\ Outcome(out)
  BY <1>1 DEF EditTonnes, UpdateTonnes, answers, fills, Entry
<1>3. s \in Sites /\ a \in Amounts  BY <1>1 DEF Entry
<1>4. row \in Entry
  <2> HIDE DEF s, a
  <2> QED  BY <1>1, <1>3 DEF Entry
<1> HIDE DEF row
<1>5. Table(tonnes', Entry, lastId)  BY <1>2, <1>4, Parts, ExceptTable
<1>6. Ticks /\ edited' \subseteq MeterIds
  BY <1>2, Parts, OutcomeCounts DEF Ticks, Arrives, HistoryTyped
<1> QED  BY <1>2, <1>5, <1>6, Parts, SameSlotsTyped, SameIdsTyped

LEMMA PutPreferencesTyped ==
  ASSUME TypeInv, NEW enabled \in BOOLEAN, NEW out, PutPreferences(enabled, out)
  PROVE  TypeInv'
<1>1. /\ UNCHANGED <<readings, tonnes, invoices, lastId, req, kept, gone, bulk, roots, edited>>
      /\ Arrives /\ up' = up /\ Outcome(out) /\ autoFill' \in {enabled, autoFill}
  BY DEF PutPreferences, UpdatePreferences, answers, fills
<1>2. Ticks /\ edited' \subseteq MeterIds /\ autoFill' \in BOOLEAN
  BY <1>1, Parts, OutcomeCounts DEF Ticks, Arrives, HistoryTyped
<1> QED  BY <1>1, <1>2, Parts, SameSlotsTyped, SameIdsTyped

-----------------------------------------------------------------------------
(* The removal of everything, the arrivals, and the process.               *)

\* The requests that begin, but for the seed, which clears too.
SlotArrival(r) ==
  \/ \E m \in Meters, v \in Values, d \in Dates : PostReading(r, m, v, d)
  \/ \E id \in DOMAIN invoices, patch \in InvoicePatch : ReadInvoice(r, id, patch)
  \/ \E op \in Fills, m \in MeterIds, d \in Dates : BeginFill(r, op, m, d)

LEMMA ArrivalDoes ==
  ASSUME FlowAssumption, TypeInv, NEW r \in Req, SlotArrival(r)
  PROVE  /\ UNCHANGED <<tables, answers, fills>> /\ Ticks
         /\ \E s : Arrival(s) /\ req' = [req EXCEPT ![r] = s]
<1>1. UNCHANGED <<storeVars, up, answers, fills>> /\ Arrives
  BY DEF SlotArrival, PostReading, ReadInvoice, BeginFill, Enters
<1>2. UNCHANGED <<tables, answers, fills>> /\ Ticks  BY <1>1 DEF Arrives, Ticks, storeVars
<1>3. ASSUME NEW m \in Meters, NEW v \in Values, NEW d \in Dates, PostReading(r, m, v, d)
      PROVE  \E s : Arrival(s) /\ req' = [req EXCEPT ![r] = s]
  <2> DEFINE row == [meter |-> m, value |-> v, usage |-> 0, date |-> d, est |-> FALSE]
             s == [Idle EXCEPT !.op = "reading", !.at = "before", !.row = row]
  <2>1. v \in Int /\ d \in Nat /\ m \in MeterIds  BY DEF FlowAssumption, MeterIds
  <2>2. row \in Reading  BY <2>1 DEF Reading
  <2>3. req' = [req EXCEPT ![r] = s]  BY <1>3 DEF PostReading, Enters
  <2> HIDE DEF row
  <2>4. s \in Slot /\ s.op = "reading" /\ s.at = "before"  BY <2>2, IdleTyped DEF Slot
  <2> HIDE DEF s
  <2> QED  BY <2>3, <2>4 DEF Arrival
<1>4. ASSUME NEW id \in DOMAIN invoices, NEW patch \in InvoicePatch, ReadInvoice(r, id, patch)
      PROVE  \E s : Arrival(s) /\ req' = [req EXCEPT ![r] = s]
  <2> DEFINE copy == Merged(invoices[id], patch)
             s == [Idle EXCEPT !.op = "invoice", !.at = "replace", !.id = id, !.invoice = copy]
  <2>1. invoices[id] \in Invoice /\ id \in Nat  BY Parts DEF Table
  <2>2. copy \in Invoice  BY <1>4, <2>1, MergedTyped DEF ReadInvoice
  <2>3. req' = [req EXCEPT ![r] = s]  BY <1>4 DEF ReadInvoice, Enters
  <2> HIDE DEF copy
  <2>4. s \in Slot /\ s.at = "replace" /\ s.invoice = copy  BY <2>1, <2>2, IdleTyped DEF Slot
  <2> HIDE DEF s
  <2> QED  BY <2>2, <2>3, <2>4 DEF Arrival
<1>5. ASSUME NEW op \in Fills, NEW m \in MeterIds, NEW d \in Dates, BeginFill(r, op, m, d)
      PROVE  \E s : Arrival(s) /\ req' = [req EXCEPT ![r] = s]
  <2> DEFINE at == IF op \in Singles THEN "last" ELSE "survey"
             todo == IF op \in Singles THEN {m} ELSE {}
             s == [Idle EXCEPT !.op = op, !.target = d, !.at = at, !.todo = todo]
  <2>1. /\ at \in {"last", "survey"} /\ todo \in SUBSET MeterIds /\ d \in Nat
        /\ at = "last" => op \in Singles
    BY DEF FlowAssumption
  <2>2. req' = [req EXCEPT ![r] = s]  BY <1>5 DEF BeginFill, Enters
  <2> HIDE DEF at, todo
  <2>3. s \in Slot /\ s.op = op /\ s.at = at  BY <2>1, IdleTyped DEF Slot
  <2> HIDE DEF s
  <2> QED  BY <2>1, <2>2, <2>3 DEF Arrival
<1> QED  BY <1>2, <1>3, <1>4, <1>5 DEF SlotArrival

LEMMA ArrivalTyped ==
  ASSUME FlowAssumption, TypeInv, NEW r \in Req, SlotArrival(r)
  PROVE  TypeInv'
<1>1. PICK s : Arrival(s) /\ req' = [req EXCEPT ![r] = s]  BY ArrivalDoes
<1>2. SlotsTyped'  BY <1>1, Parts, OneSlotTyped DEF Arrival
<1> QED  BY <1>2, ArrivalDoes, SlotTyped

LEMMA InsertingMeters == ASSUME TypeInv  PROVE Inserting \subseteq MeterIds
<1>1. \A r \in Req : req[r].row \in Reading  BY Parts DEF Slot
<1> QED  BY <1>1 DEF Inserting, Reading

LEMMA ClearedTyped ==
  ASSUME TypeInv, Ticks, NEW out, Cleared(out), SlotsTyped', NEW said,
         Removed(DOMAIN readings \cup DOMAIN tonnes, said)
  PROVE  TypeInv'
<1>1. /\ readings' \in {Empty, readings} /\ tonnes' \in {Empty, tonnes}
      /\ UNCHANGED <<invoices, autoFill, lastId, bulk, roots>>
      /\ edited' = edited \cup Inserting
  BY DEF Cleared, ClearData
<1>2. Table(readings', Reading, lastId) /\ Table(tonnes', Entry, lastId)
  BY <1>1, Parts, EmptyTable
<1>3. kept' \subseteq kept /\ gone' \subseteq gone \cup 1..lastId
  BY Parts DEF Removed, Table
<1>4. edited' \subseteq MeterIds  BY <1>1, Parts, InsertingMeters DEF HistoryTyped
<1> QED  BY <1>1, <1>2, <1>3, <1>4, Parts, SameIdsTyped

LEMMA ClearedTicks ==
  ASSUME NEW out, Cleared(out), Arrives
  PROVE  Ticks
BY OutcomeCounts DEF Cleared, ClearData, Arrives, Ticks

LEMMA ClearTyped ==
  ASSUME TypeInv, NEW out, Clear(out)
  PROVE  TypeInv'
<1>1. Ticks /\ SlotsTyped'  BY ClearedTicks, Parts, SameSlotsTyped DEF Clear
<1> QED  BY <1>1, ClearedTyped DEF Clear

\* The seed clears, and its slot goes on to the insertions.
LEMMA SeedDoes ==
  ASSUME TypeInv, NEW r \in Req, NEW out, Seed(r, out)
  PROVE  /\ Cleared(out) /\ Ticks
         /\ UNCHANGED req \/ \E s : Arrival(s) /\ req' = [req EXCEPT ![r] = s]
<1> DEFINE s == [Idle EXCEPT !.op = "seed", !.at = "plant"]
<1>1. s \in Slot /\ s.at = "plant"  BY IdleTyped DEF Slot
<1>2. Arrives /\ Cleared(out) /\ (UNCHANGED req \/ req' = [req EXCEPT ![r] = s])
  BY DEF Seed, Enters
<1> HIDE DEF s
<1> QED  BY <1>1, <1>2, ClearedTicks DEF Arrival

LEMMA SeedTyped ==
  ASSUME TypeInv, NEW r \in Req, NEW out, Seed(r, out)
  PROVE  TypeInv'
<1>1. SlotsTyped'
  <2>1. CASE UNCHANGED req  BY <2>1, Parts, SameSlotsTyped
  <2>2. CASE \E s : Arrival(s) /\ req' = [req EXCEPT ![r] = s]
    BY <2>2, Parts, OneSlotTyped DEF Arrival
  <2> QED  BY <2>1, <2>2, SeedDoes
<1> DEFINE said == IF out = "done" THEN "lost" ELSE out
<1>2. Removed(DOMAIN readings \cup DOMAIN tonnes, said)  BY DEF Seed
<1> HIDE DEF said
<1> QED  BY <1>1, <1>2, SeedDoes, ClearedTyped

LEMMA ReplaceInvoiceTyped ==
  ASSUME TypeInv, NEW r \in Req, NEW out, ReplaceInvoice(r, out)
  PROVE  TypeInv'
<1>1. SlotsTyped'  BY Parts, IdleTyped, OneSlotTyped DEF ReplaceInvoice, Answer
<1>2. up /\ UNCHANGED <<up, sent, kept, gone, bulk, roots, edited>>
  BY Running DEF ReplaceInvoice, answers, fills
<1>3. CASE UpdateInvoice(req[r].id, req[r].invoice, out)
  <2> DEFINE id == req[r].id
             row == IF Ran(out) THEN [req[r].invoice EXCEPT !.createdBy = invoices[id].createdBy]
                    ELSE invoices[id]
  <2>1. id \in DOMAIN invoices  BY <1>3 DEF UpdateInvoice
  <2>2. invoices[id] \in Invoice /\ invoices = [i \in DOMAIN invoices |-> invoices[i]]
    BY <2>1, Parts DEF Table
  <2>3. /\ UNCHANGED <<readings, tonnes, autoFill, lastId>> /\ Outcome(out)
        /\ invoices' = [invoices EXCEPT ![id] = row]
    BY <1>3, <2>2 DEF UpdateInvoice
  <2>4. req[r].invoice \in Invoice  BY Parts DEF ReplaceInvoice, SlotsTyped, Copied
  <2>5. row \in Invoice  BY <2>2, <2>4 DEF Invoice
  <2> HIDE DEF row, id
  <2>6. Table(invoices', Invoice, lastId)  BY <2>1, <2>3, <2>5, Parts, ExceptTable
  <2>7. Ticks /\ edited' \subseteq MeterIds
    BY <1>2, <2>3, Parts, OutcomeCounts DEF Ticks, HistoryTyped
  <2> QED  BY <1>1, <1>2, <2>3, <2>6, <2>7, Parts, SameIdsTyped
<1>4. CASE UNCHANGED storeVars
  <2>1. Ticks /\ UNCHANGED <<tables, answers, fills>>
    BY <1>2, <1>4 DEF Ticks, storeVars, answers, fills
  <2> QED  BY <1>1, <2>1, SlotTyped
<1> QED  BY <1>3, <1>4 DEF ReplaceInvoice

LEMMA CrashTyped ==
  ASSUME TypeInv, Crash
  PROVE  TypeInv'
<1>1. /\ req' = [r \in Req |-> Idle] /\ up' = FALSE /\ faults' = faults + 1 /\ sent' = sent
      /\ UNCHANGED <<readings, tonnes, invoices, autoFill, lastId>>
      /\ UNCHANGED <<kept, gone, bulk, roots, edited>>
  BY DEF Crash, Fault, tables, answers, fills
<1>2. RowsTyped' /\ HistoryTyped'  BY <1>1, Parts DEF RowsTyped, HistoryTyped
<1>3. SlotsTyped'  BY <1>1, IdleTyped DEF SlotsTyped, Copied
<1>4. up' \in BOOLEAN  BY <1>1
<1>5. sent' \in Nat /\ faults' \in Nat  BY <1>1, TypeParts DEF ProcessTyped
<1>6. ProcessTyped'  BY <1>1, <1>4, <1>5 DEF ProcessTyped
<1> QED  BY <1>2, <1>3, <1>6, TypePartsNext

LEMMA StartTyped ==
  ASSUME TypeInv, Start \/ UNCHANGED vars
  PROVE  TypeInv'
<1>1. /\ UNCHANGED <<readings, tonnes, invoices, autoFill, lastId, req, sent, faults>>
      /\ UNCHANGED <<kept, gone, bulk, roots, edited>> /\ up' \in {TRUE, up}
  BY DEF Start, vars, storeVars, tables, answers, fills
<1>2. RowsTyped' /\ HistoryTyped'  BY <1>1, Parts DEF RowsTyped, HistoryTyped
<1>3. SlotsTyped'  BY <1>1, Parts, SameSlotsTyped
<1>4. sent' \in Nat /\ faults' \in Nat /\ up' \in BOOLEAN
  BY <1>1, TypeParts DEF ProcessTyped
<1>5. ~up' => req' = [r \in Req |-> Idle]  BY <1>1, TypeParts DEF ProcessTyped
<1>6. ProcessTyped'  BY <1>4, <1>5 DEF ProcessTyped
<1> QED  BY <1>2, <1>3, <1>6, TypePartsNext

LEMMA InitTyped == ASSUME StoreAssumption, Init  PROVE TypeInv
<1>1. /\ lastId = Len(Archive) /\ lastId \in Nat /\ DOMAIN Archive = 1..lastId
      /\ Archive \in [1..lastId -> Reading]
  BY DEF Init, StoreInit, StoreAssumption
<1>2. RowsTyped
  <2>1. Table(readings, Reading, lastId)  BY <1>1 DEF Init, StoreInit, Table
  <2>2. tonnes = Empty /\ invoices = Empty /\ autoFill \in BOOLEAN  BY DEF Init, StoreInit
  <2> QED  BY <1>1, <2>1, <2>2, EmptyTable DEF RowsTyped
<1>3. SlotsTyped  BY IdleTyped DEF Init, SlotsTyped, Copied
<1>4. HistoryTyped  BY <1>1 DEF Init, HistoryTyped
<1>5. ProcessTyped  BY DEF Init, StoreInit, ProcessTyped
<1> QED  BY <1>2, <1>3, <1>4, <1>5, TypeParts

\* Every step is of one of these kinds.
LEMMA StepKinds ==
  ASSUME [Next]_vars
  PROVE  \/ \E out \in Outs, r \in Req : Insert(r, out)
         \/ \E out \in Outs, id \in DOMAIN readings, v \in Values, u \in Values,
               d \in Dates \cup {Keep} :
              EditReading(id, [value |-> v, usage |-> u, date |-> d], out)
         \/ \E out \in Outs, id \in DOMAIN readings : RemoveReading(id, out)
         \/ \E out \in Outs : \/ TonnesNext(out) \/ InvoiceNext(out)
                              \/ \E enabled \in BOOLEAN : PutPreferences(enabled, out)
         \/ \E out \in Outs : Clear(out) \/ \E r \in Req : Seed(r, out)
         \/ \E r \in Req : SlotArrival(r)
         \/ \E r \in Req : SlotQuery(r)
         \/ Crash \/ (Start \/ UNCHANGED vars)
BY DEF Next, ReadingNext, DataNext, SlotNext, SlotArrival, SlotQuery

LEMMA NextTyped ==
  ASSUME StoreAssumption, FlowAssumption, TypeInv, [Next]_vars
  PROVE  TypeInv'
<1>1. ASSUME NEW out \in Outs, TonnesNext(out)  PROVE TypeInv'
  BY <1>1, PostTonnesTyped, EditTonnesTyped, RemoveTonnesTyped DEF TonnesNext
<1>2. ASSUME NEW out \in Outs, InvoiceNext(out)  PROVE TypeInv'
  BY <1>2, CreateInvoiceTyped, RemoveInvoiceTyped, ReplaceInvoiceTyped DEF InvoiceNext
<1>3. ASSUME NEW out \in Outs, NEW enabled \in BOOLEAN, PutPreferences(enabled, out)
      PROVE  TypeInv'
  BY <1>3, PutPreferencesTyped
<1>4. ASSUME NEW out \in Outs, Clear(out) \/ \E r \in Req : Seed(r, out)  PROVE TypeInv'
  BY <1>4, ClearTyped, SeedTyped
<1> QED  BY <1>1, <1>2, <1>3, <1>4, StepKinds, InsertTyped, EditReadingTyped,
            RemoveReadingTyped, ArrivalTyped, QueryTyped, CrashTyped, StartTyped

LEMMA TypeInvariant == Spec => []TypeInv
<1>1. Init => TypeInv  BY StoreAssumption, InitTyped
<1>2. TypeInv /\ [Next]_vars => TypeInv'  BY StoreAssumption, FlowAssumption, NextTyped
<1> QED  BY <1>1, <1>2, PTL DEF Spec

\* Every variable has its type, ids are below the last one given, and only a
\* running program has requests in flight: what a fill estimates from queries
\* of different moments is a reading, and what an update writes is an invoice.
THEOREM PgReadingTypes == Spec => []TypeOK
BY TypeInvariant, PTL DEF TypeInv

-----------------------------------------------------------------------------
(* Registers count up: neither estimate runs back, unless its date does.   *)

LEMMA MeanForward ==
  ASSUME StoreAssumption, TypeInv, NEW m \in MeterIds, NEW last \in Reading,
         NEW target \in Nat, last.date <= target, NEW est \in Mean(m, last, target)
  PROVE  est.usage >= 0 /\ est.value = last.value + est.usage
<1> DEFINE recent == Recent(m, target - MeanWindow, TRUE)
           passed == (Usages(readings, recent) * (target - last.date))
                       \div (Week * Cardinality(recent))
<1>1. recent # {} /\ est = Estimate(m, last.value + passed, passed, target)  BY DEF Mean
<1>2. IsFiniteSet(recent) /\ \A j \in recent : readings[j].usage \in Int /\ readings[j].usage >= 0
  <2>1. IsFiniteSet(recent) /\ \A j \in recent : readings[j].usage \in Int  BY RecentOf
  <2>2. \A j \in recent : readings[j].usage > 0  BY DEF Recent
  <2> HIDE DEF recent
  <2> QED  BY <2>1, <2>2
<1> HIDE DEF recent
<1>3. Usages(readings, recent) \in Nat  BY <1>2, UsagesNotNegative
<1>4. Cardinality(recent) \in Nat \ {0}  BY <1>1, <1>2, FS_CardinalityType, FS_EmptySet
<1>5. Week * Cardinality(recent) \in Nat \ {0}  BY <1>4, ProductPositive DEF StoreAssumption
<1>6. target - last.date \in Nat  BY DEF Reading
<1>7. passed \in Nat  BY <1>3, <1>5, <1>6, ProductNotNegative, QuotientNotNegative
<1> HIDE DEF passed
<1> QED  BY <1>1, <1>7 DEF Estimate

LEMMA MedianForward ==
  ASSUME TypeInv, NEW m \in MeterIds, NEW last \in Reading, NEW target \in Nat,
         NEW est \in Middle(m, last, target)
  PROVE  est.usage > 0 /\ est.value = last.value + est.usage
<1> DEFINE recent == Recent(m, target - Lookback, FALSE)
           v == [i \in recent |-> readings[i].usage]
           middle == Median(v)
<1>1. recent # {} /\ est = Estimate(m, last.value + middle, middle, target)  BY DEF Middle
<1>2. /\ IsFiniteSet(recent) /\ recent \in SUBSET Int
      /\ \A j \in recent : readings[j].usage \in Int /\ readings[j].usage > 0
  <2>1. /\ IsFiniteSet(recent) /\ recent \in SUBSET Nat
        /\ \A j \in recent : readings[j].usage \in Int
    BY RecentOf
  <2>2. \A j \in recent : readings[j].usage > 0  BY DEF Recent
  <2> HIDE DEF recent
  <2> QED  BY <2>1, <2>2
<1> HIDE DEF recent
<1>3. middle > 0
  <2>1. DOMAIN v = recent /\ v \in [recent -> Int] /\ \A j \in recent : v[j] > 0  BY <1>2
  <2> HIDE DEF v
  <2> QED  BY <1>1, <1>2, <2>1, MedianPositive
<1> HIDE DEF middle
<1> QED  BY <1>1, <1>3 DEF Estimate

\* An estimate goes on from the reading it starts from by its own usage, which
\* is not negative for a mean not dated before that reading, and positive for a
\* median.
Forward ==
  \A m \in MeterIds, last \in Reading, target \in Nat :
    /\ last.date <= target =>
         \A est \in Mean(m, last, target) :
           est.usage >= 0 /\ est.value = last.value + est.usage
    /\ \A est \in Middle(m, last, target) :
         est.usage > 0 /\ est.value = last.value + est.usage

\* Whatever other requests do between the queries of a fill, it estimates no
\* register below the reading it found, unless the date of a mean lies before
\* that (AutoFillMissingData, MedianFillMissingData).
THEOREM PgEstimatesGoForward == Spec => []Forward
<1>1. TypeInv => Forward
  BY StoreAssumption, MeanForward, MedianForward DEF Forward
<1> QED  BY <1>1, TypeInvariant, PTL

-----------------------------------------------------------------------------
(* Usages.  Each reading but the roots counts its water from an earlier    *)
(* one of its meter, and so does one on its way that found an earlier one, *)
(* unless a reading of the meter was changed or removed by hand, or        *)
(* cleared meanwhile.                                                      *)

Rooted ==
  \A j \in DOMAIN readings \ roots :
    readings[j].meter \notin edited => \E p \in DOMAIN readings : Counted(readings, p, j)

\* A row counts from p, if p is positive and the usage not negative.
CountsFrom(row, p) ==
  readings[p].value > 0 /\ row.usage >= 0 => row.value - readings[p].value <= row.usage

InFlight ==
  \A r \in Req : req[r].at = "insert" /\ req[r].found /\ req[r].row.meter \notin edited =>
    \E p \in Of(req[r].row.meter) : CountsFrom(req[r].row, p)

RootInv == Rooted /\ InFlight

\* Slots that stay as they were, or are not about to insert.
Calm == \A r \in Req : req'[r] = req[r] \/ req'[r].at # "insert"

LEMMA CalmAnswer ==
  ASSUME TypeInv, UNCHANGED req \/ \E r \in Req : Answer(r)
  PROVE  Calm
BY Parts, IdleTyped DEF Calm, Answer

LEMMA CalmArrival ==
  ASSUME TypeInv, NEW r \in Req, NEW s, Arrival(s), req' = [req EXCEPT ![r] = s]
  PROVE  Calm
BY Parts DEF Calm, Arrival

\* The steps about tonnes, invoices and preferences.
ElsewhereNext(out) ==
  \/ TonnesNext(out) \/ InvoiceNext(out)
  \/ \E enabled \in BOOLEAN : PutPreferences(enabled, out)

LEMMA ElsewhereDoes ==
  ASSUME NEW out, ElsewhereNext(out)
  PROVE  /\ UNCHANGED <<readings, roots, bulk, edited>> /\ faults' \in {faults, faults + 1}
         /\ UNCHANGED req \/ \E r \in Req : Answer(r)
<1>1. CASE TonnesNext(out)
  BY <1>1, OutcomeCounts DEF TonnesNext, PostTonnes, AddTonnes, EditTonnes, UpdateTonnes,
     RemoveTonnes, DeleteTonnes, fills
<1>2. CASE InvoiceNext(out)
  <2>1. ASSUME NEW m, NEW site, NEW amount, NEW actor, CreateInvoice(m, site, amount, actor, out)
        PROVE  /\ UNCHANGED <<readings, roots, bulk, edited, req>>
               /\ faults' \in {faults, faults + 1}
    BY <2>1, OutcomeCounts DEF CreateInvoice, AddInvoice, fills
  <2>2. ASSUME NEW id, RemoveInvoice(id, out)
        PROVE  /\ UNCHANGED <<readings, roots, bulk, edited, req>>
               /\ faults' \in {faults, faults + 1}
    BY <2>2, OutcomeCounts DEF RemoveInvoice, DeleteInvoice, fills
  <2>3. ASSUME NEW r \in Req, ReplaceInvoice(r, out)
        PROVE  /\ UNCHANGED <<readings, roots, bulk, edited>> /\ Answer(r)
               /\ faults' \in {faults, faults + 1}
    BY <2>3, OutcomeCounts DEF ReplaceInvoice, UpdateInvoice, storeVars, tables, fills
  <2> QED  BY <1>2, <2>1, <2>2, <2>3 DEF InvoiceNext
<1>3. CASE \E enabled \in BOOLEAN : PutPreferences(enabled, out)
  BY <1>3, OutcomeCounts DEF PutPreferences, UpdatePreferences, fills
<1> QED  BY <1>1, <1>2, <1>3 DEF ElsewhereNext

\* A step that leaves the readings alone.
LEMMA RootedSame ==
  ASSUME Rooted, UNCHANGED <<readings, roots>>, edited \subseteq edited'
  PROVE  Rooted'
BY DEF Rooted, Counted, Covers

LEMMA FlightSame ==
  ASSUME InFlight, Calm, UNCHANGED readings, edited \subseteq edited'
  PROVE  InFlight'
BY DEF InFlight, Calm, CountsFrom, Of

LEMMA RootQuery ==
  ASSUME StoreAssumption, TypeInv, RootInv, NEW r \in Req, SlotQuery(r)
  PROVE  RootInv'
<1>1. UNCHANGED <<readings, roots, edited>>  BY QueryDoes DEF tables, fills
<1>2. PICK s : Query(r, s) /\ req' = [req EXCEPT ![r] = s]  BY QueryDoes
<1>3. \A i \in Req : req'[i] = IF i = r THEN s ELSE req[i]  BY <1>2, Parts
<1>4. req[r] \in Slot /\ req[r].row \in Reading  BY Parts DEF Slot
<1>5. Rooted'  BY <1>1, RootedSame DEF RootInv
<1>6. CASE Selected(r, s)
  <2>1. PICK i \in Of(req[r].row.meter) :
          s = [req[r] EXCEPT !.at = "insert", !.found = TRUE,
                             !.row = Metered(req[r].row, readings[i].value)]
    BY <1>6 DEF Selected
  <2> DEFINE row == Metered(req[r].row, readings[i].value)
  <2>2. readings[i].value \in Int
    <3>1. i \in DOMAIN readings  BY DEF Of
    <3> QED  BY <3>1, Parts DEF Table, Reading
  <2>3. /\ row.meter = req[r].row.meter /\ row.value \in Int
        /\ row.usage = IF readings[i].value > 0 /\ row.value > readings[i].value
                       THEN row.value - readings[i].value ELSE req[r].row.usage
    <3>1. /\ row.meter = req[r].row.meter /\ row.value = req[r].row.value
          /\ row.usage = IF readings[i].value > 0 /\ req[r].row.value > readings[i].value
                         THEN req[r].row.value - readings[i].value ELSE req[r].row.usage
      BY <1>4, <2>2, MeteredReading
    <3>2. req[r].row.value \in Int  BY <1>4 DEF Reading
    <3> HIDE DEF row
    <3> QED  BY <3>1, <3>2
  <2>4. s.row = row  BY <1>4, <2>1 DEF Slot
  <2> HIDE DEF row
  <2>5. i \in Of(s.row.meter)  BY <2>3, <2>4
  <2>6. CountsFrom(s.row, i)
    <3>1. CASE readings[i].value > 0 /\ row.value > readings[i].value
      BY <2>2, <2>3, <2>4, <3>1 DEF CountsFrom
    <3>2. CASE readings[i].value > 0 /\ ~(row.value > readings[i].value)
      <4>1. row.value - readings[i].value <= 0  BY <2>2, <2>3, <3>2
      <4>2. row.usage \in Int  BY <1>4, <2>3, <3>2 DEF Reading
      <4> QED  BY <2>2, <2>3, <2>4, <4>1, <4>2 DEF CountsFrom
    <3>3. CASE ~(readings[i].value > 0)  BY <3>3 DEF CountsFrom
    <3> QED  BY <3>1, <3>2, <3>3
  <2>7. InFlight'
    <3>1. ASSUME NEW q \in Req, req'[q].at = "insert", req'[q].found,
                 req'[q].row.meter \notin edited'
          PROVE  \E p \in Of(req'[q].row.meter) : CountsFrom(req'[q].row, p)
      <4>1. CASE q = r  BY <1>3, <2>5, <2>6, <4>1
      <4>2. CASE q # r  BY <1>1, <1>3, <3>1, <4>2 DEF RootInv, InFlight
      <4> QED  BY <4>1, <4>2
    <3> QED  BY <1>1, <3>1 DEF InFlight, CountsFrom, Of
  <2> QED  BY <1>5, <2>7 DEF RootInv
<1>7. CASE ~Selected(r, s)
  <2>1. s.at = "insert" => ~s.found
    <3>1. CASE s = Idle  BY <3>1, IdleTyped
    <3>2. CASE Surveyed(r, s)  BY <1>4, <3>2 DEF Surveyed, Slot
    <3>3. CASE Skipped(r, s)  BY <1>4, <3>3 DEF Skipped, Slot
    <3>4. CASE FoundLast(r, s)  BY <1>4, <3>4 DEF FoundLast, Slot
    <3>5. CASE Estimated(r, s)  BY <1>4, <3>5 DEF Estimated, Slot
    <3>6. CASE SelectedNone(r, s)
      <4>1. s = [req[r] EXCEPT !.at = "insert", !.found = FALSE]  BY <3>6 DEF SelectedNone
      <4>2. s.found = FALSE  BY <1>4, <4>1 DEF Slot
      <4> QED  BY <4>2
    <3> QED  BY <1>2, <1>7, <3>1, <3>2, <3>3, <3>4, <3>5, <3>6 DEF Query
  <2>2. InFlight'  BY <1>1, <1>3, <2>1 DEF RootInv, InFlight, CountsFrom, Of
  <2> QED  BY <1>5, <2>2 DEF RootInv
<1> QED  BY <1>6, <1>7

\* A row inserted that found an earlier one counts from it.
LEMMA RootInsert ==
  ASSUME TypeInv, RootInv, NEW r \in Req, NEW out, Insert(r, out)
  PROVE  RootInv'
<1> DEFINE row == req[r].row
<1>1. /\ req[r].at = "insert" /\ UNCHANGED edited
      /\ readings' = IF Ran(out) THEN Put(readings, Fresh, row) ELSE readings
      /\ roots' = IF Ran(out) /\ ~req[r].found THEN roots \cup {Fresh} ELSE roots
  BY DEF Insert, InsertReading
<1>2. Calm
  <2>1. CASE Answer(r)  BY <2>1, CalmAnswer
  <2>2. CASE req' = [req EXCEPT ![r].at = "last", ![r].row = None, ![r].found = FALSE,
                                ![r].todo = @ \ {req[r].row.meter}]
    <3>1. req[r] \in Slot  BY Parts
    <3>2. req'[r].at = "last" /\ \A q \in Req : q # r => req'[q] = req[q]
      BY <2>2, <3>1, Parts DEF Slot
    <3> QED  BY <3>2 DEF Calm
  <2> QED  BY <2>1, <2>2 DEF Insert
<1>3. /\ lastId \in Nat /\ Fresh = lastId + 1 /\ DOMAIN readings \subseteq 1..lastId
      /\ Fresh \notin DOMAIN readings /\ \A p \in DOMAIN readings : p < Fresh
  BY Parts DEF Table
<1>4. CASE ~Ran(out)
  BY <1>1, <1>2, <1>4, RootedSame, FlightSame DEF RootInv
<1>5. CASE Ran(out)
  <2>1. /\ DOMAIN readings' = DOMAIN readings \cup {Fresh} /\ readings'[Fresh] = row
        /\ \A i \in DOMAIN readings : readings'[i] = readings[i]
    BY <1>1, <1>3, <1>5 DEF Put
  <2> HIDE DEF row
  <2>2. ASSUME NEW j \in DOMAIN readings' \ roots', readings'[j].meter \notin edited'
        PROVE  \E p \in DOMAIN readings' : Counted(readings', p, j)
    <3>1. CASE j # Fresh
      <4>1. j \in DOMAIN readings \ roots  BY <1>1, <2>1, <2>2, <3>1
      <4>2. PICK p \in DOMAIN readings : Counted(readings, p, j)
        BY <1>1, <2>1, <2>2, <4>1 DEF RootInv, Rooted
      <4>3. Counted(readings', p, j)  BY <2>1, <4>1, <4>2 DEF Counted, Covers
      <4> QED  BY <2>1, <4>3
    <3>2. CASE j = Fresh
      <4>1. req[r].found /\ row.meter \notin edited  BY <1>1, <1>5, <2>1, <2>2, <3>2
      <4>2. PICK p \in Of(row.meter) : CountsFrom(row, p)
        BY <1>1, <4>1 DEF RootInv, InFlight, row
      <4>3. p \in DOMAIN readings /\ readings[p].meter = row.meter  BY DEF Of
      <4>4. Counted(readings', p, j)
        BY <1>3, <2>1, <3>2, <4>2, <4>3 DEF Counted, Covers, CountsFrom
      <4> QED  BY <2>1, <4>3, <4>4
    <3> QED  BY <3>1, <3>2
  <2>3. Rooted'  BY <2>2 DEF Rooted
  <2>4. ASSUME NEW q \in Req, req'[q].at = "insert", req'[q].found,
               req'[q].row.meter \notin edited'
        PROVE  \E p \in DOMAIN readings' :
                 /\ readings'[p].meter = req'[q].row.meter
                 /\ readings'[p].value > 0 /\ req'[q].row.usage >= 0 =>
                      req'[q].row.value - readings'[p].value <= req'[q].row.usage
    <3>1. req'[q] = req[q]  BY <1>2, <2>4 DEF Calm
    <3>2. PICK p \in Of(req[q].row.meter) : CountsFrom(req[q].row, p)
      BY <1>1, <2>4, <3>1 DEF RootInv, InFlight
    <3> QED  BY <2>1, <3>1, <3>2 DEF Of, CountsFrom
  <2>5. InFlight'  BY <2>4 DEF InFlight, Of, CountsFrom
  <2> QED  BY <2>3, <2>5 DEF RootInv
<1> QED  BY <1>4, <1>5

\* A reading changed or removed by hand decides only about its own meter.
LEMMA RootHand ==
  ASSUME TypeInv, RootInv, NEW id \in DOMAIN readings, UNCHANGED <<roots, req>>,
         edited' = edited \cup {readings[id].meter},
         \/ UNCHANGED readings
         \/ readings' = Without(readings, {id})
         \/ \E row : row.meter = readings[id].meter /\ readings' = [readings EXCEPT ![id] = row]
  PROVE  RootInv'
<1>1. ASSUME NEW i \in DOMAIN readings, readings[i].meter \notin edited'
      PROVE  i # id /\ i \in DOMAIN readings' /\ readings'[i] = readings[i]
  BY <1>1, Parts DEF Without, Table
<1>2. ASSUME NEW i \in DOMAIN readings', readings'[i].meter \notin edited'
      PROVE  i \in DOMAIN readings /\ readings[i].meter = readings'[i].meter
  BY <1>2, Parts DEF Without, Table
<1>3. ASSUME NEW j \in DOMAIN readings' \ roots', readings'[j].meter \notin edited'
      PROVE  \E p \in DOMAIN readings' : Counted(readings', p, j)
  <2>1. j \in DOMAIN readings \ roots /\ readings'[j] = readings[j]  BY <1>1, <1>2, <1>3
  <2>2. PICK p \in DOMAIN readings : Counted(readings, p, j)
    BY <1>3, <2>1 DEF RootInv, Rooted
  <2>3. readings[p].meter \notin edited'  BY <1>3, <2>1, <2>2 DEF Counted
  <2>4. p \in DOMAIN readings' /\ readings'[p] = readings[p]  BY <1>1, <2>3
  <2> QED  BY <2>1, <2>2, <2>4 DEF Counted, Covers
<1>4. ASSUME NEW q \in Req, req'[q].at = "insert", req'[q].found,
             req'[q].row.meter \notin edited'
      PROVE  \E p \in DOMAIN readings' :
               /\ readings'[p].meter = req'[q].row.meter
               /\ readings'[p].value > 0 /\ req'[q].row.usage >= 0 =>
                    req'[q].row.value - readings'[p].value <= req'[q].row.usage
  <2>1. PICK p \in Of(req[q].row.meter) : CountsFrom(req[q].row, p)
    BY <1>4 DEF RootInv, InFlight
  <2>2. p \in DOMAIN readings /\ readings[p].meter = req[q].row.meter  BY DEF Of
  <2>3. p \in DOMAIN readings' /\ readings'[p] = readings[p]  BY <1>1, <1>4, <2>2
  <2> QED  BY <2>1, <2>2, <2>3 DEF CountsFrom
<1>5. Rooted'  BY <1>3 DEF Rooted
<1>6. InFlight'  BY <1>4 DEF InFlight, Of, CountsFrom
<1> QED  BY <1>5, <1>6 DEF RootInv

\* What is on its way when the readings are cleared may lose what it counts from.
LEMMA RootCleared ==
  ASSUME TypeInv, RootInv, NEW out, Cleared(out), Calm
  PROVE  RootInv'
<1>1. readings' \in {Empty, readings} /\ UNCHANGED roots /\ edited' = edited \cup Inserting
  BY DEF Cleared, ClearData
<1>2. ASSUME NEW q \in Req, req'[q].at = "insert"  PROVE req'[q].row.meter \in edited'
  BY <1>1, <1>2 DEF Calm, Inserting
<1>3. InFlight'  BY <1>2 DEF InFlight
<1>4. Rooted'
  <2>1. CASE readings' = Empty  BY <2>1 DEF Rooted, Empty
  <2>2. CASE readings' = readings  BY <1>1, <2>2, RootedSame DEF RootInv
  <2> QED  BY <1>1, <2>1, <2>2
<1> QED  BY <1>3, <1>4 DEF RootInv

LEMMA RootStep ==
  ASSUME StoreAssumption, FlowAssumption, TypeInv, RootInv, [Next]_vars
  PROVE  RootInv'
<1>1. ASSUME NEW out, NEW id \in DOMAIN readings, NEW v \in Values, NEW u \in Values,
             NEW d \in Dates \cup {Keep},
             EditReading(id, [value |-> v, usage |-> u, date |-> d], out)
      PROVE  RootInv'
  <2> DEFINE row == Edited(readings[id], [value |-> v, usage |-> u, date |-> d])
  <2>1. row.meter = readings[id].meter
    <3>1. readings[id] \in Reading  BY Parts DEF Table
    <3> QED  BY <3>1, EditedReading
  <2>2. /\ UNCHANGED <<roots, req>> /\ edited' = edited \cup {readings[id].meter}
        /\ UNCHANGED readings \/ readings' = [readings EXCEPT ![id] = row]
    BY <1>1 DEF EditReading, UpdateReading
  <2> HIDE DEF row
  <2> QED  BY <2>1, <2>2, RootHand
<1>2. ASSUME NEW out, NEW id \in DOMAIN readings, RemoveReading(id, out)  PROVE RootInv'
  <2>1. /\ UNCHANGED <<roots, req>> /\ edited' = edited \cup {readings[id].meter}
        /\ UNCHANGED readings \/ readings' = Without(readings, {id})
    BY <1>2 DEF RemoveReading, DeleteReading
  <2> QED  BY <2>1, RootHand
<1>3. ASSUME NEW out, ElsewhereNext(out)  PROVE RootInv'
  BY <1>3, ElsewhereDoes, CalmAnswer, RootedSame, FlightSame DEF RootInv
<1>4. ASSUME NEW out, Clear(out)  PROVE RootInv'
  BY <1>4, CalmAnswer, RootCleared DEF Clear
<1>5. ASSUME NEW out, NEW r \in Req, Seed(r, out)  PROVE RootInv'
  <2>1. Cleared(out) /\ Calm  BY <1>5, SeedDoes, CalmAnswer, CalmArrival
  <2> QED  BY <2>1, RootCleared
<1>6. ASSUME NEW r \in Req, SlotArrival(r)  PROVE RootInv'
  <2>1. UNCHANGED <<readings, roots, edited>>  BY <1>6, ArrivalDoes DEF tables, fills
  <2>2. Calm  BY <1>6, ArrivalDoes, CalmArrival
  <2> QED  BY <2>1, <2>2, RootedSame, FlightSame DEF RootInv
<1>7. CASE Crash
  <2>1. UNCHANGED <<readings, roots, edited>> /\ \A r \in Req : req'[r] = Idle
    BY <1>7 DEF Crash, tables, fills
  <2>2. Calm  BY <2>1, IdleTyped DEF Calm
  <2> QED  BY <2>1, <2>2, RootedSame, FlightSame DEF RootInv
<1>8. CASE Start \/ UNCHANGED vars
  <2>1. UNCHANGED <<readings, roots, edited, req>>
    BY <1>8 DEF Start, vars, storeVars, tables, fills
  <2> QED  BY <2>1, CalmAnswer, RootedSame, FlightSame DEF RootInv
<1> QED  BY <1>1, <1>2, <1>3, <1>4, <1>5, <1>6, <1>7, <1>8, StepKinds, RootInsert, RootQuery
        DEF ElsewhereNext

LEMMA RootInit == ASSUME Init  PROVE RootInv
<1>1. /\ readings = Archive
      /\ roots = {i \in DOMAIN Archive : \A p \in DOMAIN Archive : ~Covers(Archive, p, i)}
      /\ \A r \in Req : req[r] = Idle
  BY DEF Init, StoreInit
<1>2. Rooted  BY <1>1 DEF Rooted, Counted, Covers
<1>3. InFlight  BY <1>1, IdleTyped DEF InFlight
<1> QED  BY <1>2, <1>3 DEF RootInv

LEMMA RootCovers ==
  ASSUME TypeInv, RootInv
  PROVE  UsageCoversRegister
<1> SUFFICES ASSUME NEW m \in Meters \ edited,
                    \A k \in Of(m) : readings[k].value > 0 /\ readings[k].usage >= 0,
                    NEW i \in Of(m), NEW j \in Of(m), Of(m) \cap roots = {i}
             PROVE  readings[j].value - readings[i].value <= Usages(readings, Of(m))
  BY DEF UsageCoversRegister
<1>1. /\ IsFiniteSet(Of(m)) /\ Of(m) \in SUBSET Nat
      /\ \A k \in Of(m) : k \in DOMAIN readings /\ readings[k] \in Reading /\ readings[k].meter = m
  <2>1. Of(m) \in SUBSET Of(m)  OBVIOUS
  <2> QED  BY <2>1, OfMeter
<1>2. \A k \in Of(m) :
        readings[k].usage \in Int /\ readings[k].usage >= 0 /\ readings[k].value \in Int
  BY <1>1 DEF Reading
<1>3. ASSUME NEW k \in Of(m) \ {i}  PROVE \E p \in Of(m) : Covers(readings, p, k)
  <2>1. k \in DOMAIN readings \ roots /\ readings[k].meter \notin edited  BY <1>1
  <2>2. PICK p \in DOMAIN readings : Counted(readings, p, k)
    BY <2>1 DEF RootInv, Rooted
  <2>3. p \in Of(m)  BY <1>1, <2>2 DEF Counted, Of
  <2> QED  BY <2>2, <2>3 DEF Counted
<1> QED  BY <1>1, <1>2, <1>3, UsagesCover

\* However requests interleave between the query for the last reading and the
\* insertion, the usages recorded for a meter whose register only counts up
\* cover all it counted since the one reading that found no earlier one
\* (db_postgres.go, AddReading).
THEOREM PgUsagesCoverRegister == Spec => []UsageCoversRegister
<1>1. TypeInv /\ RootInv /\ [Next]_vars => RootInv'
  BY StoreAssumption, FlowAssumption, RootStep
<1>2. TypeInv /\ RootInv => UsageCoversRegister  BY RootCovers
<1> QED  BY <1>1, <1>2, RootInit, TypeInvariant, PTL DEF Spec

-----------------------------------------------------------------------------
(* Gaps.  A reading that a bulk fill inserts was announced by the survey   *)
(* of its request: when the survey had found no reading of the day, or had *)
(* failed.  The readings inserted and the requests about to insert are     *)
(* together no more than the slots and the errors.                         *)

\* A slot of a bulk fill that has the meter still to do for the day.
Aims(s, m, d) ==
  /\ s.at \in {"last", "usages", "before", "insert"} /\ s.op \in Fills \ Singles
  /\ s.target = d /\ m \in s.todo

Filling(q, m, d) == {r \in Req : Aims(q[r], m, d)}

\* The row a bulk fill works on is of a meter it has to do, and in the end of
\* the day it fills.
OnAim(s) ==
  s.op \in Fills \ Singles =>
    /\ s.at \in {"usages", "before", "insert"} => s.row.meter \in s.todo
    /\ s.at \in {"before", "insert"} => s.row.date = s.target

Aimed(q) == \A r \in Req : OnAim(q[r])

Together(b, t, q, m, d) == Cardinality(Filled(b, t, m, d)) + Cardinality(Filling(q, m, d))

GapInv ==
  /\ Aimed(req)
  /\ \A m \in Meters \ edited, d \in Nat :
       Together(bulk, readings, req, m, d) <= Cardinality(Req) + faults

LEMMA FillingFinite ==
  ASSUME FlowAssumption, NEW q, NEW m, NEW d
  PROVE  /\ IsFiniteSet(Filling(q, m, d)) /\ Cardinality(Filling(q, m, d)) \in Nat
         /\ Cardinality(Filling(q, m, d)) <= Cardinality(Req) /\ Cardinality(Req) \in Nat
<1>1. IsFiniteSet(Req) /\ Filling(q, m, d) \in SUBSET Req  BY DEF FlowAssumption, Filling
<1> QED  BY <1>1, FS_Subset, FS_CardinalityType

\* The two sets of a meter and a day are finite, and what bounds them is a number.
LEMMA GapFinite ==
  ASSUME FlowAssumption, TypeInv, NEW m, NEW d
  PROVE  /\ IsFiniteSet(Filled(bulk, readings, m, d)) /\ IsFiniteSet(Filling(req, m, d))
         /\ Cardinality(Filled(bulk, readings, m, d)) \in Nat
         /\ Cardinality(Filling(req, m, d)) \in Nat
         /\ Cardinality(Req) \in Nat /\ Cardinality(Req) + faults \in Nat
<1>1. lastId \in Nat /\ bulk \subseteq 1..lastId /\ faults \in Nat  BY Parts DEF HistoryTyped
<1>2. Filled(bulk, readings, m, d) \in SUBSET Filled(bulk, readings, m, d)  OBVIOUS
<1>3. /\ IsFiniteSet(Filled(bulk, readings, m, d))
      /\ Cardinality(Filled(bulk, readings, m, d)) \in Nat
  BY <1>1, <1>2, FilledFinite
<1>4. Cardinality(Req) + faults \in Nat  BY <1>1, FillingFinite
<1> QED  BY <1>3, <1>4, FillingFinite

\* No slot aims at what it did not aim at before.
Recedes == Aimed(req') /\ \A m, d : Filling(req', m, d) \subseteq Filling(req, m, d)

LEMMA RecedeSame == ASSUME Aimed(req), UNCHANGED req  PROVE Recedes
BY DEF Recedes

LEMMA RecedeSlot ==
  ASSUME TypeInv, Aimed(req), NEW r \in Req, NEW s, req' = [req EXCEPT ![r] = s],
         OnAim(s), \A m, d : Aims(s, m, d) => Aims(req[r], m, d)
  PROVE  Recedes
<1>1. \A i \in Req : req'[i] = IF i = r THEN s ELSE req[i]  BY Parts
<1>2. Aimed(req')  BY <1>1 DEF Aimed
<1>3. \A m, d : Filling(req', m, d) \subseteq Filling(req, m, d)  BY <1>1 DEF Filling
<1> QED  BY <1>2, <1>3 DEF Recedes

LEMMA IdleAim == OnAim(Idle) /\ \A m, d : ~Aims(Idle, m, d)
BY IdleTyped DEF OnAim, Aims

LEMMA RecedeAnswer ==
  ASSUME TypeInv, Aimed(req), NEW r \in Req, Answer(r)
  PROVE  Recedes
BY IdleAim, RecedeSlot DEF Answer

LEMMA RecedeArrival ==
  ASSUME TypeInv, Aimed(req), NEW r \in Req, NEW s, Arrival(s), req' = [req EXCEPT ![r] = s]
  PROVE  Recedes
<1>1. OnAim(s) /\ \A m, d : ~Aims(s, m, d)  BY DEF Arrival, OnAim, Aims, Fills, Singles
<1> QED  BY <1>1, RecedeSlot

\* A query narrows what its slot does, unless it is the survey.
LEMMA RecedeQuery ==
  ASSUME TypeInv, Aimed(req), NEW r \in Req, NEW s, Query(r, s), ~Surveyed(r, s),
         req' = [req EXCEPT ![r] = s]
  PROVE  Recedes
<1>1. req[r] \in Slot /\ OnAim(req[r]) /\ req[r].row \in Reading  BY Parts DEF Aimed, Slot
<1>2. CASE s = Idle  BY <1>2, IdleAim, RecedeSlot
<1>3. CASE Skipped(r, s)
  <2>1. PICK m : s = [req[r] EXCEPT !.at = "last", !.row = None, !.todo = req[r].todo \ {m}]
    BY <1>3 DEF Skipped
  <2>2. /\ s.at = "last" /\ s.op = req[r].op /\ s.target = req[r].target
        /\ s.todo = req[r].todo \ {m} /\ req[r].at \in {"last", "usages"}
    BY <1>1, <1>3, <2>1 DEF Slot, Skipped
  <2>3. OnAim(s) /\ \A n, d : Aims(s, n, d) => Aims(req[r], n, d)  BY <2>2 DEF OnAim, Aims
  <2> QED  BY <2>3, RecedeSlot
<1>4. CASE FoundLast(r, s)
  <2>1. PICK m \in req[r].todo, row \in Reading :
          row.meter = m /\ s = [req[r] EXCEPT !.at = "usages", !.row = row]
    BY <1>4 DEF FoundLast
  <2>2. /\ s.at = "usages" /\ s.op = req[r].op /\ s.target = req[r].target
        /\ s.todo = req[r].todo /\ s.row.meter \in req[r].todo /\ req[r].at = "last"
    BY <1>1, <1>4, <2>1 DEF Slot, FoundLast
  <2>3. OnAim(s) /\ \A n, d : Aims(s, n, d) => Aims(req[r], n, d)  BY <2>2 DEF OnAim, Aims
  <2> QED  BY <2>3, RecedeSlot
<1>5. CASE Estimated(r, s)
  <2>1. PICK row \in Reading :
          /\ row.meter = req[r].row.meter /\ row.date = req[r].target
          /\ s = [req[r] EXCEPT !.at = "before", !.row = row]
    BY <1>5 DEF Estimated
  <2>2. /\ s.at = "before" /\ s.op = req[r].op /\ s.target = req[r].target
        /\ s.todo = req[r].todo /\ s.row.meter = req[r].row.meter
        /\ s.row.date = req[r].target /\ req[r].at = "usages"
    BY <1>1, <1>5, <2>1 DEF Slot, Estimated
  <2>3. OnAim(s) /\ \A n, d : Aims(s, n, d) => Aims(req[r], n, d)
    BY <1>1, <2>2 DEF OnAim, Aims
  <2> QED  BY <2>3, RecedeSlot
<1>6. CASE SelectedNone(r, s) \/ Selected(r, s)
  <2>1. /\ s.at = "insert" /\ s.op = req[r].op /\ s.target = req[r].target
        /\ s.todo = req[r].todo /\ req[r].at = "before"
        /\ s.row.meter = req[r].row.meter /\ s.row.date = req[r].row.date
    <3>1. CASE SelectedNone(r, s)  BY <1>1, <3>1 DEF Slot, SelectedNone
    <3>2. CASE Selected(r, s)
      <4>1. PICK i \in Of(req[r].row.meter) :
              s = [req[r] EXCEPT !.at = "insert", !.found = TRUE,
                                 !.row = Metered(req[r].row, readings[i].value)]
        BY <3>2 DEF Selected
      <4>2. readings[i].value \in Int
        <5>1. i \in DOMAIN readings  BY DEF Of
        <5> QED  BY <5>1, Parts DEF Table, Reading
      <4> DEFINE row == Metered(req[r].row, readings[i].value)
      <4>3. row.meter = req[r].row.meter /\ row.date = req[r].row.date
        BY <1>1, <4>2, MeteredReading
      <4> HIDE DEF row
      <4>4. s = [req[r] EXCEPT !.at = "insert", !.found = TRUE, !.row = row]
        BY <4>1 DEF row
      <4> QED  BY <1>1, <3>2, <4>3, <4>4 DEF Slot, Selected
    <3> QED  BY <1>6, <3>1, <3>2
  <2>2. OnAim(s) /\ \A n, d : Aims(s, n, d) => Aims(req[r], n, d)
    BY <1>1, <2>1 DEF OnAim, Aims
  <2> QED  BY <2>2, RecedeSlot
<1> QED  BY <1>2, <1>3, <1>4, <1>5, <1>6 DEF Query

\* Without a new reading of a bulk fill, and no new aim, the bound stays.
LEMMA GapRecedes ==
  ASSUME FlowAssumption, TypeInv, GapInv, Recedes, UNCHANGED bulk, edited \subseteq edited',
         faults' \in {faults, faults + 1},
         \A m \in Meters \ edited', d \in Nat :
           Filled(bulk, readings', m, d) \subseteq Filled(bulk, readings, m, d)
  PROVE  GapInv'
<1>1. ASSUME NEW m \in Meters \ edited', NEW d \in Nat
      PROVE  Together(bulk', readings', req', m, d) <= Cardinality(Req) + faults'
  <2>1. Together(bulk, readings, req, m, d) <= Cardinality(Req) + faults  BY DEF GapInv
  <2>2. /\ faults \in Nat /\ faults' \in Nat /\ faults <= faults'
        /\ Cardinality(Req) \in Nat
    BY Parts, FillingFinite
  <2> DEFINE k == Cardinality(Req) + faults'
             x == Cardinality(Filled(bulk, readings, m, d))
             v == Cardinality(Filling(req, m, d))
  <2>3. x \in Nat /\ v \in Nat /\ x + v <= Cardinality(Req) + faults
    BY <2>1, GapFinite DEF Together
  <2>4. k \in Nat /\ x + v <= k
    <3> HIDE DEF x, v
    <3> QED  BY <2>2, <2>3
  <2>5. /\ Filled(bulk', readings', m, d) \subseteq Filled(bulk, readings, m, d)
        /\ Filling(req', m, d) \subseteq Filling(req, m, d)
    BY DEF Recedes
  <2> HIDE DEF k
  <2>6. Cardinality(Filled(bulk', readings', m, d)) + Cardinality(Filling(req', m, d)) <= k
    BY <2>4, <2>5, GapFinite, FewerTogether
  <2> QED  BY <2>6 DEF k, Together
<1> QED  BY <1>1 DEF GapInv, Recedes

\* A survey that was answered names a meter only when it has no reading of the
\* day; one that was not answered is an error more.
LEMMA GapSurvey ==
  ASSUME FlowAssumption, TypeInv, GapInv, NEW r \in Req, NEW s, Surveyed(r, s),
         req' = [req EXCEPT ![r] = s], UNCHANGED <<readings, bulk, edited>>,
         faults' \in {faults, faults + 1}
  PROVE  GapInv'
<1>1. req[r] \in Slot /\ req[r].target \in Nat /\ faults \in Nat /\ faults' \in Nat
  BY Parts DEF Slot
<1>2. PICK ms \in SUBSET Active : /\ s = [req[r] EXCEPT !.at = "last", !.todo = ms]
                                  /\ ms \subseteq Stale(req[r].target) \/ faults' = faults + 1
  BY DEF Surveyed
<1>3. s.at = "last" /\ s.op = req[r].op /\ s.target = req[r].target /\ s.todo = ms
  BY <1>1, <1>2 DEF Slot
<1>4. \A i \in Req : req'[i] = IF i = r THEN s ELSE req[i]  BY Parts
<1>5. Aimed(req')  BY <1>3, <1>4 DEF GapInv, Aimed, OnAim
<1>6. ASSUME NEW m \in Meters \ edited', NEW d \in Nat
      PROVE  Together(bulk', readings', req', m, d) <= Cardinality(Req) + faults'
  <2> DEFINE F == Filled(bulk, readings, m, d)
             G == Filling(req, m, d)
             H == Filling(req', m, d)
             c == Cardinality(Req)
  <2>1. /\ IsFiniteSet(F) /\ IsFiniteSet(G) /\ IsFiniteSet(H) /\ c \in Nat
        /\ Cardinality(F) \in Nat /\ Cardinality(G) \in Nat /\ Cardinality(H) \in Nat
        /\ Cardinality(H) <= c
    BY GapFinite, FillingFinite
  <2>2. Cardinality(F) + Cardinality(G) <= c + faults  BY DEF GapInv, Together
  <2>3. CASE ms \subseteq Stale(req[r].target) /\ m \in ms /\ d = req[r].target
    <3>1. ASSUME NEW i \in DOMAIN readings, readings[i].meter = m  PROVE readings[i].date # d
      <4>1. i \in Of(m) /\ readings[i] \in Reading  BY <3>1, Parts DEF Of, Table
      <4>2. readings[i].date <= d - Freshness  BY <2>3, <4>1 DEF Stale
      <4>3. readings[i].date \in Nat  BY <4>1 DEF Reading
      <4> QED  BY <4>2, <4>3 DEF FlowAssumption
    <3>2. F = {}  BY <3>1 DEF Filled
    <3>3. Cardinality(F) = 0  BY <3>2, FS_EmptySet
    <3> HIDE DEF F, H, c
    <3>4. Cardinality(F) + Cardinality(H) <= c + faults'  BY <1>1, <2>1, <3>3
    <3> QED  BY <3>4 DEF Together, F, H, c
  <2>4. CASE faults' = faults + 1
    <3>1. H \subseteq G \cup {r}  BY <1>4 DEF Filling
    <3>2. /\ IsFiniteSet(G \cup {r}) /\ H \in SUBSET (G \cup {r})
          /\ Cardinality(G \cup {r}) = IF r \in G THEN Cardinality(G) ELSE Cardinality(G) + 1
      BY <2>1, <3>1, FS_AddElement
    <3>3. Cardinality(H) <= Cardinality(G \cup {r})  BY <3>2, FS_Subset
    <3> HIDE DEF F, G, H, c
    <3>4. Cardinality(H) <= Cardinality(G) + 1  BY <2>1, <3>2, <3>3
    <3>5. Cardinality(F) + Cardinality(H) <= c + faults'  BY <1>1, <2>1, <2>2, <2>4, <3>4
    <3> QED  BY <3>5 DEF Together, F, H, c
  <2>5. CASE ~(m \in ms /\ d = req[r].target)
    <3>1. H \subseteq G  BY <1>3, <1>4, <2>5 DEF Filling, Aims
    <3>2. Cardinality(H) <= Cardinality(G)  BY <2>1, <3>1, FS_Subset
    <3> HIDE DEF F, G, H, c
    <3>3. Cardinality(F) + Cardinality(H) <= c + faults'  BY <1>1, <2>1, <2>2, <3>2
    <3> QED  BY <3>3 DEF Together, F, H, c
  <2> QED  BY <1>2, <2>3, <2>4, <2>5
<1> QED  BY <1>5, <1>6 DEF GapInv

\* One more reading and one request less: the bound stays.
LEMMA TogetherMoved ==
  ASSUME NEW b, NEW t, NEW q, NEW m, NEW d, NEW k \in Nat,
         IsFiniteSet(Filled(b, t, m, d)), IsFiniteSet(Filling(q, m, d)),
         Together(b, t, q, m, d) <= k,
         NEW c, NEW u, NEW p, NEW new, NEW r \in Filling(q, m, d),
         Filled(c, u, m, d) \subseteq Filled(b, t, m, d) \cup {new},
         Filling(p, m, d) \subseteq Filling(q, m, d) \ {r}
  PROVE  Together(c, u, p, m, d) <= k
<1>1. /\ IsFiniteSet(Filled(b, t, m, d)) /\ IsFiniteSet(Filling(q, m, d)) /\ k \in Nat
      /\ Cardinality(Filled(b, t, m, d)) + Cardinality(Filling(q, m, d)) <= k
  BY DEF Together
<1>2. /\ Filled(c, u, m, d) \subseteq Filled(b, t, m, d) \cup {new}
      /\ Filling(p, m, d) \subseteq Filling(q, m, d) \ {r} /\ r \in Filling(q, m, d)
  OBVIOUS
<1>3. Cardinality(Filled(c, u, m, d)) + Cardinality(Filling(p, m, d)) <= k
  BY ONLY <1>1, <1>2, MovedTogether
<1> QED  BY <1>3 DEF Together

\* The insertion takes its meter off the request's list.
LEMMA GapInsert ==
  ASSUME FlowAssumption, TypeInv, GapInv, NEW r \in Req, NEW out, Insert(r, out)
  PROVE  GapInv'
<1> DEFINE row == req[r].row
           mass == req[r].op \in Fills \ Singles
<1>1. /\ req[r] \in Slot /\ req[r].at = "insert" /\ UNCHANGED edited
      /\ readings' = IF Ran(out) THEN Put(readings, Fresh, row) ELSE readings
      /\ bulk' = IF Ran(out) /\ mass THEN bulk \cup {Fresh} ELSE bulk
      /\ Aimed(req) /\ OnAim(req[r])
  BY Parts DEF Insert, InsertReading, GapInv, Aimed
<1>2. /\ faults' \in {faults, faults + 1} /\ faults \in Nat /\ lastId \in Nat
      /\ Fresh = lastId + 1 /\ Fresh \notin DOMAIN readings /\ Fresh \notin bulk
  BY Parts, OutcomeCounts DEF Insert, InsertReading, HistoryTyped, Table
<1>3. PICK s : /\ req' = [req EXCEPT ![r] = s] /\ OnAim(s)
               /\ \A m, d : Aims(s, m, d) => Aims(req[r], m, d) /\ m # row.meter
  <2>1. CASE Answer(r)  BY <2>1, IdleAim DEF Answer
  <2>2. CASE req' = [req EXCEPT ![r].at = "last", ![r].row = None, ![r].found = FALSE,
                                ![r].todo = @ \ {row.meter}]
    <3> DEFINE t == [req[r] EXCEPT !.at = "last", !.row = None, !.found = FALSE,
                                   !.todo = req[r].todo \ {row.meter}]
    <3>1. req' = [req EXCEPT ![r] = t]  BY <1>1, <2>2, Parts
    <3>2. /\ t.at = "last" /\ t.op = req[r].op /\ t.target = req[r].target
          /\ t.todo = req[r].todo \ {row.meter}
      BY <1>1 DEF Slot
    <3> HIDE DEF t, row
    <3>3. OnAim(t) /\ \A m, d : Aims(t, m, d) => Aims(req[r], m, d) /\ m # row.meter
      BY <1>1, <3>2 DEF OnAim, Aims
    <3> QED  BY <3>1, <3>3
  <2> QED  BY <2>1, <2>2 DEF Insert
<1>4. Recedes  BY <1>1, <1>3, RecedeSlot
<1> HIDE DEF row, mass
<1>5. ASSUME NEW m \in Meters \ edited', NEW d \in Nat
      PROVE  Filled(bulk', readings', m, d) \subseteq
               IF Ran(out) /\ mass /\ m = row.meter /\ d = row.date
               THEN Filled(bulk, readings, m, d) \cup {Fresh}
               ELSE Filled(bulk, readings, m, d)
  <2>1. CASE Ran(out)
    <3>1. /\ DOMAIN readings' = DOMAIN readings \cup {Fresh} /\ readings'[Fresh] = row
          /\ \A i \in DOMAIN readings : readings'[i] = readings[i]
      BY <1>1, <1>2, <2>1 DEF Put
    <3> QED  BY <1>1, <1>2, <2>1, <3>1 DEF Filled
  <2>2. CASE ~Ran(out)  BY <1>1, <2>2 DEF Filled
  <2> QED  BY <2>1, <2>2
<1>6. ASSUME NEW m \in Meters \ edited', NEW d \in Nat
      PROVE  Together(bulk', readings', req', m, d) <= Cardinality(Req) + faults'
  <2> DEFINE k == Cardinality(Req) + faults'
  <2>1. k \in Nat /\ Together(bulk, readings, req, m, d) <= k
    <3> DEFINE x == Cardinality(Filled(bulk, readings, m, d))
               v == Cardinality(Filling(req, m, d))
    <3>1. x \in Nat /\ v \in Nat /\ Cardinality(Req) \in Nat  BY GapFinite
    <3>2. x + v <= Cardinality(Req) + faults  BY <1>1 DEF GapInv, Together
    <3>3. faults \in Nat /\ faults' \in Nat /\ faults <= faults'  BY <1>2
    <3> HIDE DEF x, v
    <3>4. k \in Nat /\ x + v <= k  BY <3>1, <3>2, <3>3
    <3> QED  BY <3>4 DEF Together, x, v
  <2>2. /\ IsFiniteSet(Filled(bulk, readings, m, d)) /\ IsFiniteSet(Filling(req, m, d))
        /\ Filling(req', m, d) \subseteq Filling(req, m, d)
    BY <1>4, GapFinite DEF Recedes
  <2> HIDE DEF k
  <2>3. CASE Ran(out) /\ mass /\ m = row.meter /\ d = row.date
    <3>1. r \in Filling(req, m, d)  BY <1>1, <2>3 DEF Filling, Aims, OnAim, mass, row
    <3>2. r \notin Filling(req', m, d)  BY <1>3, <2>3, Parts DEF Filling
    <3>3. Filling(req', m, d) \subseteq Filling(req, m, d) \ {r}  BY <2>2, <3>2
    <3>4. Filled(bulk', readings', m, d) \subseteq Filled(bulk, readings, m, d) \cup {Fresh}
      BY <1>5, <2>3
    <3>5. Together(bulk', readings', req', m, d) <= k
      BY ONLY <2>1, <2>2, <3>1, <3>3, <3>4, TogetherMoved
    <3> QED  BY <3>5 DEF k
  <2>4. CASE ~(Ran(out) /\ mass /\ m = row.meter /\ d = row.date)
    <3>1. Filled(bulk', readings', m, d) \subseteq Filled(bulk, readings, m, d)  BY <1>5, <2>4
    <3>2. Cardinality(Filled(bulk', readings', m, d)) + Cardinality(Filling(req', m, d)) <= k
      BY <2>1, <2>2, <3>1, FewerTogether DEF Together
    <3> QED  BY <3>2 DEF Together, k
  <2> QED  BY <2>3, <2>4
<1> QED  BY <1>4, <1>6 DEF GapInv, Recedes

LEMMA GapHand ==
  ASSUME FlowAssumption, TypeInv, GapInv, NEW id \in DOMAIN readings, UNCHANGED <<bulk, req>>,
         edited' = edited \cup {readings[id].meter}, faults' \in {faults, faults + 1},
         \/ UNCHANGED readings
         \/ readings' = Without(readings, {id})
         \/ \E row : row.meter = readings[id].meter /\ readings' = [readings EXCEPT ![id] = row]
  PROVE  GapInv'
<1>1. ASSUME NEW i \in DOMAIN readings', readings'[i].meter \notin edited'
      PROVE  i \in DOMAIN readings /\ readings'[i] = readings[i]
  BY <1>1, Parts DEF Without, Table
<1>2. \A m \in Meters \ edited', d \in Nat :
        Filled(bulk, readings', m, d) \subseteq Filled(bulk, readings, m, d)
  BY <1>1 DEF Filled
<1>3. Recedes  BY RecedeSame DEF GapInv
<1> QED  BY <1>2, <1>3, GapRecedes

LEMMA GapCleared ==
  ASSUME FlowAssumption, TypeInv, GapInv, NEW out, Cleared(out), Recedes
  PROVE  GapInv'
<1>1. /\ readings' \in {Empty, readings} /\ UNCHANGED bulk /\ edited \subseteq edited'
      /\ faults' \in {faults, faults + 1}
  BY OutcomeCounts DEF Cleared, ClearData
<1>2. \A m \in Meters \ edited', d \in Nat :
        Filled(bulk, readings', m, d) \subseteq Filled(bulk, readings, m, d)
  BY <1>1 DEF Filled, Empty
<1> QED  BY <1>1, <1>2, GapRecedes

\* A step that leaves the readings alone.
LEMMA GapSame ==
  ASSUME FlowAssumption, TypeInv, GapInv, UNCHANGED <<readings, bulk, edited>>, Recedes,
         faults' \in {faults, faults + 1}
  PROVE  GapInv'
<1>1. \A m, d : Filled(bulk, readings', m, d) \subseteq Filled(bulk, readings, m, d)
  BY DEF Filled
<1> QED  BY <1>1, GapRecedes

LEMMA GapStep ==
  ASSUME StoreAssumption, FlowAssumption, TypeInv, GapInv, [Next]_vars
  PROVE  GapInv'
<1>1. Aimed(req)  BY DEF GapInv
<1>2. ASSUME NEW out, NEW id \in DOMAIN readings, NEW v \in Values, NEW u \in Values,
             NEW d \in Dates \cup {Keep},
             EditReading(id, [value |-> v, usage |-> u, date |-> d], out)
      PROVE  GapInv'
  <2> DEFINE row == Edited(readings[id], [value |-> v, usage |-> u, date |-> d])
  <2>1. row.meter = readings[id].meter
    <3>1. readings[id] \in Reading  BY Parts DEF Table
    <3> QED  BY <3>1, EditedReading
  <2>2. /\ UNCHANGED <<bulk, req>> /\ edited' = edited \cup {readings[id].meter}
        /\ UNCHANGED readings \/ readings' = [readings EXCEPT ![id] = row]
        /\ faults' \in {faults, faults + 1}
    BY <1>2, OutcomeCounts DEF EditReading, UpdateReading
  <2> HIDE DEF row
  <2> QED  BY <2>1, <2>2, GapHand
<1>3. ASSUME NEW out, NEW id \in DOMAIN readings, RemoveReading(id, out)  PROVE GapInv'
  <2>1. /\ UNCHANGED <<bulk, req>> /\ edited' = edited \cup {readings[id].meter}
        /\ UNCHANGED readings \/ readings' = Without(readings, {id})
        /\ faults' \in {faults, faults + 1}
    BY <1>3, OutcomeCounts DEF RemoveReading, DeleteReading
  <2> QED  BY <2>1, GapHand
<1>4. ASSUME NEW out, ElsewhereNext(out)  PROVE GapInv'
  <2>1. Recedes  BY <1>1, <1>4, ElsewhereDoes, RecedeSame, RecedeAnswer
  <2> QED  BY <1>4, <2>1, ElsewhereDoes, GapSame
<1>5. ASSUME NEW out, Clear(out)  PROVE GapInv'
  BY <1>1, <1>5, RecedeSame, GapCleared DEF Clear
<1>6. ASSUME NEW out, NEW r \in Req, Seed(r, out)  PROVE GapInv'
  <2>1. Recedes  BY <1>1, <1>6, SeedDoes, RecedeSame, RecedeArrival
  <2> QED  BY <1>6, <2>1, SeedDoes, GapCleared
<1>7. ASSUME NEW r \in Req, SlotArrival(r)  PROVE GapInv'
  <2>1. UNCHANGED <<readings, bulk, edited>> /\ faults' \in {faults, faults + 1}
    BY <1>7, ArrivalDoes DEF tables, fills, Ticks
  <2>2. Recedes  BY <1>1, <1>7, ArrivalDoes, RecedeArrival
  <2> QED  BY <2>1, <2>2, GapSame
<1>8. ASSUME NEW r \in Req, SlotQuery(r)  PROVE GapInv'
  <2>1. UNCHANGED <<readings, bulk, edited>> /\ faults' \in {faults, faults + 1}
    BY <1>8, QueryDoes DEF tables, fills, Ticks
  <2>2. PICK s : Query(r, s) /\ req' = [req EXCEPT ![r] = s]  BY <1>8, QueryDoes
  <2>3. CASE Surveyed(r, s)  BY <2>1, <2>2, <2>3, GapSurvey
  <2>4. CASE ~Surveyed(r, s)  BY <1>1, <2>1, <2>2, <2>4, RecedeQuery, GapSame
  <2> QED  BY <2>3, <2>4
<1>9. CASE Crash
  <2>1. /\ UNCHANGED <<readings, bulk, edited>> /\ faults' = faults + 1
        /\ \A r \in Req : req'[r] = Idle
    BY <1>9 DEF Crash, Fault, tables, fills
  <2>2. Recedes  BY <2>1, IdleAim DEF Recedes, Aimed, Filling
  <2> QED  BY <2>1, <2>2, GapSame
<1>10. CASE Start \/ UNCHANGED vars
  <2>1. UNCHANGED <<readings, bulk, edited, req, faults>>
    BY <1>10 DEF Start, vars, storeVars, tables, fills
  <2> QED  BY <1>1, <2>1, RecedeSame, GapSame
<1> QED  BY <1>2, <1>3, <1>4, <1>5, <1>6, <1>7, <1>8, <1>9, <1>10, StepKinds, GapInsert
        DEF ElsewhereNext

LEMMA GapInit == ASSUME FlowAssumption, Init  PROVE GapInv
<1>1. bulk = {} /\ faults = 0 /\ \A r \in Req : req[r] = Idle  BY DEF Init, StoreInit
<1>2. Aimed(req)  BY <1>1, IdleAim DEF Aimed
<1>3. ASSUME NEW m, NEW d
      PROVE  Filling(req, m, d) = {} /\ Filled(bulk, readings, m, d) = {}
  BY <1>1, IdleAim DEF Filling, Filled
<1>4. Cardinality({}) = 0 /\ Cardinality(Req) \in Nat  BY FS_EmptySet, FillingFinite
<1>5. ASSUME NEW m, NEW d
      PROVE  Together(bulk, readings, req, m, d) <= Cardinality(Req) + faults
  BY <1>1, <1>3, <1>4 DEF Together
<1> QED  BY <1>2, <1>5 DEF GapInv

LEMMA GapBound ==
  ASSUME FlowAssumption, TypeInv, GapInv
  PROVE  GapsFilledOncePerRequest
<1> SUFFICES ASSUME NEW m \in Meters \ edited, NEW d \in Dates
             PROVE  Cardinality({i \in bulk \cap Of(m) : readings[i].date = d})
                      <= Cardinality(Req) + faults
  BY DEF GapsFilledOncePerRequest
<1>1. {i \in bulk \cap Of(m) : readings[i].date = d} = Filled(bulk, readings, m, d)
  BY DEF Of, Filled
<1> DEFINE x == Cardinality(Filled(bulk, readings, m, d))
           v == Cardinality(Filling(req, m, d))
           k == Cardinality(Req) + faults
<1>2. d \in Nat  BY DEF FlowAssumption
<1>3. x + v <= k  BY <1>2 DEF GapInv, Together
<1>4. x \in Nat /\ v \in Nat /\ k \in Nat  BY GapFinite
<1> HIDE DEF x, v, k
<1>5. x <= k  BY <1>3, <1>4
<1> QED  BY <1>1, <1>5 DEF x, k

\* Bulk fills check freshness in one query and insert much later: the same gap
\* is filled at most once by each slot and once more by each error, however
\* many requests there are (handlers.go, HandleAutoFillAll and HandleMedianFill).
THEOREM PgGapsFilled == Spec => []GapsFilledOncePerRequest
<1>1. Init => GapInv  BY FlowAssumption, GapInit
<1>2. TypeInv /\ GapInv /\ [Next]_vars => GapInv'  BY StoreAssumption, FlowAssumption, GapStep
<1>3. TypeInv /\ GapInv => GapsFilledOncePerRequest  BY FlowAssumption, GapBound
<1> QED  BY <1>1, <1>2, <1>3, TypeInvariant, PTL DEF Spec
=============================================================================
