------------------------------- MODULE WaterData -------------------------------
(***************************************************************************)
(* What both water databases share: rows, the estimate of a fill, and the  *)
(* check of an invoice.                                                    *)
(*                                                                         *)
(* The rows of a table are a function from their ids, and ids (the code's  *)
(* uuids) are numbers given in increasing order.  Quantities are integers, *)
(* and dates are days.  Sites and water types of readings, and texts, are  *)
(* left out: no decision depends on them.  An invoice's amount stands for  *)
(* its number, month and notes too.                                        *)
(***************************************************************************)
EXTENDS Integers, Sequences, FiniteSets, FiniteSetsExt

CONSTANTS
  Meters,         \* SeedMeters, numbered in the order of their names
  Active,         \* those with IsActive
  Stranger,       \* an id no meter has: the sample readings use some
  SiteOf,         \* the site of each meter
  Sites,
  Amounts,        \* what invoices and tonnes are about
  Actors,         \* ids of accounts
  Keep,           \* a field a body leaves out
  Week,           \* 7: a usage is taken for a week's
  MeanWindow,     \* 30 days: AutoFillMissingData looks back this far
  Lookback       \* 90 days, or what the body of a median fill says

MeterIds == Meters \cup {Stranger}

Reading == [meter: MeterIds, value: Int, usage: Int, date: Nat, est: BOOLEAN]
Entry == [site: Sites, tonnes: Amounts]
Invoice == [meter: Meters, site: Sites, amount: Amounts, createdBy: Actors]

Empty == [i \in {} |-> 0]

-----------------------------------------------------------------------------
(* Rows.                                                                   *)

\* A table with one more row (or a row replaced), and without some rows.
Put(table, id, row) == [i \in DOMAIN table \cup {id} |-> IF i = id THEN row ELSE table[i]]
Without(table, ids) == [i \in DOMAIN table \ ids |-> table[i]]

\* A list appended to an empty table, the ids given starting after base.
Listed(list, base) == [i \in (base + 1)..(base + Len(list)) |-> list[i - base]]

\* The usages of some readings, added up.
Usages(table, ids) == MapThenSumSet(LAMBDA i : table[i].usage, ids)

\* The usage of reading j is at least its distance to reading p of the meter.
Covers(table, p, j) ==
  /\ p < j /\ table[p].meter = table[j].meter
  /\ table[j].value - table[p].value <= table[j].usage

First(ids) == {i \in ids : \A j \in ids : i <= j}
Latest(ids) == {i \in ids : \A j \in ids : j <= i}

-----------------------------------------------------------------------------
(* Fills.                                                                  *)

Estimate(m, value, usage, date) ==
  [meter |-> m, value |-> value, usage |-> usage, date |-> date, est |-> TRUE]

\* The value of v in the middle, or the mean of the two.
Median(v) ==
  LET before(i) == {j \in DOMAIN v : v[j] < v[i] \/ (v[j] = v[i] /\ j <= i)}
      n == Cardinality(DOMAIN v)
      Ranked(k) == v[CHOOSE i \in DOMAIN v : Cardinality(before(i)) = k]
  IN (Ranked((n + 1) \div 2) + Ranked(n \div 2 + 1)) \div 2

-----------------------------------------------------------------------------
(* updateInvoice.                                                          *)

\* The body of an update: Keep where it has no such field.
InvoicePatch == [meter: MeterIds \cup {Keep}, site: Sites \cup {Keep},
                 amount: Amounts \cup {Keep}]

\* The fields of the body over those of the row.
Merged(row, patch) ==
  [row EXCEPT !.meter  = IF patch.meter = Keep THEN @ ELSE patch.meter,
              !.site   = IF patch.site = Keep THEN @ ELSE patch.site,
              !.amount = IF patch.amount = Keep THEN @ ELSE patch.amount]

\* Mutant of Accepted: checked only when the body has both.
AcceptedUnlessBoth(row, patch) ==
  patch.meter # Keep /\ patch.site # Keep =>
    LET inv == Merged(row, patch) IN inv.meter \in Meters /\ SiteOf[inv.meter] = inv.site

\* Meter and site are checked when the body has one of them.
Accepted(row, patch) ==
  patch.meter # Keep \/ patch.site # Keep =>
    LET inv == Merged(row, patch) IN inv.meter \in Meters /\ SiteOf[inv.meter] = inv.site
=============================================================================
