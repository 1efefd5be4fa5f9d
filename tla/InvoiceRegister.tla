---------------------------- MODULE InvoiceRegister ----------------------------
(***************************************************************************)
(* What the invoices of the water database promise, whatever else it does: *)
(* an invoice is for a meter of its site, keeps who created it, and after  *)
(* a restart the book is as it was when it was last written.               *)
(***************************************************************************)
EXTENDS Naturals

CONSTANTS Meters, SiteOf, Amounts, Actors

VARIABLES
  open,       \* is the program running?
  book,       \* the invoices: a function from their ids
  copies      \* the books a restart may find: one, or none it could read

vars == <<open, book, copies>>

Proper == {inv \in [meter: Meters, site: {SiteOf[m] : m \in Meters},
                    amount: Amounts, createdBy: Actors] : inv.site = SiteOf[inv.meter]}

Void == [i \in {} |-> 0]

\* A write succeeds, fails and leaves the copy, or destroys it.
Written == copies' = {book'}
Kept == copies' = copies
Ruined == copies' = {}

Enter ==
  \E id \in DOMAIN book' \ DOMAIN book :
    /\ book'[id] \in Proper
    /\ book' = [i \in DOMAIN book \cup {id} |-> IF i = id THEN book'[id] ELSE book[i]]

Amend ==
  /\ DOMAIN book' = DOMAIN book
  /\ \E id \in DOMAIN book :
       /\ book'[id] \in Proper /\ book'[id].createdBy = book[id].createdBy
       /\ book' = [book EXCEPT ![id] = book'[id]]

Strike ==
  \E id \in DOMAIN book : book' = [i \in DOMAIN book \ {id} |-> book[i]]

Work ==
  /\ open /\ UNCHANGED open
  /\ Enter \/ Amend \/ Strike \/ UNCHANGED book
  /\ Written \/ Kept \/ Ruined

Stop ==
  /\ open /\ open' = FALSE /\ book' = Void
  /\ Kept \/ Ruined

Reopen ==
  /\ ~open /\ open' = TRUE
  /\ book' \in copies
  /\ Written \/ Kept \/ Ruined

Init == open = FALSE /\ book = Void /\ copies = {Void}

Next == Work \/ Stop \/ Reopen

Spec == Init /\ [][Next]_vars
=============================================================================
