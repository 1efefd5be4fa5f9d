-------------------------------- MODULE MCAuth --------------------------------
(***************************************************************************)
(* Values of AuthFlow's constants for TLC: one alice, one administrator,   *)
(* and per configuration the kinds of request clients send.                *)
(***************************************************************************)
EXTENDS AuthFlow, TLC

CONSTANTS a1, a2, pw1, pw2

Account(e, role, p) ==
  [email |-> e, role |-> role, active |-> TRUE, hash |-> p, failed |-> 0, lockedUntil |-> 0]

JustAlice == <<Account(a1, "user", pw1)>>
RootAndAlice == <<Account(a2, "admin", pw2), Account(a1, "user", pw1)>>
Root == Account(a2, "admin", pw2)

\* The slots are interchangeable.
SlotSymmetry == Permutations(Req)

Plain(op) == [op |-> op, pw |-> None, new |-> None, patch |-> None]
Change(p, q) == [op |-> "change", pw |-> p, new |-> q, patch |-> None]
Reset(q) == [op |-> "reset", pw |-> None, new |-> q, patch |-> None]
Create(e, q) == [op |-> "create", pw |-> None, new |-> q,
                 patch |-> [email |-> e, role |-> Keep, active |-> Keep]]
Update(e, role, active) ==
  [op |-> "update", pw |-> None, new |-> None,
   patch |-> [email |-> e, role |-> role, active |-> active]]

OwnAccount == {Plain("logout"), Change(pw1, pw2), Change(pw2, pw1)}
Logouts == {Plain("logout")}
Administration == {Plain("me"), Plain("delete"), Reset(pw1), Create(a1, pw1),
                   Update(Keep, Keep, FALSE), Update(a1, BadRole, Keep)}
Restarting == {Plain("logout"), Plain("delete"), Change(pw1, pw2), Reset(pw2)}
Emailing == {Create(a1, pw1), Update(a1, Keep, Keep)}
=============================================================================
