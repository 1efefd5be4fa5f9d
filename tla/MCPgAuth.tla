------------------------------- MODULE MCPgAuth -------------------------------
(***************************************************************************)
(* Values of PgAuthFlow's constants for TLC: one account, and room for a   *)
(* second one.                                                             *)
(***************************************************************************)
EXTENDS PgAuthFlow, TLC

CONSTANTS a1, a2, pw1, pw2

Account(e, role, p) ==
  [email |-> e, role |-> role, active |-> TRUE, hash |-> p, failed |-> 0, lockedUntil |-> 0]

JustAlice == <<Account(a1, "user", pw1)>>
Root == Account(a2, "admin", pw2)

\* The slots are interchangeable.
SlotSymmetry == Permutations(Req)

Plain(op) == [op |-> op, pw |-> None, new |-> None, patch |-> None]
Everything ==
  {Plain("logout"), Plain("delete"), Plain("me"),
   [op |-> "change", pw |-> pw1, new |-> pw2, patch |-> None],
   [op |-> "reset", pw |-> None, new |-> pw2, patch |-> None],
   [op |-> "create", pw |-> None, new |-> pw1,
    patch |-> [email |-> a2, role |-> Keep, active |-> Keep]],
   [op |-> "update", pw |-> None, new |-> None,
    patch |-> [email |-> a2, role |-> Keep, active |-> Keep]],
   [op |-> "update", pw |-> None, new |-> None,
    patch |-> [email |-> Keep, role |-> BadRole, active |-> Keep]]}
=============================================================================
