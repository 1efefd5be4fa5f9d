------------------------------ MODULE MCPgWater ------------------------------
(***************************************************************************)
(* Values of PgWaterFlow's constants for TLC: two meters of two sites, one *)
(* with readings.                                                          *)
(***************************************************************************)
EXTENDS PgWaterFlow, TLC

CONSTANTS s1, s2

Site == [m \in {1, 2} |-> IF m = 1 THEN s1 ELSE s2]

Measured(m, value, usage, date) ==
  [meter |-> m, value |-> value, usage |-> usage, date |-> date, est |-> FALSE]

TwoReadings == <<Measured(1, 1, 0, 0), Measured(1, 2, 1, 1)>>

SlotSymmetry == Permutations(Req)
=============================================================================
