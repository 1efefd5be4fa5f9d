------------------------------- MODULE MCWater -------------------------------
(***************************************************************************)
(* Values of WaterFlow's constants for TLC: two meters of two sites.       *)
(***************************************************************************)
EXTENDS WaterFlow, TLC

CONSTANTS s1, s2

Site == [m \in {1, 2} |-> IF m = 1 THEN s1 ELSE s2]

Measured(m, value, usage, date) ==
  [meter |-> m, value |-> value, usage |-> usage, date |-> date, est |-> FALSE]

OneReading == <<Measured(1, 1, 0, 0)>>
TwoReadings == <<Measured(1, 1, 0, 0), Measured(1, 2, 1, 1)>>
NoTonnes == <<>>
OneEntry == <<[site |-> s1, tonnes |-> 1]>>

\* Without a stop the file and the answers decide nothing.
FillView == <<memory, lastId, failures, up, req, bulk, edited>>

SlotSymmetry == Permutations(Req)
=============================================================================
