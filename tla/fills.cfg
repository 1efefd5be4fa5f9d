CONSTANTS
  s1 = s1  s2 = s2
  Keep = Keep
  Meters = {1, 2}  Active = {1, 2}  Stranger = 3
  SiteOf <- Site  Sites = {s1, s2}
  Amounts = {1}  Actors = {"u1"}
  Sample <- TwoReadings  SampleTonnes <- NoTonnes
  Week = 1  MeanWindow = 3  Lookback = 3  Freshness = 1
  Values = {4}  Dates = {2}
  Req = {r1, r2}
  Requests = {"reading", "preferences", "autofill", "autofillAll", "median", "medianAll", "clear"}
  MaxRows = 5  MaxFailures = 1  MaxCrashes = 0
SPECIFICATION Spec
INVARIANTS GapsFilledOncePerRequest UsageCoversRegister
SYMMETRY SlotSymmetry
VIEW FillView
