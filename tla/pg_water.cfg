CONSTANTS
  s1 = s1  s2 = s2
  Keep = Keep
  Meters = {1, 2}  Active = {1, 2}  Stranger = 3
  SiteOf <- Site  Sites = {s1, s2}
  Amounts = {1}  Actors = {"u1"}
  Archive <- TwoReadings
  Week = 1  MeanWindow = 3  Lookback = 3  Freshness = 1
  Values = {4}  Dates = {1, 2}
  Req = {r1, r2}
  MaxRequests = 3  MaxFaults = 1
SPECIFICATION Spec
INVARIANTS TypeOK AnsweredSurvives RemovalSticks GapsFilledOncePerRequest UsageCoversRegister
PROPERTY RegisterSpec
SYMMETRY SlotSymmetry
CHECK_DEADLOCK FALSE
