CONSTANTS
  s1 = s1  s2 = s2
  Keep = Keep
  Meters = {1, 2}  Active = {1, 2}  Stranger = 3
  SiteOf <- Site  Sites = {s1, s2}
  Amounts = {1}  Actors = {"u1"}
  Sample <- OneReading  SampleTonnes <- NoTonnes
  Week = 1  MeanWindow = 3  Lookback = 3  Freshness = 1
  Values = {1}  Dates = {1}
  Req = {r1, r2}
  Requests = {"reading", "editReading", "deleteReading", "tonnes", "editTonnes", "deleteTonnes",
              "preferences", "clear", "seed", "createInvoice", "editInvoice", "deleteInvoice"}
  MaxRows = 3  MaxFailures = 1  MaxCrashes = 2
SPECIFICATION Spec
INVARIANTS TypeOK InvoicesMatchSites AnsweredSurvives RemovalSticks
PROPERTY RegisterSpec
SYMMETRY SlotSymmetry
CHECK_DEADLOCK FALSE
