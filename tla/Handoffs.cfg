\* Two handlers take four calls about a guidance request with two sessions, a browser and
\* a voice session.
SPECIFICATION FairSpec
CONSTANTS
  q1 = q1
  t1 = t1
  t2 = t2
  b1 = b1
  v1 = v1
  Handlers = {h1, h2}
  Requests = {q1}
  TuaSessions = {t1, t2}
  BrowserSessions = {b1}
  VoiceSessions = {v1}
  RequestOf <- OneRequest
  Granted = {"tua"}
  CapabilityLists = {{"browser_assistance"}}
  MaxCalls = 4
  MaxCrashes = 1
INVARIANTS
  TypeOK
  Consistent
  ToldItsOwn
PROPERTIES
  SummaryStays
  ReturnReachesRuntime
CHECK_DEADLOCK FALSE
