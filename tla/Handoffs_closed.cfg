\* One handler: the operator closes a guidance session.
SPECIFICATION Spec
CONSTANTS
  q1 = q1
  t1 = t1
  t2 = t2
  b1 = b1
  v1 = v1
  Handlers = {h1}
  Requests = {q1}
  TuaSessions = {t1}
  BrowserSessions = {}
  VoiceSessions = {}
  RequestOf <- OneRequest
  Granted = {"tua"}
  CapabilityLists = {}
  MaxCalls = 3
  MaxCrashes = 0
INVARIANTS
  OverIsDone
CHECK_DEADLOCK FALSE
