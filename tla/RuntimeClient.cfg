\* One call with two attempts and a wait of one or two ticks, two deciders; the operator may
\* respond once.
SPECIFICATION FairClientSpec
CONSTANTS
  Clearances = {c1, c2, c3}
  Deciders = {d1, d2}
  Outcomes = {"approved", "cancelled"}
  Calls = {k1}
  RetryAttempts = 2
  ExpiresIn = 2
  Timeouts = {0, 1}
  ResponseTypes = {"modified"}
  MaxResponses = 1
  MaxWaits = 2
INVARIANTS
  ClientTypeOK
  FewDuplicates
  VerdictStands
PROPERTIES
  GivenUpIsOver
  CallsEnd
CHECK_DEADLOCK FALSE
