\* Two terminals under a limit of one; the gateway may die once.
SPECIFICATION FairSpec
CONSTANTS
  Sessions = {s1, s2}
  Handlers = {h1, h2}
  Pollers = {p1}
  MaxSessions = 1
  MaxCalls = 3
  MaxCrashes = 1
INVARIANTS
  TypeOK
  OpenWithinLimit
  NoLostProcess
  EndedHasNoRuntime
PROPERTIES
  ReopenedOnlyInFlight
  DeadAreClosed
