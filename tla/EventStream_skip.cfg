\* A heartbeat takes the app past an event it never gets.
SPECIFICATION Spec
CONSTANTS
  Clients = {phone}
  Pagers = {}
  Backlog = 3
  PageLimits = {}
  MaxEvents = 4
  MaxLosses = 0
INVARIANTS
  StreamMissesNothing
CHECK_DEADLOCK FALSE
