\* Two threads race on two approvals; the server does not restart.
SPECIFICATION Spec
CONSTANTS
  alice = alice
  bob = bob
  w1 = w1
  w2 = w2
  w3 = w3
  a1 = a1
  a2 = a2
  Workers = {w1, w2}
  Approvals = {a1, a2}
  Devices = {alice, bob}
  Approvers = {alice}
  Decisions <- Yes
  ResponseTypes = {}
  Deadlines = {1}
  MaxTime = 1
  MaxCalls = 3
  MaxCrashes = 0
SYMMETRY Symmetry
INVARIANTS
  TypeOK
  RowIsOneDecision
  AuditedOrInFlight
PROPERTIES
  LateDecisionNeverCounts
  OverdueIsNeverAnsweredPending
  ImplementsClearance
