\* Responses and decisions about one approval; the server may restart, and is polled.
SPECIFICATION FairSpec
CONSTANTS
  alice = alice
  bob = bob
  w1 = w1
  w2 = w2
  w3 = w3
  a1 = a1
  a2 = a2
  Workers = {w1, w2}
  Approvals = {a1}
  Devices = {alice}
  Approvers = {alice}
  Decisions <- Yes
  ResponseTypes = {"deny", "propose_policy"}
  Deadlines = {1}
  MaxTime = 1
  MaxCalls = 3
  MaxCrashes = 1
INVARIANTS
  PublishedIsAudited
  AuditedResponseWasDecided
PROPERTIES
  OverdueIsSettled
