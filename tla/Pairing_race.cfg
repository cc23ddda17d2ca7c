\* Two threads complete one pairing; the server may restart.
SPECIFICATION Spec
CONSTANTS
  Workers = {w1, w2}
  Pairings = {p1}
  Devices = {d1, d2, d3}
  Deadlines = {1}
  MaxTime = 1
  MaxCrashes = 1
SYMMETRY Symmetry
INVARIANTS
  TypeOK
  CompletedHasDevice
  AnsweredIsAudited
  OneDevicePerThread
PROPERTIES
  LateAnswerGetsNoDevice
  ImplementsClearance
