\* Three deliveries of three requests, of two devices, to three workers; one restart.
SPECIFICATION SignedSpec
CONSTANTS
  Writers = {w1, w2, w3}
  MaxRows = 3
  MaxCrashes = 1
  Devices = {d1, d2}
  Requests = {r1, r2, r3}
  MaxDeliveries = 3
SYMMETRY Symmetry
INVARIANTS
  SignedTypeOK
  NoForkByOneWriter
  OncePerNonce
  LateTokensAreFew
PROPERTIES
  RevocationDrains
CHECK_DEADLOCK FALSE
