\* An app follows the stream, loses it and resumes; a reader pages through the log.
SPECIFICATION Spec
CONSTANTS
  Clients = {phone}
  Pagers = {reader}
  Backlog = 2
  PageLimits <- Limits
  MaxEvents = 6
  MaxLosses = 2
INVARIANTS
  TypeOK
  OneAscendingRun
  OnlyBeatsJump
  PagesMissNothing
CHECK_DEADLOCK FALSE
