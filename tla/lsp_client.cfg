\* Two calls and a shutdown, one message of the server's own.
SPECIFICATION Spec
CONSTANTS
  MaxCalls = 2
  MaxEmitted = 1
  PipeSize = 2
  OutSize = 1
  Nobody = Nobody
INVARIANTS
  OwnAnswer
  FramesIntact
  ExitIsLast
PROPERTIES
  DropCompletes
  DeathUnblocks
CHECK_DEADLOCK FALSE
