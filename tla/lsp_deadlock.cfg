\* An attentive server, both pipes full.
SPECIFICATION AttentiveSpec
CONSTANTS
  MaxCalls = 2
  MaxEmitted = 3
  PipeSize = 2
  OutSize = 1
  Nobody = Nobody
PROPERTY ServerNotBlocked
CHECK_DEADLOCK FALSE
