\* A prompt bridge, no direct path and a relay that keeps the circuit.
CONSTANTS
  None = None
  Unparsable = {}
  FrameLen = 1
  MaxSize = 8
  ListenDeadline = 8
  PunchWindow = 2
  GraceWindow = 1
  FallbackWindow = 4
  AttemptWindow = 1
  AutonatWindow = 1
  RelayReadyAttempts = 1
  PayloadLen = 1
  MayReach = {}
  RelayMayClose = FALSE
  Prompt = TRUE
SPECIFICATION Spec
INVARIANT PayloadIsEchoed
CHECK_DEADLOCK FALSE
