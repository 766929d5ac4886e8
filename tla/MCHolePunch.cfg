\* Any delay on the bridge, either direct dial may get through, the relay may drop the circuit.
CONSTANTS
  None = None
  Unparsable = {}
  FrameLen = 2
  MaxSize = 6
  ListenDeadline = 3
  PunchWindow = 1
  GraceWindow = 1
  FallbackWindow = 2
  AttemptWindow = 1
  AutonatWindow = 1
  RelayReadyAttempts = 2
  PayloadLen = 2
  MayReach = {"Dialer", "Listener"}
  RelayMayClose = TRUE
  Prompt = FALSE
SPECIFICATION Spec
INVARIANTS TypeOK CandidatesExchanged NoProtocolError ResultsAgree
PROPERTY BothEnd
CHECK_DEADLOCK FALSE
