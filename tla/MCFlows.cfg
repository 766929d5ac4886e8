\* Frames of three units and more data behind them than a message may have.
CONSTANTS
  p = p
  q = q
  a = a
  b = b
  bad = bad
  None = None
  Peers <- TwoPeers
  Addrs <- ThreeAddrs
  Unparsable <- BadAddrs
  FrameLen = 3
  MaxSize = 7
  MaxData = 5
SPECIFICATION Spec
INVARIANTS TypeOK TellsTheMeaning WritesTheRequests BridgeKeepsEveryByte FailsOnlyWhenWrong
PROPERTY FlowEnds
CHECK_DEADLOCK FALSE
