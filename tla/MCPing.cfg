\* Two peer ids, so that state migrates between them, and two streams; fair ticks.
CONSTANTS
  p1 = p1
  p2 = p2
  x = x
  y = y
  None = None
  PeerIds <- TwoPeers
  StreamIds <- TwoStreams
  Payloads <- TwoPayloads
  PayloadLen = 2
  RequestTimeout = 1
  MaxQueue = 0
SPECIFICATION FairSpec
INVARIANTS TypeOK StreamsAreOpen BuffersAreKnown
PROPERTIES OneOutcome RequestsEnd
