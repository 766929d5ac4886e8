\* A transport that verifies the peer after Connected; one connection.
CONSTANTS
  p1 = p1
  x = x
  None = None
  Malformed = Malformed
  Peers <- OnePeer
  Conns <- OneConn
  StreamIds <- TwoStreams
  Payloads <- OnePayload
  PayloadLen = 1
  AuthAtHandshake = FALSE
  Batching = FALSE
  MaxStreams = 4
  MaxToken = 4
  MaxBatch = 3
SPECIFICATION Spec
INVARIANTS OneOwnerPerStream AppKnowsPeers ProtocolStreamsAreOwned
