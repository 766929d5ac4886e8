\* Data on a connection that a newer one has replaced.
CONSTANTS
  p1 = p1
  x = x
  None = None
  Malformed = Malformed
  Peers <- OnePeer
  Conns <- TwoConns
  StreamIds <- OneStream
  Payloads <- OnePayload
  PayloadLen = 1
  AuthAtHandshake = TRUE
  Batching = TRUE
  MaxStreams = 4
  MaxToken = 4
  MaxBatch = 6
SPECIFICATION Spec
INVARIANT SyntheticStaysInternal
