\* A peer identified by the handshake and two connections that may replace each
\* other, under the std driver: all events of a transport poll are fed before
\* anything is drained.
CONSTANTS
  p1 = p1
  x = x
  None = None
  Malformed = Malformed
  Peers <- OnePeer
  Conns <- TwoConns
  StreamIds <- OneStream
  Payloads <- OnePayload
  PayloadLen = 1
  AuthAtHandshake = TRUE
  Batching = TRUE
  MaxStreams = 4
  MaxToken = 4
  MaxBatch = 3
SPECIFICATION Spec
INVARIANTS
  TypeOK
  NoOrphanedConnection
  OneOwnerPerStream
  ActionsNameOpenedStreams
  ProtocolStreamsAreOwned
  PeersKeepTheirConnection
  AppKnowsStreams
  EventsInSession
  NothingLeftBehind
  OnePingStream
PROPERTY QueuedPingIsRequeued
