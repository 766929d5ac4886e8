\* Dialers that wait and that do not; lines of three units, so that each can be cut.
CONSTANTS
  a = a
  b = b
  Header = Header
  NotAvailable = NotAvailable
  Protocols <- TwoProtocols
  FrameLen = 3
  MaxData = 2
SPECIFICATION Spec
INVARIANTS TypeOK Agreement NoProtocolError NoByteLost
PROPERTY NegotiationEnds
CHECK_DEADLOCK FALSE
