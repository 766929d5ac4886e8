SPECIFICATION Spec
CONSTANTS
    None = None
    Peers = {p, q}
    Streams = {0, 1}
    Families = {"Ipv4"}
    MaxConns = 1
    MaxInput = 1
    MaxCalls = 0
    MaxBytes = 1
    MaxFaults = 0
    Impostors = TRUE
SYMMETRY PeerSymmetry
INVARIANT
    StreamsFollowConnected
