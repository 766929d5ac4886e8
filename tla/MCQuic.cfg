SPECIFICATION Spec
CONSTANTS
    None = None
    Peers = {p, q}
    Streams = {0, 1}
    Families = {"Ipv4"}
    MaxConns = 1
    MaxInput = 2
    MaxCalls = 3
    MaxBytes = 1
    MaxFaults = 1
    Impostors = TRUE
SYMMETRY PeerSymmetry
INVARIANTS
    IndexesAgree
    FinIsNotLost
    ToldIsTrue
