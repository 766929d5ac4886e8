SPECIFICATION Spec
CONSTANTS
    None = None
    Peers = {p}
    Streams = {0}
    Families = {"Ipv4", "Ipv6"}
    MaxConns = 1
    MaxInput = 2
    MaxCalls = 1
    MaxBytes = 1
    MaxFaults = 1
    Impostors = FALSE
SYMMETRY PeerSymmetry
INVARIANT
    TypeOK
PROPERTY
    ImplementsContract
