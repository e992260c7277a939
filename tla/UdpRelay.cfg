SPECIFICATION RelaySpec
CONSTANTS
    Conns = {c1, c2}
    Packets = {k1, k2}
    IPs = {lo, i1}
    Loopback = {lo}
    Ports = {p1, p2}
    NoConn = NoConn
    NoAddr = NoAddr
    Unspecified = Unspecified
SYMMETRY Symmetry
INVARIANTS IndexConsistent LostOnlyToSameAddress LeakOnlyAdopted ReplyAddressExplained
PROPERTIES OwnSourceServed
\* After Close no datagram arrives any more: the server really stops.
CHECK_DEADLOCK FALSE
