SPECIFICATION Spec
CONSTANTS
    Conns = {c1, c2}
    Packets = {k1}
    IPs = {lo, i1}
    Loopback = {lo}
    Ports = {p1, p2}
    NoConn = NoConn
    NoAddr = NoAddr
    Unspecified = Unspecified
PROPERTIES SoleClientServed
CHECK_DEADLOCK FALSE
