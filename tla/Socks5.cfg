SPECIFICATION Spec
CONSTANTS
    UserNames <- SampleNames
    Passwords <- SamplePasswords
    HostLengths = {1, 255}
    Ports = {80, 65616}
    Commands = {1, 2, 3}
    PublicHosts = {"v4", "name"}
    MaxChunks = 3
    Capacity = 2
    PacketHosts = {1, 2, 3, 255}
    PayloadLengths = {0, 1, 2, 5}
    PacketPorts = {0, 53, 256, 65535}
    NoAuth = NoAuth
    NoAddr = NoAddr
INVARIANTS TypeOK DialerAgrees CredentialsDecide DatagramsKept LossExplained
PROPERTIES OneWayArrives SessionsEnd
\* A session that has ended, and a datagram that was handled, stop.
CHECK_DEADLOCK FALSE
