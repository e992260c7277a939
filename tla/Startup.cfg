SPECIFICATION Spec
CONSTANTS
    Words = {"alice"}
    NoAuth = NoAuth
    NoFile = NoFile
    Torn = Torn
    Ports = {500, 2408}
    WGPort = 2408
    NoPort = NoPort
    MaxTargets = 2
    RetryWindow = 6
    RetryInterval = 2
    Timeout = 2
INVARIANTS TypeOK CredentialsAgree ServesThisConfig EndpointFits ProbeInTime LateTunnelFound
\* A tunnel that was planned or refused, and a probe that has returned, stop.
CHECK_DEADLOCK FALSE
