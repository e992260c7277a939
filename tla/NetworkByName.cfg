SPECIFICATION Spec
CONSTANTS
    PeersV4 = {a1, a2}
    PeersV6 = {b1}
    NoPeer = NoPeer
INVARIANT EndpointBypassed
