SPECIFICATION RoutesSpec
CONSTANTS
    PeersV4 = {a1, a2}
    PeersV6 = {b1}
    NoPeer = NoPeer
SYMMETRY Symmetry
INVARIANTS NoRoutingLoop CleanupRestores ApplyEstablishes NeverCapturesTunnel LeftoverRoutesForgotten
