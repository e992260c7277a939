----------------------------- MODULE MCUdpRelay -----------------------------
(* Model-checking instance of UdpRelay, with the symmetry of                 *)
(* MCUdpAssociations.                                                        *)
EXTENDS UdpRelay, TLC

Symmetry ==
    Permutations(Conns) \cup Permutations(Packets) \cup Permutations(IPs \ Loopback)
        \cup Permutations(Ports)
=============================================================================
