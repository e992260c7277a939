--------------------------- MODULE MCNetworkRoutes ---------------------------
(* Model-checking instance of NetworkRoutes: the peers of a family are       *)
(* interchangeable.                                                          *)
EXTENDS NetworkRoutes, TLC

Symmetry == Permutations(PeersV4) \cup Permutations(PeersV6)
=============================================================================
