----------------------------- MODULE TunnelPlan -----------------------------
(***************************************************************************)
(* From the API's answer to the tunnel: stateFromWarpDevice and the        *)
(* endpoint selection of cmd/warp-socksd/legacy_backend.go, then what      *)
(* legacyNetworkManager.Apply makes of the state for wgdev.Manager and     *)
(* router.Manager.  Network takes these values as given and models the     *)
(* commands that install them.                                             *)
(*                                                                         *)
(* An endpoint string is a host, a port or none, and whether the host is   *)
(* in square brackets.  The state is saved, and a later run may use it     *)
(* with another stack mode without asking the API.                         *)
(***************************************************************************)
EXTENDS Naturals

CONSTANTS
    Ports,      \* ports of the peer; the API gives port 0 beside an address
    WGPort,     \* 2408
    NoPort      \* no port in the string

VARIABLES
    device,     \* the API's answer
    stack,      \* cfg.ProxyStack
    pc,
    state,      \* the saved state
    desired,    \* wgdev.DesiredConfig
    plan        \* router.Plan

vars == <<device, stack, pc, state, desired, plan>>

Families == {"v4", "v6"}        \* also the peer's address in each
Empty == [host |-> "", port |-> NoPort, brackets |-> FALSE]
Text(h, p, b) == [host |-> h, port |-> p, brackets |-> b]

EndpointTexts == [host : Families \cup {"name", ""}, port : Ports \cup {0, NoPort}, brackets : BOOLEAN]

(* What the API may answer: the address of each family alone, in brackets, or
   with port 0 or the true one; a host name with a port or without. *)
Devices ==
    [v4 : {Empty} \cup {Text("v4", p, FALSE) : p \in {NoPort, 0, WGPort}},
     v6 : {Empty, Text("v6", NoPort, FALSE), Text("v6", NoPort, TRUE)}
          \cup {Text("v6", p, TRUE) : p \in {0, WGPort}},
     host : {Text("name", p, FALSE) : p \in Ports \cup {NoPort}} \cup {Empty},
     addresses : SUBSET Families,       \* the interface addresses given
     tunnelType : {"", "wireguard", "masque"},
     policy : {"", "wireguard", "masque"},
     curve : BOOLEAN]                   \* key_type curve25519, or 2408 in ports

NoState == [endpoint |-> Empty, v4 |-> Empty, v6 |-> Empty, addresses |-> {}]
NoConfig == [endpoint |-> Empty, addresses |-> {}, allowed |-> {}]
NoPlan == [tunnel |-> {}, bypass |-> {}]

(* Every variable has its type. *)
TypeOK ==
    /\ device \in Devices
    /\ stack \in {"4", "6", "dual"}
    /\ pc \in {"answer", "apply", "applied", "refused", "rejected"}
    /\ {state.endpoint, state.v4, state.v6, desired.endpoint} \subseteq EndpointTexts
    /\ state.addresses \subseteq Families
    /\ desired.addresses \subseteq Families /\ desired.allowed \subseteq Families
    /\ plan \in [tunnel : SUBSET Families, bypass : SUBSET Families]

Init ==
    /\ device \in Devices
    /\ stack \in {"4", "6", "dual"}
    /\ pc = "answer" /\ state = NoState /\ desired = NoConfig /\ plan = NoPlan
-----------------------------------------------------------------------------
(* Endpoint strings *)

(* net.SplitHostPort wants a port, and brackets round a host with colons. *)
Splits(e) == e.port # NoPort /\ (e.host = "v6" => e.brackets)
JoinHostPort(h, p) == Text(h, p, h = "v6")

(* The address of one endpoint with the port of the other, if that has one;
   endpointHost takes off the brackets and the port. *)
joinEndpointHostAndPort(ip, endpoint) ==
    IF ip = Empty THEN Empty
    ELSE IF Splits(endpoint) THEN JoinHostPort(ip.host, endpoint.port)
    ELSE Text(ip.host, NoPort, FALSE)

ensureEndpointPort(raw, fallback) ==
    IF Splits(raw) THEN raw ELSE joinEndpointHostAndPort(raw, fallback)

(* The address in an endpoint string: brackets need a port. *)
parseEndpointAddr(e) ==
    IF e.host \in Families /\ (e.brackets => e.port # NoPort) THEN {e.host} ELSE {}

(* The endpoints a stack mode tries, in order. *)
Candidates(s, st) ==
    CASE s = "4" -> <<st.v4>> [] s = "6" -> <<st.v6>> [] OTHER -> <<st.v4, st.v6>>

selectPeerEndpoint(st, s) ==
    LET c == Candidates(s, st)
        tried == [i \in DOMAIN c |-> ensureEndpointPort(c[i], st.endpoint)]
        usable == {i \in DOMAIN c : tried[i] # Empty}
    IN IF usable = {} THEN st.endpoint ELSE tried[CHOOSE i \in usable : \A j \in usable : i <= j]

(* Mutation: the IPv6 endpoint is looked at first. *)
selectPeerEndpointAddressV6First(st, s) ==
    LET v6 == parseEndpointAddr(st.v6) IN
    IF s # "4" /\ v6 # {} THEN v6 ELSE IF s = "6" THEN {} ELSE parseEndpointAddr(st.v4)

selectPeerEndpointAddress(st, s) ==
    LET c == Candidates(s, st)
        valid == {i \in DOMAIN c : parseEndpointAddr(c[i]) # {}}
    IN IF valid = {} THEN {} ELSE parseEndpointAddr(c[CHOOSE i \in valid : \A j \in valid : i <= j])
-----------------------------------------------------------------------------
(* The tunnel protocol: an explicit type wins; a policy of another protocol
   yields to a device that looks like WireGuard. *)
deviceLooksLikeWireGuard(d) ==
    d.curve \/ \E e \in {d.host, d.v4, d.v6} : Splits(e) /\ e.port = WGPort

effectiveTunnelProtocol(d) ==
    IF d.tunnelType # "" THEN d.tunnelType
    ELSE IF d.policy = "wireguard" \/ deviceLooksLikeWireGuard(d) THEN "wireguard"
    ELSE d.policy

(* stateFromWarpDevice, and the check of the protocol by its callers. *)
Convert ==
    /\ pc = "answer"
    /\ IF effectiveTunnelProtocol(device) = "wireguard"
       THEN /\ state' = [endpoint |-> device.host,
                         v4 |-> joinEndpointHostAndPort(device.v4, device.host),
                         v6 |-> joinEndpointHostAndPort(device.v6, device.host),
                         addresses |-> device.addresses]
            /\ pc' = "apply"
       ELSE pc' = "rejected" /\ UNCHANGED state
    /\ UNCHANGED <<device, stack, desired, plan>>
-----------------------------------------------------------------------------
(* The stack mode's families, in wgdev and again in router. *)
AllowedIPs(s) == CASE s = "4" -> {"v4"} [] s = "6" -> {"v6"} [] OTHER -> Families

tunnelRoutes(s) == CASE s = "4" -> {"v4"} [] s = "6" -> {"v6"} [] OTHER -> Families

InterfaceAddresses(s, addresses) == addresses \cap AllowedIPs(s)

validateDesiredConfig(c) == c.endpoint # Empty /\ c.addresses # {}

BuildPlan(s, addr) == [tunnel |-> tunnelRoutes(s), bypass |-> addr]

(* legacyNetworkManager.Apply up to its first command. *)
Apply ==
    /\ pc = "apply"
    /\ desired' = [endpoint |-> selectPeerEndpoint(state, stack),
                   addresses |-> InterfaceAddresses(stack, state.addresses),
                   allowed |-> AllowedIPs(stack)]
    /\ IF validateDesiredConfig(desired')
       THEN plan' = BuildPlan(stack, selectPeerEndpointAddress(state, stack)) /\ pc' = "applied"
       ELSE plan' = NoPlan /\ pc' = "refused"
    /\ UNCHANGED <<device, stack, state>>

(* The container is started with another stack mode, and the API does not
   answer: the saved state is used, if isReusableLegacyState. *)
Restart ==
    /\ pc \in {"applied", "refused"}
    /\ state.endpoint # Empty
    /\ stack' \in {"4", "6", "dual"} \ {stack}
    /\ pc' = "apply" /\ desired' = NoConfig /\ plan' = NoPlan
    /\ UNCHANGED <<device, state>>

Next == Convert \/ Apply \/ Restart

Spec == Init /\ [][Next]_vars
-----------------------------------------------------------------------------
(* The address routed around the tunnel is the one WireGuard sends to, found by
   two functions that read the same state each in its own way: where the
   endpoint is an address it has a bypass route, and no other address has one. *)
BypassCoversEndpoint ==
    pc = "applied" => plan.bypass = parseEndpointAddr(desired.endpoint)

(* WireGuard is given the port the API names beside the host name, never the
   port 0 it gives beside an address: else no handshake is ever answered. *)
EndpointKeepsPort ==
    pc = "applied" => desired.endpoint.port = device.host.port

(* The peer accepts what is routed to it, and nothing more is routed than the
   stack mode takes; a single-stack tunnel has an address of its family. *)
RoutesMatchTunnel ==
    pc = "applied" =>
        /\ plan.tunnel = desired.allowed
        /\ desired.addresses \subseteq plan.tunnel
        /\ stack # "dual" => desired.addresses = plan.tunnel

(* What is installed for the tunnel fits together. *)
EndpointFits == BypassCoversEndpoint /\ EndpointKeepsPort /\ RoutesMatchTunnel
=============================================================================
