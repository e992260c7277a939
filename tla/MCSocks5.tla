------------------------------ MODULE MCSocks5 ------------------------------
(***************************************************************************)
(* Model-checking instance of the three parts of the SOCKS5 server that    *)
(* share no state while they run: a session up to its reply, the relay of  *)
(* a CONNECT, and a datagram of an association.  A behaviour is one of     *)
(* one part, with the other two at rest, so that their states add up.      *)
(***************************************************************************)
EXTENDS Naturals, Sequences

CONSTANTS
    UserNames, Passwords,                                  \* of the session
    HostLengths, Ports, Commands, PublicHosts,
    MaxChunks, Capacity,                                   \* of the relay
    PacketHosts, PayloadLengths, PacketPorts,              \* of the datagram
    NoAuth, NoAddr

ASSUME SessionAssumption ==
    /\ UserNames \cup Passwords \subseteq Seq(0..255)
    /\ HostLengths \subseteq Nat \ {0} /\ Ports \subseteq Nat
    /\ Commands \subseteq 0..255 /\ PublicHosts \subseteq {"v4", "v6", "name"}
ASSUME RelayAssumption == MaxChunks \in Nat /\ Capacity \in Nat \ {0}
ASSUME PacketAssumption ==
    /\ PacketHosts \cup PayloadLengths \cup PacketPorts \subseteq Nat
    /\ \A k \in PacketHosts : 1 <= k /\ k <= 255
    /\ \A p \in PacketPorts : p <= 65535

VARIABLES
    part,   \* the part that runs
    auth, clientAuth, allowUDP, publicHost, command, target, toServer, toClient,
    cpc, spc, asked, bound,
    sent, read, passed, got, fin, broken, copy, first, session, lost,
    destination, payload, packet, pc, parsed, forwarded, resolved, answer, reply

Session == INSTANCE Socks5Session
Tunnel == INSTANCE Relay
Packet == INSTANCE UdpPacket WITH HostLengths <- PacketHosts, Ports <- PacketPorts

(* Names and passwords that just fit their length byte, and longer ones: one
   letter again and again, or a password whose rest, when the server has read
   as much as the length byte says, reads as a request to 10.0.0.1:80. *)
Letters(char, k) == [i \in 1..k |-> char]
SampleNames == {Letters(117, 255), Letters(117, 511)}
SamplePasswords ==
    {Letters(112, 255), Letters(112, 511),
     Letters(112, 255) \o <<5, 1, 0, 1, 10, 0, 0, 1, 0, 80>> \o Letters(112, 246)}

(* What stands for no address is none. *)
ASSUME NoAddrAssumption == NoAddr \notin Packet!Targets

sessionVars ==
    <<auth, clientAuth, allowUDP, publicHost, command, target, toServer, toClient,
      cpc, spc, asked, bound>>
relayVars == <<sent, read, passed, got, fin, broken, copy, first, session, lost>>
packetVars == <<destination, payload, packet, pc, parsed, forwarded, resolved, answer, reply>>
vars == <<part, sessionVars, relayVars, packetVars>>

Parts == {"session", "relay", "datagram"}

SessionRests ==
    /\ auth = NoAuth /\ clientAuth = NoAuth /\ allowUDP = TRUE /\ publicHost = "v4" /\ command = 1
    /\ target = CHOOSE t \in Session!Targets : TRUE
    /\ Session!Init

PacketRests ==
    /\ destination = NoAddr /\ payload = <<>> /\ packet = <<>> /\ pc = "rests"
    /\ parsed = NoAddr /\ forwarded = <<>> /\ resolved = NoAddr /\ answer = <<>> /\ reply = <<>>

Init ==
    /\ part \in Parts
    /\ IF part = "session" THEN Session!Init ELSE SessionRests
    /\ Tunnel!Init
    /\ IF part = "datagram" THEN Packet!Init ELSE PacketRests

(* One step of a part, with the others as they are. *)
InSession(A) == part = "session" /\ A /\ UNCHANGED <<part, relayVars, packetVars>>
InRelay(A) == part = "relay" /\ A /\ UNCHANGED <<part, sessionVars, packetVars>>
InDatagram(A) == part = "datagram" /\ A /\ UNCHANGED <<part, sessionVars, relayVars>>

Next == InSession(Session!Next) \/ InRelay(Tunnel!Next) \/ InDatagram(Packet!Next)

(* The fairness of the parts. *)
Spec ==
    /\ Init /\ [][Next]_vars
    /\ WF_vars(InSession(Session!ClientStep)) /\ WF_vars(InSession(Session!ServerStep))
    /\ WF_vars(InRelay(Tunnel!Close))
    /\ \A d \in {"up", "down"} : WF_vars(InRelay(Tunnel!CopyStep(d)))
-----------------------------------------------------------------------------
(* The type invariants of the parts. *)
TypeOK == Session!TypeOK /\ Tunnel!TypeOK /\ (part = "datagram" => Packet!TypeOK)

(* See Socks5Session: client and server agree on where each message ended. *)
DialerAgrees == Session!DialerAgrees

(* See Socks5Session: only the configured credentials get through, and they do. *)
CredentialsDecide == Session!CredentialsDecide

(* See UdpPacket: parser, payload and reply agree with the client. *)
DatagramsKept == part = "datagram" => Packet!DatagramsKept

(* See Relay: a loss has the other direction's end or a reset as its cause. *)
LossExplained == Tunnel!LossExplained

(* See Relay: a transfer in one direction arrives whole. *)
OneWayArrives == Tunnel!OneWayArrives

(* See Socks5Session and Relay: DialContext returns, a session whose client is
   gone ends, and a relay ends with either of its peers. *)
SessionsEnd ==
    /\ part = "session" => Session!DialReturns
    /\ Session!SessionEnds
    /\ Tunnel!SessionCloses
=============================================================================
