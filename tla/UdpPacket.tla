------------------------------ MODULE UdpPacket ------------------------------
(***************************************************************************)
(* One UDP datagram through the relay, byte for byte: parseUDPPacket, what *)
(* handleUDPPacket does with the result, and buildUDPReply                 *)
(* (internal/socks5/server.go).  Which association it belongs to is in     *)
(* UdpAssociations and UdpRelay.                                           *)
(*                                                                         *)
(* A client writes its datagram as RFC 1928 says, or only a beginning of   *)
(* it, or it writes a fragment or an address of a type that is unknown.  A *)
(* slice expression that starts beyond the end of the datagram is the      *)
(* outcome "out_of_range", which ends the process.                         *)
(***************************************************************************)
EXTENDS Socks5Bytes

CONSTANTS
    HostLengths,        \* lengths of host names
    PayloadLengths,
    Ports,
    NoAddr

VARIABLES
    destination, payload,   \* what the client sends, and where
    packet,             \* the datagram as it arrived
    pc,
    parsed, forwarded,  \* what parseUDPPacket made of it
    resolved,           \* targetAddr
    answer, reply       \* what the target answered, and what the client is sent

sender == <<destination, payload, packet>>
vars == <<sender, pc, parsed, forwarded, resolved, answer, reply>>

Targets ==
    {Address(kind, HostBytes(kind), p) : kind \in {"v4", "v6"}, p \in Ports}
        \cup {Address("name", Text(104, k), p) : k \in HostLengths, p \in Ports}

Datagram(to, data) == <<0, 0, 0>> \o Encoded(to.kind, to.bytes) \o Port16(to.port) \o data
Full == Datagram(destination, payload)

(* A fragment, and a datagram whose address has a type that is not known. *)
Fragment == [Full EXCEPT ![3] = 1]
OfUnknownType == [Full EXCEPT ![4] = 2]

(* Every variable has its type. *)
TypeOK ==
    /\ destination \in Targets
    /\ {parsed, resolved} \subseteq [kind : DOMAIN AddrType, bytes : Seq(Byte), port : Nat] \cup {NoAddr}
    /\ \A a \in {parsed, resolved} \ {NoAddr} : a.port <= 65535
    /\ \A s \in {payload, packet, forwarded, answer, reply} : \A i \in DOMAIN s : s[i] \in Byte
    /\ pc \in {"parse", "resolve", "exchange", "build", "sent", "dropped", "out_of_range"}

Init ==
    /\ destination \in Targets
    /\ \E k \in PayloadLengths : payload = Text(100, k)
    /\ \/ \E n \in 0..Len(Full) : packet = SubSeq(Full, 1, n)
       \/ packet \in {Fragment, OfUnknownType}
    /\ pc = "parse"
    /\ parsed = NoAddr /\ forwarded = <<>> /\ resolved = NoAddr /\ answer = <<>> /\ reply = <<>>
-----------------------------------------------------------------------------
(* Ten bytes are the least for an IPv4 address. *)
TooShort == Len(packet) < 10

(* A reserved byte or the fragment number is not zero, or the type is unknown. *)
Malformed == (\E i \in 1..3 : packet[i] # 0) \/ packet[4] \notin KnownTypes

(* The length of the header is not compared with that of the datagram: the
   payload, packet[idx:], would start beyond its end. *)
OutOfRange == HeaderSize(packet) > Len(packet)

(* Mutation: the payload is taken to start after an IPv4 header. *)
PayloadFixed == Drop(packet, 10)

Payload == Drop(packet, HeaderSize(packet))

parseUDPPacket ==
    /\ pc = "parse"
    /\ \/ TooShort /\ pc' = "dropped" /\ UNCHANGED <<parsed, forwarded>>
       \/ ~TooShort /\ Malformed /\ pc' = "dropped" /\ UNCHANGED <<parsed, forwarded>>
       \/ /\ ~TooShort /\ ~Malformed /\ OutOfRange
          /\ pc' = "out_of_range" /\ UNCHANGED <<parsed, forwarded>>
       \/ /\ ~TooShort /\ ~Malformed /\ ~OutOfRange
          /\ parsed' = Decoded(packet) /\ forwarded' = Payload
          /\ pc' = "resolve"
    /\ UNCHANGED <<sender, resolved, answer, reply>>

(* ResolveUDPAddr: a host name has an address of either family, or none. *)
Resolve ==
    /\ pc = "resolve"
    /\ \/ \E kind \in IF parsed.kind = "name" THEN {"v4", "v6"} ELSE {parsed.kind} :
             /\ resolved' = Address(kind, HostBytes(kind), parsed.port)
             /\ pc' = "exchange"
       \/ parsed.kind = "name" /\ pc' = "dropped" /\ UNCHANGED resolved
    /\ UNCHANGED <<sender, parsed, forwarded, answer, reply>>

(* DialUDP, Write and ReadFromUDP under one deadline. *)
Exchange ==
    /\ pc = "exchange"
    /\ \/ \E k \in PayloadLengths : answer' = Text(114, k) /\ pc' = "build"
       \/ pc' = "dropped" /\ UNCHANGED answer
    /\ UNCHANGED <<sender, parsed, forwarded, resolved, reply>>

(* buildUDPReply: only an IPv4 source can be written. *)
buildUDPReply ==
    /\ pc = "build"
    /\ IF resolved.kind = "v4"
       THEN reply' = Datagram(resolved, answer) /\ pc' = "sent"
       ELSE pc' = "dropped" /\ UNCHANGED reply
    /\ UNCHANGED <<sender, parsed, forwarded, resolved, answer>>

Next == parseUDPPacket \/ Resolve \/ Exchange \/ buildUDPReply

Spec == Init /\ [][Next]_vars
-----------------------------------------------------------------------------
(* No read goes past the end of a datagram that is as long as its own header
   says, whatever the kind of address and however short the payload. *)
OutOfRangeOnlyIfCut == pc = "out_of_range" => Len(packet) < Len(Full) - Len(payload)

(* Whatever is forwarded goes to the destination the client wrote, and is its
   payload or a beginning of it: a header cut short is never taken for another
   one, and a fragment never for a datagram. *)
ForwardsWhatWasSent ==
    parsed # NoAddr =>
        /\ packet \notin {Fragment, OfUnknownType}
        /\ parsed = destination
        /\ forwarded = SubSeq(payload, 1, Len(forwarded))
        /\ Len(payload) - Len(forwarded) = Len(Full) - Len(packet)

(* A whole datagram of ten bytes or more is not dropped by the parser: only a
   host name of one or two letters with next to no payload is shorter. *)
WholeDatagramParsed ==
    pc = "dropped" /\ parsed = NoAddr /\ packet = Full =>
        destination.kind = "name" /\ Len(destination.bytes) + Len(payload) < 3

(* The client reads from the reply the address that answered and the answer. *)
ReplyReadable ==
    pc = "sent" =>
        /\ Decoded(reply) = resolved /\ resolved.port = destination.port
        /\ Drop(reply, HeaderSize(reply)) = answer

(* What goes through the relay is what was sent, both ways. *)
DatagramsKept ==
    /\ OutOfRangeOnlyIfCut /\ ForwardsWhatWasSent
    /\ WholeDatagramParsed /\ ReplyReadable
=============================================================================
