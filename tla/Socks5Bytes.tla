----------------------------- MODULE Socks5Bytes -----------------------------
(***************************************************************************)
(* The part of a SOCKS5 message that requests, replies and UDP datagrams   *)
(* share (internal/socks5/server.go and config.go): three bytes, the type  *)
(* of an address, the host, and the port.  A length is written as one byte *)
(* and a port as two, whatever their size.                                 *)
(***************************************************************************)
EXTENDS Naturals, Sequences

Byte == 0..255
Text(char, k) == [i \in 1..k |-> char]
Drop(s, n) == SubSeq(s, n + 1, Len(s))

(* One host of each kind; a host name is given its length. *)
V4 == <<10, 0, 0, 1>>
V6 == <<32, 1>> \o Text(0, 13) \o <<1>>
Zero == <<0, 0, 0, 0>>
HostBytes(kind) == CASE kind = "v4" -> V4 [] kind = "v6" -> V6 [] OTHER -> Text(104, 1)
Address(kind, bytes, port) == [kind |-> kind, bytes |-> bytes, port |-> port]

(* Mutation: the high byte is not cut to a byte. *)
Port16Wide(p) == <<p \div 256, p % 256>>

(* binary.BigEndian.PutUint16 of uint16(port). *)
Port16(p) == <<(p \div 256) % 256, p % 256>>

AddrType == [v4 |-> 1, name |-> 3, v6 |-> 4]
KnownTypes == {1, 3, 4}
Kind(atyp) == CASE atyp = 1 -> "v4" [] atyp = 3 -> "name" [] atyp = 4 -> "v6"

(* An address as it is sent: a host name with its length before it. *)
Encoded(kind, bytes) ==
    <<AddrType[kind]>> \o (IF kind = "name" THEN <<Len(bytes) % 256>> ELSE <<>>) \o bytes

(* Bytes before the host, and of the host, of a message whose type is byte 4
   and known; the message ends after the port. *)
HostStart(s) == IF s[4] = 3 THEN 5 ELSE 4
HostSize(s) == CASE s[4] = 1 -> 4 [] s[4] = 3 -> s[5] [] s[4] = 4 -> 16
HeaderSize(s) == HostStart(s) + HostSize(s) + 2

(* readAddress, and the port after it. *)
Decoded(s) ==
    LET end == HostStart(s) + HostSize(s) IN
    Address(Kind(s[4]), SubSeq(s, HostStart(s) + 1, end), s[end + 1] * 256 + s[end + 2])
=============================================================================
