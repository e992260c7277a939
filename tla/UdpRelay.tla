------------------------------ MODULE UdpRelay ------------------------------
(***************************************************************************)
(* handleUDPPacket after the lookup (internal/socks5/server.go), on the    *)
(* table of UdpAssociations: the datagram is forwarded, its handler waits  *)
(* for the answer, and the answer goes to assoc.clientAddr, which is read  *)
(* without the lock while other handlers may move the association.         *)
(***************************************************************************)
EXTENDS UdpAssociations

VARIABLES
    waiting,    \* handlers that wait for the answer of a target
    alone       \* history: handlers at work while their association was the only one stored

relay == <<waiting, alone>>
relayVars == <<vars, relay>>

RelayInit == Init /\ waiting = {} /\ alone = {}
-----------------------------------------------------------------------------
(* A step on the table: whoever holds an association whose address changes sees
   the new one, as assoc is a pointer. *)
TableStep ==
    /\ \/ \E c \in Conns :
             \/ \E host \in IPs \cup {Unspecified}, peer \in IPs, port \in Ports :
                   Associate(c, host, peer, port)
             \/ ConnEnds(c) \/ deleteAssociation(c)
       \/ \E p \in Packets, a \in Addrs : Receive(p, a)
       \/ Close
       \/ \E p \in Packets : Lookup(p) \/ Match(p) \/ Sole(p)
    /\ alone' = alone \cup {q \in Packets :
                   pc[q] = "relay" /\ \E a \in Used : Used = {a} /\ associations[a] = found[q]}
    /\ UNCHANGED waiting

(* parseUDPPacket, ResolveUDPAddr, DialUDP and Write all work. *)
Forward(p) ==
    /\ pc[p] = "relay" /\ p \notin waiting
    /\ waiting' = waiting \cup {p}
    /\ UNCHANGED <<vars, alone>>

(* The deferred Close of the target's connection, and the return. *)
Ends(p) == Relay(p) /\ waiting' = waiting \ {p} /\ alone' = alone \ {p}

(* One of them fails, or the deadline of the target's connection passes. *)
GiveUp(p) == Ends(p)

(* The answer comes in time and is sent. *)
Reply(p) == p \in waiting /\ ~closed /\ Ends(p)
-----------------------------------------------------------------------------
RelayNext == TableStep \/ \E p \in Packets : Forward(p) \/ GiveUp(p) \/ Reply(p)

RelaySpec == RelayInit /\ [][RelayNext]_relayVars
-----------------------------------------------------------------------------
(* The answer is sent to the source of the datagram, whatever other handlers do
   to the association meanwhile, as long as another one is stored too: only a
   client on a loopback address can lose its answer then, to another address
   with its own port, for such an association matches by the port alone.  An
   association that is the only one stored goes to any source that turns up,
   and with it the answers still awaited. *)
ReplyAddressExplained ==
    \A p \in Packets : pc[p] = "relay" =>
        LET to == clientAddr[found[p]] IN
            \/ to = src[p]
            \/ p \in alone
            \/ src[p].ip \in Loopback /\ to.port = src[p].port
=============================================================================
