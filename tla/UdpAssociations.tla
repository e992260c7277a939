--------------------------- MODULE UdpAssociations ---------------------------
(***************************************************************************)
(* The UDP association table of the SOCKS5 server                          *)
(* (internal/socks5/server.go).                                            *)
(*                                                                         *)
(* A control connection that asks for UDP ASSOCIATE stores an association  *)
(* under the address its client announced and removes it when it ends.  A  *)
(* datagram is handled by a goroutine of its own that looks its source up  *)
(* and, failing that, lets an association adopt the source: three critical *)
(* sections of s.mu with gaps between them.  An adoption moves the         *)
(* association to another key; the deferred removal keeps the first one.   *)
(***************************************************************************)

CONSTANTS
    Conns,      \* control connections
    Packets,    \* datagrams being handled at the same time
    IPs,        \* IP addresses of clients
    Loopback,   \* those of them that are loopback addresses
    Ports,      \* UDP ports
    NoConn, NoAddr, Unspecified

ASSUME LoopbackAssumption == Loopback \subseteq IPs
ASSUME DistinctAssumption == NoConn \notin Conns /\ Unspecified \notin IPs

Addrs == [ip : IPs, port : Ports]

ASSUME NoAddrAssumption == NoAddr \notin Addrs

VARIABLES
    associations,   \* s.associations: the connection of the association stored under a key
    clientAddr,     \* clientAddr[c]: assoc.clientAddr of the association of c
    key,            \* key[c]: the address the deferred deleteAssociation of c was given
    conn,           \* conn[c]: where handleUDPAssociate of c is
    adopted,        \* history: the connections whose association changed its key
    pc,             \* pc[p]: where the handler of p is
    src,            \* src[p]: the source of p
    found,          \* found[p]: the association its handler works with
    closed          \* Close ran

table == <<associations, clientAddr, adopted>>
handlers == <<pc, src, found>>
vars == <<table, key, conn, handlers, closed>>

Used == {a \in Addrs : associations[a] # NoConn}
Open == {c \in Conns : conn[c] = "open"}

(* Every variable has its type. *)
TypeOK ==
    /\ associations \in [Addrs -> Conns \cup {NoConn}]
    /\ clientAddr \in [Conns -> Addrs \cup {NoAddr}]
    /\ key \in [Conns -> Addrs \cup {NoAddr}]
    /\ conn \in [Conns -> {"new", "open", "ended", "gone"}]
    /\ adopted \in SUBSET Conns
    /\ pc \in [Packets -> {"idle", "lookup", "match", "sole", "relay"}]
    /\ src \in [Packets -> Addrs \cup {NoAddr}]
    /\ found \in [Packets -> Conns \cup {NoConn}]
    /\ closed \in BOOLEAN
    /\ \A p \in Packets : pc[p] # "idle" => src[p] \in Addrs
    /\ \A c \in Conns : conn[c] # "new" => key[c] \in Addrs

Init ==
    /\ associations = [a \in Addrs |-> NoConn]
    /\ clientAddr = [c \in Conns |-> NoAddr]
    /\ key = [c \in Conns |-> NoAddr]
    /\ conn = [c \in Conns |-> "new"]
    /\ adopted = {}
    /\ pc = [p \in Packets |-> "idle"]
    /\ src = [p \in Packets |-> NoAddr]
    /\ found = [p \in Packets |-> NoConn]
    /\ closed = FALSE
-----------------------------------------------------------------------------
(* handleUDPAssociate *)

(* The client's IP: the requested host, unless it is no IP address, the
   unspecified address or a loopback address; then the peer of the connection. *)
ClientIP(host, peer) == IF host \in IPs \ Loopback THEN host ELSE peer

(* The association is stored under the announced address, over any other. *)
Associate(c, host, peer, port) ==
    /\ conn[c] = "new"
    /\ LET addr == [ip |-> ClientIP(host, peer), port |-> port] IN
          /\ associations' = [associations EXCEPT ![addr] = c]
          /\ clientAddr' = [clientAddr EXCEPT ![c] = addr]
          /\ key' = [key EXCEPT ![c] = addr]
    /\ conn' = [conn EXCEPT ![c] = "open"]
    /\ UNCHANGED <<adopted, handlers, closed>>

(* The reply cannot be written, or the client or Close closes the connection. *)
ConnEnds(c) ==
    /\ conn[c] = "open"
    /\ conn' = [conn EXCEPT ![c] = "ended"]
    /\ UNCHANGED <<table, key, handlers, closed>>

(* Mutation: the deferred call is forgotten. *)
deleteAssociationSkipped(c) ==
    /\ conn[c] = "ended"
    /\ conn' = [conn EXCEPT ![c] = "gone"]
    /\ UNCHANGED <<table, key, handlers, closed>>

(* The deferred deleteAssociation: it removes whatever is stored under the
   address that was announced. *)
deleteAssociation(c) ==
    /\ conn[c] = "ended"
    /\ associations' = [associations EXCEPT ![key[c]] = NoConn]
    /\ conn' = [conn EXCEPT ![c] = "gone"]
    /\ UNCHANGED <<clientAddr, adopted, key, handlers, closed>>
-----------------------------------------------------------------------------
(* handleUDPPacket *)

(* udpLoop spawns a handler; the listener is closed by Close. *)
Receive(p, a) ==
    /\ pc[p] = "idle"
    /\ ~closed
    /\ pc' = [pc EXCEPT ![p] = "lookup"]
    /\ src' = [src EXCEPT ![p] = a]
    /\ UNCHANGED <<table, key, conn, found, closed>>

Found(p, c) ==
    /\ found' = [found EXCEPT ![p] = c]
    /\ pc' = [pc EXCEPT ![p] = "relay"]
    /\ UNCHANGED src

NotFound(p, next) ==
    /\ pc' = [pc EXCEPT ![p] = next]
    /\ UNCHANGED <<src, found>>

HandlerReturns(p) ==
    /\ pc' = [pc EXCEPT ![p] = "idle"]
    /\ src' = [src EXCEPT ![p] = NoAddr]
    /\ found' = [found EXCEPT ![p] = NoConn]

(* lookupAssociation, under the read lock. *)
Lookup(p) ==
    /\ pc[p] = "lookup"
    /\ IF src[p] \in Used THEN Found(p, associations[src[p]]) ELSE NotFound(p, "match")
    /\ UNCHANGED <<table, key, conn, closed>>

(* Mutation: the association stays under its old key as well. *)
adoptAssociationKeepsKey(p, a) ==
    LET c == associations[a] IN
        /\ associations' = [associations EXCEPT ![src[p]] = c]
        /\ clientAddr' = [clientAddr EXCEPT ![c] = src[p]]
        /\ adopted' = adopted \cup {c}
        /\ Found(p, c)

(* Mutation: the association is not stored under its new key. *)
adoptAssociationForgets(p, a) ==
    LET c == associations[a] IN
        /\ associations' = [associations EXCEPT ![a] = NoConn]
        /\ clientAddr' = [clientAddr EXCEPT ![c] = src[p]]
        /\ adopted' = adopted \cup {c}
        /\ Found(p, c)

(* The association stored under a moves to the source of p. *)
adoptAssociationLocked(p, a) ==
    LET c == associations[a] IN
        /\ associations' = [associations EXCEPT ![a] = NoConn, ![src[p]] = c]
        /\ clientAddr' = [clientAddr EXCEPT ![c] = src[p]]
        /\ adopted' = adopted \cup {c}
        /\ Found(p, c)

(* Mutation: the port alone decides. *)
PortMatchesAnyIP(a) == {k \in Used : clientAddr[associations[k]].port = a.port}

(* The stored associations whose client has the port of a and an IP address
   that is a loopback address or that of a. *)
PortMatches(a) ==
    {k \in Used :
        LET client == clientAddr[associations[k]] IN
            client.port = a.port /\ (client.ip \in Loopback \/ client.ip = a.ip)}

(* adoptAssociationMatchingSourcePort: the only match adopts the source. *)
Match(p) ==
    /\ pc[p] = "match"
    /\ \/ src[p] \in Used /\ Found(p, associations[src[p]]) /\ UNCHANGED table
       \/ /\ src[p] \notin Used
          /\ \E a \in Addrs : PortMatches(src[p]) = {a} /\ adoptAssociationLocked(p, a)
       \/ /\ src[p] \notin Used
          /\ \A a \in Addrs : PortMatches(src[p]) # {a}
          /\ NotFound(p, "sole")
          /\ UNCHANGED table
    /\ UNCHANGED <<key, conn, closed>>

(* Mutation: the source is not looked up again under the lock. *)
SoleUnchecked(p) ==
    /\ pc[p] = "sole"
    /\ \/ \E a \in Addrs : Used = {a} /\ adoptAssociationLocked(p, a)
       \/ (\A a \in Addrs : Used # {a}) /\ HandlerReturns(p) /\ UNCHANGED table
    /\ UNCHANGED <<key, conn, closed>>

(* adoptSoleAssociation: the only association adopts the source; otherwise
   the packet is dropped. *)
Sole(p) ==
    /\ pc[p] = "sole"
    /\ \/ src[p] \in Used /\ Found(p, associations[src[p]]) /\ UNCHANGED table
       \/ /\ src[p] \notin Used
          /\ \E a \in Addrs : Used = {a} /\ adoptAssociationLocked(p, a)
       \/ /\ src[p] \notin Used
          /\ \A a \in Addrs : Used # {a}
          /\ HandlerReturns(p)
          /\ UNCHANGED table
    /\ UNCHANGED <<key, conn, closed>>

(* The datagram is parsed and forwarded and its reply is sent, or one of these
   fails: the table is not touched again. *)
Relay(p) ==
    /\ pc[p] = "relay"
    /\ HandlerReturns(p)
    /\ UNCHANGED <<table, key, conn, closed>>

(* Close: the listeners are closed, then under the lock every association is
   removed and its connection closed (ConnEnds follows). *)
Close ==
    /\ ~closed
    /\ closed' = TRUE
    /\ associations' = [a \in Addrs |-> NoConn]
    /\ conn' = [c \in Conns |->
                  IF conn[c] = "open" /\ \E a \in Addrs : associations[a] = c
                  THEN "ended" ELSE conn[c]]
    /\ UNCHANGED <<clientAddr, adopted, key, handlers>>
-----------------------------------------------------------------------------
Next ==
    \/ \E c \in Conns :
          \/ \E host \in IPs \cup {Unspecified}, peer \in IPs, port \in Ports :
                Associate(c, host, peer, port)
          \/ ConnEnds(c)
          \/ deleteAssociation(c)
    \/ \E p \in Packets :
          \/ \E a \in Addrs : Receive(p, a)
          \/ Lookup(p) \/ Match(p) \/ Sole(p) \/ Relay(p)
    \/ Close

Spec == Init /\ [][Next]_vars
-----------------------------------------------------------------------------
(* An association is stored under the address replies to it are sent to, and
   so under one key only: registrations, adoptions, deferred removals and
   Close may interleave with the lookups in any way. *)
IndexConsistent ==
    \A a \in Addrs : associations[a] # NoConn => clientAddr[associations[a]] = a

(* An open control connection loses its association only to another one whose
   client announced the address it now has: by registering over it, or by the
   deferred removal of that address.  No adoption takes an entry away. *)
LostOnlyToSameAddress ==
    \A c \in Open :
        \/ closed
        \/ associations[clientAddr[c]] = c
        \/ \E d \in Conns \ {c} : conn[d] # "new" /\ key[d] = clientAddr[c]

(* An association outlives its control connection only if it adopted another
   source address at some time. *)
LeakOnlyAdopted ==
    \A a \in Addrs : associations[a] # NoConn =>
        conn[associations[a]] # "gone" \/ associations[a] \in adopted

(* A datagram from the address at which an open connection has its client, and
   which no other connection announced, is handled with that connection's
   association: never with another's, and never dropped, also if the client
   came to this address while the handler was between two of its three critical
   sections, and whatever removals and adoptions of others fall between them. *)
OwnSourceServed ==
    [][\A p \in Packets, c \in Open :
          /\ pc[p] \in {"lookup", "match", "sole"} /\ pc'[p] \in {"idle", "relay"}
          /\ clientAddr[c] = src[p] /\ ~closed
          /\ \A d \in Conns \ {c} : conn[d] # "new" => key[d] # src[p]
          => pc'[p] = "relay" /\ found'[p] = c]_vars

(* What the test on NAT says: a packet from an unknown source is taken for the
   only client there is, here the only control connection that has not ended. *)
SoleClientServed ==
    [][\A p \in Packets, c \in Conns :
          /\ pc[p] = "sole" /\ pc'[p] # "sole"
          /\ ~closed
          /\ Open = {c} /\ \A d \in Conns \ {c} : conn[d] \in {"new", "gone"}
          => found'[p] = c]_vars
=============================================================================
