------------------------ MODULE UdpAssociationsProofs ------------------------
(***************************************************************************)
(* Proofs about the UDP association table and about the handlers that use  *)
(* it, for any sets of connections, packets, addresses and ports.          *)
(***************************************************************************)
EXTENDS UdpRelay, TLAPS

(* What registrations produce is an address: the server's table is total on
   the addresses clients can have. *)
LEMMA AddrType ==
    ASSUME NEW i \in IPs, NEW q \in Ports
    PROVE  [ip |-> i, port |-> q] \in Addrs
BY DEF Addrs

LEMMA ClientIPType ==
    ASSUME NEW host \in IPs \cup {Unspecified}, NEW peer \in IPs
    PROVE  ClientIP(host, peer) \in IPs
BY DEF ClientIP

(* An adoption, which finds the source of the packet unused, keeps the types:
   adoptAssociationLocked moves one entry of the map. *)
LEMMA AdoptType ==
    ASSUME TypeOK, NEW p \in Packets, NEW a \in Used, pc[p] # "idle",
           adoptAssociationLocked(p, a), UNCHANGED <<key, conn, closed>>
    PROVE  TypeOK'
<1>1. a \in Addrs /\ associations[a] \in Conns /\ src[p] \in Addrs
  BY DEF TypeOK, Used
<1>2. QED
  BY <1>1 DEF TypeOK, adoptAssociationLocked, Found

LEMMA InitType == Init => TypeOK
<1> SUFFICES ASSUME Init PROVE TypeOK
  OBVIOUS
<1>1. closed \in BOOLEAN
  BY Zenon DEF Init
<1>2. QED
  BY <1>1, SMT DEF Init, TypeOK

LEMMA NextType == TypeOK /\ [Next]_vars => TypeOK'
<1> SUFFICES ASSUME TypeOK, [Next]_vars PROVE TypeOK'
  OBVIOUS
<1>1. ASSUME NEW c \in Conns, NEW host \in IPs \cup {Unspecified}, NEW peer \in IPs,
             NEW port \in Ports, Associate(c, host, peer, port)
      PROVE TypeOK'
  <2> DEFINE addr == [ip |-> ClientIP(host, peer), port |-> port]
  <2>1. addr \in Addrs
    BY ClientIPType, AddrType
  <2> HIDE DEF addr
  <2>2. /\ associations' = [associations EXCEPT ![addr] = c]
        /\ clientAddr' = [clientAddr EXCEPT ![c] = addr]
        /\ key' = [key EXCEPT ![c] = addr]
        /\ conn' = [conn EXCEPT ![c] = "open"]
        /\ UNCHANGED <<adopted, handlers, closed>>
    BY <1>1 DEF Associate, addr
  <2>3. QED
    BY <2>1, <2>2 DEF TypeOK, handlers
<1>2. ASSUME NEW c \in Conns, ConnEnds(c) PROVE TypeOK'
  BY <1>2 DEF TypeOK, ConnEnds, table, handlers
<1>3. ASSUME NEW c \in Conns, deleteAssociation(c) PROVE TypeOK'
  BY <1>3 DEF TypeOK, deleteAssociation, handlers
<1>4. ASSUME NEW p \in Packets, NEW a \in Addrs, Receive(p, a) PROVE TypeOK'
  BY <1>4 DEF TypeOK, Receive, table
<1>5. ASSUME NEW p \in Packets, Lookup(p) PROVE TypeOK'
  BY <1>5 DEF TypeOK, Lookup, Found, NotFound, Used, table
<1>6. ASSUME NEW p \in Packets, Match(p) PROVE TypeOK'
  <2>1. CASE \E a \in Addrs : PortMatches(src[p]) = {a} /\ adoptAssociationLocked(p, a)
    BY <1>6, <2>1, AdoptType DEF Match, PortMatches
  <2>2. CASE ~ \E a \in Addrs : PortMatches(src[p]) = {a} /\ adoptAssociationLocked(p, a)
    BY <1>6, <2>2 DEF Match, TypeOK, Found, NotFound, Used, table
  <2>3. QED
    BY <2>1, <2>2
<1>7. ASSUME NEW p \in Packets, Sole(p) PROVE TypeOK'
  <2>1. CASE \E a \in Addrs : Used = {a} /\ adoptAssociationLocked(p, a)
    BY <1>7, <2>1, AdoptType DEF Sole
  <2>2. CASE ~ \E a \in Addrs : Used = {a} /\ adoptAssociationLocked(p, a)
    BY <1>7, <2>2 DEF Sole, TypeOK, Found, HandlerReturns, Used, table
  <2>3. QED
    BY <2>1, <2>2
<1>8. ASSUME NEW p \in Packets, Relay(p) PROVE TypeOK'
  BY <1>8 DEF TypeOK, Relay, HandlerReturns, table
<1>9. CASE Close
  BY <1>9 DEF TypeOK, Close, handlers
<1>10. CASE UNCHANGED vars
  BY <1>10 DEF TypeOK, vars, table, handlers
<1>11. QED
  BY <1>1, <1>2, <1>3, <1>4, <1>5, <1>6, <1>7, <1>8, <1>9, <1>10 DEF Next

(* Every step of a connection, of a handler and of Close keeps the types. *)
THEOREM TypeCorrect == Spec => []TypeOK
BY InitType, NextType, PTL DEF Spec
-----------------------------------------------------------------------------
(* The entry under the new key is the only one an adoption adds; what else is
   stored stays where it is. *)
LEMMA AdoptEntries ==
    ASSUME TypeOK, IndexConsistent, NEW p \in Packets, NEW a \in Used, pc[p] # "idle",
           adoptAssociationLocked(p, a)
    PROVE  /\ associations[a] \in Conns /\ src[p] \in Addrs
           /\ associations'[src[p]] = associations[a]
           /\ clientAddr'[associations[a]] = src[p]
           /\ \A b \in Addrs : b # src[p] /\ associations'[b] # NoConn =>
                  /\ b # a /\ associations'[b] = associations[b]
                  /\ clientAddr'[associations'[b]] = clientAddr[associations[b]]
<1>1. a \in Addrs /\ associations[a] \in Conns /\ src[p] \in Addrs
  BY DEF TypeOK, Used
<1>2. associations' = [associations EXCEPT ![a] = NoConn, ![src[p]] = associations[a]]
  BY DEF adoptAssociationLocked
<1>3. clientAddr' = [clientAddr EXCEPT ![associations[a]] = src[p]]
  BY DEF adoptAssociationLocked
<1>4. ASSUME NEW b \in Addrs, b # src[p], associations'[b] # NoConn
      PROVE  /\ b # a /\ associations'[b] = associations[b]
             /\ clientAddr'[associations'[b]] = clientAddr[associations[b]]
  <2>1. b # a /\ associations'[b] = associations[b] /\ associations[b] \in Conns
    BY <1>1, <1>2, <1>4 DEF TypeOK
  <2>2. associations[b] # associations[a]
    BY <1>1, <1>4, <2>1 DEF IndexConsistent, Used
  <2>3. QED
    BY <1>1, <1>3, <2>1, <2>2 DEF TypeOK
<1>5. QED
  BY <1>1, <1>2, <1>3, <1>4 DEF TypeOK

LEMMA AdoptConsistent ==
    ASSUME TypeOK, IndexConsistent, NEW p \in Packets, NEW a \in Used, pc[p] # "idle",
           adoptAssociationLocked(p, a)
    PROVE  IndexConsistent'
<1>1. SUFFICES ASSUME NEW b \in Addrs, associations'[b] # NoConn
               PROVE  clientAddr'[associations'[b]] = b
  BY DEF IndexConsistent
<1>2. CASE b = src[p]
  BY <1>2, AdoptEntries
<1>3. CASE b # src[p]
  BY <1>1, <1>3, AdoptEntries DEF IndexConsistent
<1>4. QED
  BY <1>2, <1>3
-----------------------------------------------------------------------------
(* Only connections that registered have an entry: otherwise a registration
   would change the clientAddr of an entry that is already there. *)
OnlyRegistered ==
    \A a \in Addrs : associations[a] # NoConn => conn[associations[a]] # "new"

(* Until its first adoption an association is under the key of the deferred
   removal: that removal finds it. *)
KeyUntilAdopted ==
    \A c \in Conns : conn[c] # "new" =>
        clientAddr[c] \in Addrs /\ (c \notin adopted => clientAddr[c] = key[c])

IInv ==
    /\ TypeOK
    /\ IndexConsistent
    /\ OnlyRegistered
    /\ KeyUntilAdopted
    /\ LeakOnlyAdopted
    /\ LostOnlyToSameAddress

LEMMA InitInv == Init => IInv
<1> SUFFICES ASSUME Init PROVE IInv
  OBVIOUS
<1>1. TypeOK
  BY InitType
<1>2. IndexConsistent /\ OnlyRegistered /\ LeakOnlyAdopted
  BY DEF Init, IndexConsistent, OnlyRegistered, LeakOnlyAdopted
<1>3. KeyUntilAdopted /\ LostOnlyToSameAddress
  BY DEF Init, KeyUntilAdopted, LostOnlyToSameAddress, Open
<1>4. QED
  BY <1>1, <1>2, <1>3 DEF IInv

(* A registration: the entry it overwrites belonged to a client with the same
   address. *)
LEMMA AssociateInv ==
    ASSUME IInv, TypeOK', NEW c \in Conns, NEW host \in IPs \cup {Unspecified},
           NEW peer \in IPs, NEW port \in Ports, Associate(c, host, peer, port)
    PROVE  IInv'
<1> DEFINE addr == [ip |-> ClientIP(host, peer), port |-> port]
<1>1. addr \in Addrs
  BY ClientIPType, AddrType
<1>2. /\ conn[c] = "new"
      /\ associations' = [associations EXCEPT ![addr] = c]
      /\ clientAddr' = [clientAddr EXCEPT ![c] = addr]
      /\ key' = [key EXCEPT ![c] = addr]
      /\ conn' = [conn EXCEPT ![c] = "open"]
      /\ UNCHANGED <<adopted, closed>>
  BY DEF Associate
<1> HIDE DEF addr
<1>3. \A a \in Addrs : associations[a] # c
  BY <1>2, DistinctAssumption DEF IInv, OnlyRegistered
<1>4. IndexConsistent'
  BY <1>1, <1>2, <1>3 DEF IInv, TypeOK, IndexConsistent
<1>5. OnlyRegistered' /\ KeyUntilAdopted'
  BY <1>1, <1>2, <1>3 DEF IInv, TypeOK, OnlyRegistered, KeyUntilAdopted
<1>6. LeakOnlyAdopted'
  BY <1>1, <1>2, <1>3 DEF IInv, TypeOK, LeakOnlyAdopted
<1>7. LostOnlyToSameAddress'
  <2> SUFFICES ASSUME NEW d \in Conns, conn'[d] = "open", ~closed'
               PROVE  \/ associations'[clientAddr'[d]] = d
                      \/ \E e \in Conns \ {d} : conn'[e] # "new" /\ key'[e] = clientAddr'[d]
    BY DEF LostOnlyToSameAddress, Open
  <2>1. CASE d = c
    BY <1>1, <1>2, <2>1 DEF IInv, TypeOK
  <2>2. CASE d # c
    <3>1. d \in Open /\ ~closed /\ clientAddr'[d] = clientAddr[d] /\ clientAddr[d] \in Addrs
      BY <1>2, <2>2 DEF IInv, TypeOK, Open, KeyUntilAdopted
    <3>2. CASE clientAddr[d] = addr
      BY <1>1, <1>2, <2>2, <3>1, <3>2 DEF IInv, TypeOK
    <3>3. CASE clientAddr[d] # addr
      <4>1. CASE associations[clientAddr[d]] = d
        BY <1>1, <1>2, <3>1, <3>3, <4>1 DEF IInv, TypeOK
      <4>2. CASE \E e \in Conns \ {d} : conn[e] # "new" /\ key[e] = clientAddr[d]
        BY <1>2, <3>1, <4>2 DEF IInv, TypeOK
      <4>3. QED
        BY <3>1, <4>1, <4>2 DEF IInv, LostOnlyToSameAddress
    <3>4. QED
      BY <3>2, <3>3
  <2>3. QED
    BY <2>1, <2>2
<1>8. QED
  BY <1>4, <1>5, <1>6, <1>7 DEF IInv

(* The deferred removal: the association it was meant for is gone with it,
   unless that moved; any other loses an entry under the announced address. *)
LEMMA DeleteInv ==
    ASSUME IInv, TypeOK', NEW c \in Conns, deleteAssociation(c)
    PROVE  IInv'
<1>1. /\ conn[c] = "ended"
      /\ associations' = [associations EXCEPT ![key[c]] = NoConn]
      /\ conn' = [conn EXCEPT ![c] = "gone"]
      /\ UNCHANGED <<clientAddr, adopted, key, closed>>
  BY DEF deleteAssociation
<1>2. key[c] \in Addrs
  BY <1>1 DEF IInv, TypeOK
<1>3. \A a \in Addrs : associations'[a] # NoConn =>
         a # key[c] /\ associations'[a] = associations[a] /\ associations[a] \in Conns
  BY <1>1, <1>2 DEF IInv, TypeOK
<1>4. IndexConsistent' /\ OnlyRegistered' /\ KeyUntilAdopted'
  BY <1>1, <1>3 DEF IInv, TypeOK, IndexConsistent, OnlyRegistered, KeyUntilAdopted
<1>5. LeakOnlyAdopted'
  <2> SUFFICES ASSUME NEW a \in Addrs, associations'[a] # NoConn
               PROVE  conn'[associations'[a]] # "gone" \/ associations'[a] \in adopted'
    BY DEF LeakOnlyAdopted
  <2>1. CASE associations[a] = c
    <3>1. clientAddr[c] = a /\ a # key[c]
      BY <1>3, <2>1 DEF IInv, IndexConsistent
    <3>2. c \in adopted
      BY <1>1, <3>1 DEF IInv, KeyUntilAdopted
    <3>3. QED
      BY <1>1, <1>3, <2>1, <3>2
  <2>2. CASE associations[a] # c
    BY <1>1, <1>3, <2>2 DEF IInv, TypeOK, LeakOnlyAdopted
  <2>3. QED
    BY <2>1, <2>2
<1>6. LostOnlyToSameAddress'
  <2> SUFFICES ASSUME NEW d \in Conns, conn'[d] = "open", ~closed'
               PROVE  \/ associations'[clientAddr'[d]] = d
                      \/ \E e \in Conns \ {d} : conn'[e] # "new" /\ key'[e] = clientAddr'[d]
    BY DEF LostOnlyToSameAddress, Open
  <2>1. d # c /\ d \in Open /\ ~closed /\ clientAddr[d] \in Addrs
    BY <1>1 DEF IInv, TypeOK, Open, KeyUntilAdopted
  <2>2. CASE clientAddr[d] = key[c]
    BY <1>1, <2>1, <2>2 DEF IInv, TypeOK
  <2>3. CASE clientAddr[d] # key[c] /\ associations[clientAddr[d]] = d
    BY <1>1, <1>2, <2>1, <2>3 DEF IInv, TypeOK
  <2>4. CASE \E e \in Conns \ {d} : conn[e] # "new" /\ key[e] = clientAddr[d]
    BY <1>1, <2>4 DEF IInv, TypeOK
  <2>5. QED
    BY <2>1, <2>2, <2>3, <2>4 DEF IInv, LostOnlyToSameAddress
<1>7. QED
  BY <1>4, <1>5, <1>6 DEF IInv

(* An adoption of a source that nobody has: no entry is overwritten. *)
LEMMA AdoptInv ==
    ASSUME IInv, TypeOK', NEW p \in Packets, NEW a \in Used, pc[p] # "idle",
           src[p] \notin Used, adoptAssociationLocked(p, a), UNCHANGED <<key, conn, closed>>
    PROVE  IInv'
<1> DEFINE c == associations[a]
<1>1. /\ a \in Addrs /\ c \in Conns /\ src[p] \in Addrs /\ a # src[p]
      /\ associations' = [associations EXCEPT ![a] = NoConn, ![src[p]] = c]
      /\ clientAddr' = [clientAddr EXCEPT ![c] = src[p]]
      /\ adopted' = adopted \cup {c}
  BY DEF IInv, TypeOK, Used, adoptAssociationLocked
<1>2. IndexConsistent'
  BY AdoptConsistent DEF IInv
<1>3. conn[c] # "new"
  BY <1>1 DEF IInv, OnlyRegistered, Used
<1> HIDE DEF c
<1>4. OnlyRegistered' /\ KeyUntilAdopted'
  BY <1>1, <1>3 DEF IInv, TypeOK, OnlyRegistered, KeyUntilAdopted
<1>5. LeakOnlyAdopted'
  BY <1>1 DEF IInv, TypeOK, LeakOnlyAdopted
<1>6. LostOnlyToSameAddress'
  <2> SUFFICES ASSUME NEW d \in Conns, conn'[d] = "open", ~closed'
               PROVE  \/ associations'[clientAddr'[d]] = d
                      \/ \E e \in Conns \ {d} : conn'[e] # "new" /\ key'[e] = clientAddr'[d]
    BY DEF LostOnlyToSameAddress, Open
  <2>1. d \in Open /\ ~closed /\ clientAddr[d] \in Addrs
    BY DEF IInv, TypeOK, Open, KeyUntilAdopted
  <2>2. CASE d = c
    BY <1>1, <2>2 DEF IInv, TypeOK
  <2>3. CASE d # c /\ associations[clientAddr[d]] = d
    <3>1. clientAddr[d] # a /\ clientAddr[d] # src[p]
      BY <1>1, <2>1, <2>3, DistinctAssumption DEF Used, c
    <3>2. QED
      BY <1>1, <2>1, <2>3, <3>1 DEF IInv, TypeOK
  <2>4. CASE d # c /\ \E e \in Conns \ {d} : conn[e] # "new" /\ key[e] = clientAddr[d]
    BY <1>1, <2>4 DEF IInv, TypeOK
  <2>5. QED
    BY <2>1, <2>2, <2>3, <2>4 DEF IInv, LostOnlyToSameAddress
<1>7. QED
  BY <1>2, <1>4, <1>5, <1>6 DEF IInv

LEMMA CloseInv ==
    ASSUME IInv, TypeOK', Close
    PROVE  IInv'
<1>1. /\ \A a \in Addrs : associations'[a] = NoConn
      /\ closed' = TRUE
      /\ UNCHANGED <<clientAddr, adopted, key>>
      /\ \A c \in Conns : conn'[c] # "new" => conn[c] # "new"
  BY DEF IInv, TypeOK, Close
<1>2. IndexConsistent' /\ OnlyRegistered' /\ LeakOnlyAdopted'
  BY <1>1 DEF IndexConsistent, OnlyRegistered, LeakOnlyAdopted
<1>3. KeyUntilAdopted'
  BY <1>1 DEF IInv, KeyUntilAdopted
<1>4. LostOnlyToSameAddress'
  BY <1>1 DEF LostOnlyToSameAddress
<1>5. QED
  BY <1>2, <1>3, <1>4 DEF IInv

(* A step that touches neither the table nor a connection's stage. *)
LEMMA TableUnchangedInv ==
    ASSUME IInv, TypeOK', UNCHANGED <<table, key, conn, closed>>
    PROVE  IInv'
BY DEF IInv, table, IndexConsistent, OnlyRegistered, KeyUntilAdopted, LeakOnlyAdopted,
       LostOnlyToSameAddress, Open

LEMMA ConnEndsInv ==
    ASSUME IInv, TypeOK', NEW c \in Conns, ConnEnds(c)
    PROVE  IInv'
<1>1. /\ conn[c] = "open"
      /\ conn' = [conn EXCEPT ![c] = "ended"]
      /\ UNCHANGED <<associations, clientAddr, adopted, key, closed>>
  BY DEF ConnEnds, table
<1>2. \A d \in Conns : /\ conn'[d] # "new" => conn[d] # "new"
                       /\ conn[d] # "new" => conn'[d] # "new"
                       /\ conn'[d] = "gone" => conn[d] = "gone"
                       /\ conn'[d] = "open" => conn[d] = "open"
  <2>1. conn'[c] = "ended" /\ \A d \in Conns \ {c} : conn'[d] = conn[d]
    BY <1>1 DEF IInv, TypeOK
  <2>2. QED
    BY <1>1, <2>1
<1>3. IndexConsistent' /\ OnlyRegistered' /\ KeyUntilAdopted'
  BY <1>1, <1>2 DEF IInv, TypeOK, IndexConsistent, OnlyRegistered, KeyUntilAdopted
<1>4. LeakOnlyAdopted'
  BY <1>1, <1>2 DEF IInv, TypeOK, LeakOnlyAdopted
<1>5. LostOnlyToSameAddress'
  BY <1>1, <1>2 DEF IInv, LostOnlyToSameAddress, Open
<1>6. QED
  BY <1>3, <1>4, <1>5 DEF IInv
-----------------------------------------------------------------------------
LEMMA NextInv == IInv /\ [Next]_vars => IInv'
<1> SUFFICES ASSUME IInv, [Next]_vars PROVE IInv'
  OBVIOUS
<1>1. TypeOK'
  BY NextType DEF IInv
<1>2. ASSUME NEW c \in Conns, NEW host \in IPs \cup {Unspecified}, NEW peer \in IPs,
             NEW port \in Ports, Associate(c, host, peer, port)
      PROVE IInv'
  BY <1>1, <1>2, AssociateInv
<1>3. ASSUME NEW c \in Conns, ConnEnds(c) PROVE IInv'
  BY <1>1, <1>3, ConnEndsInv
<1>4. ASSUME NEW c \in Conns, deleteAssociation(c) PROVE IInv'
  BY <1>1, <1>4, DeleteInv
<1>5. ASSUME NEW p \in Packets, NEW a \in Addrs, Receive(p, a) PROVE IInv'
  BY <1>1, <1>5, TableUnchangedInv DEF Receive
<1>6. ASSUME NEW p \in Packets, Lookup(p) PROVE IInv'
  BY <1>1, <1>6, TableUnchangedInv DEF Lookup
<1>7. ASSUME NEW p \in Packets, Match(p) PROVE IInv'
  <2>1. CASE src[p] \notin Used
             /\ \E a \in Addrs : PortMatches(src[p]) = {a} /\ adoptAssociationLocked(p, a)
    <3>1. PICK a \in Used : adoptAssociationLocked(p, a)
      BY <2>1 DEF PortMatches
    <3>2. pc[p] # "idle" /\ UNCHANGED <<key, conn, closed>>
      BY <1>7 DEF Match
    <3>3. QED
      BY <1>1, <2>1, <3>1, <3>2, AdoptInv
  <2>2. CASE UNCHANGED table
    BY <1>1, <1>7, <2>2, TableUnchangedInv DEF Match
  <2>3. QED
    BY <1>7, <2>1, <2>2 DEF Match
<1>8. ASSUME NEW p \in Packets, Sole(p) PROVE IInv'
  <2>1. CASE src[p] \notin Used /\ \E a \in Addrs : Used = {a} /\ adoptAssociationLocked(p, a)
    <3>1. PICK a \in Used : adoptAssociationLocked(p, a)
      BY <2>1
    <3>2. pc[p] # "idle" /\ UNCHANGED <<key, conn, closed>>
      BY <1>8 DEF Sole
    <3>3. QED
      BY <1>1, <2>1, <3>1, <3>2, AdoptInv
  <2>2. CASE UNCHANGED table
    BY <1>1, <1>8, <2>2, TableUnchangedInv DEF Sole
  <2>3. QED
    BY <1>8, <2>1, <2>2 DEF Sole
<1>9. ASSUME NEW p \in Packets, Relay(p) PROVE IInv'
  BY <1>1, <1>9, TableUnchangedInv DEF Relay
<1>10. CASE Close
  BY <1>1, <1>10, CloseInv
<1>11. CASE UNCHANGED vars
  BY <1>1, <1>11, TableUnchangedInv DEF vars
<1>12. QED
  BY <1>2, <1>3, <1>4, <1>5, <1>6, <1>7, <1>8, <1>9, <1>10, <1>11 DEF Next

LEMMA InvCorrect == Spec => []IInv
BY InitInv, NextInv, PTL DEF Spec

(* The table of associations is indexed by the address replies are sent to,
   however registrations, adoptions, removals and Close interleave. *)
THEOREM IndexCorrect == Spec => []IndexConsistent
<1>1. IInv => IndexConsistent
  BY DEF IInv
<1>2. QED
  BY <1>1, InvCorrect, PTL

(* Only an association that adopted a source can outlive its connection. *)
THEOREM LeaksExplained == Spec => []LeakOnlyAdopted
<1>1. IInv => LeakOnlyAdopted
  BY DEF IInv
<1>2. QED
  BY <1>1, InvCorrect, PTL

(* An open connection loses its entry only to one with the same announced
   address. *)
THEOREM LossesExplained == Spec => []LostOnlyToSameAddress
<1>1. IInv => LostOnlyToSameAddress
  BY DEF IInv
<1>2. QED
  BY <1>1, InvCorrect, PTL

(* A handler that goes to another place makes the step itself. *)
LEMMA HandlerStep ==
    ASSUME IInv, [Next]_vars, NEW p \in Packets, pc'[p] # pc[p], pc[p] # "idle"
    PROVE  Lookup(p) \/ Match(p) \/ Sole(p) \/ Relay(p)
<1>1. ~ UNCHANGED pc
  OBVIOUS
<1>2. PICK q \in Packets : \/ \E a \in Addrs : Receive(q, a)
                          \/ Lookup(q) \/ Match(q) \/ Sole(q) \/ Relay(q)
  BY <1>1 DEF Next, vars, handlers, Associate, ConnEnds, deleteAssociation, Close
<1>3. \E l \in {"lookup", "match", "sole", "idle", "relay"} : pc' = [pc EXCEPT ![q] = l]
  BY <1>2 DEF Lookup, Match, Sole, Relay, Receive, Found, NotFound, HandlerReturns,
     adoptAssociationLocked
<1>4. p = q
  BY <1>3 DEF IInv, TypeOK
<1>5. ~ \E a \in Addrs : Receive(p, a)
  BY DEF Receive
<1>6. QED
  BY <1>2, <1>4, <1>5

(* The association stored under the source is what each critical section finds. *)
LEMMA StoredIsFound ==
    ASSUME IInv, NEW p \in Packets, Lookup(p) \/ Match(p) \/ Sole(p), src[p] \in Used
    PROVE  pc'[p] = "relay" /\ found'[p] = associations[src[p]]
BY DEF Lookup, Match, Sole, Found, NotFound, HandlerReturns, IInv, TypeOK

(* At no step is a datagram of a connected client, whose address nobody else
   announced, taken for another's or dropped. *)
THEOREM OwnSourceCorrect == Spec => OwnSourceServed
<1>1. ASSUME IInv, [Next]_vars, NEW p \in Packets, NEW c \in Open,
             pc[p] \in {"lookup", "match", "sole"}, pc'[p] \in {"idle", "relay"},
             clientAddr[c] = src[p], ~closed,
             \A d \in Conns \ {c} : conn[d] # "new" => key[d] # src[p]
      PROVE  pc'[p] = "relay" /\ found'[p] = c
  <2>1. src[p] \in Addrs /\ c \in Conns
    BY <1>1 DEF IInv, TypeOK, Open
  <2>2. associations[src[p]] = c
    BY <1>1 DEF IInv, LostOnlyToSameAddress
  <2>3. src[p] \in Used
    BY <2>1, <2>2, DistinctAssumption DEF Used
  <2>4. Lookup(p) \/ Match(p) \/ Sole(p)
    BY <1>1, HandlerStep DEF Relay
  <2>5. QED
    BY <1>1, <2>2, <2>3, <2>4, StoredIsFound
<1>2. IInv /\ [Next]_vars =>
        [\A p \in Packets, c \in Open :
            /\ pc[p] \in {"lookup", "match", "sole"} /\ pc'[p] \in {"idle", "relay"}
            /\ clientAddr[c] = src[p] /\ ~closed
            /\ \A d \in Conns \ {c} : conn[d] # "new" => key[d] # src[p]
            => pc'[p] = "relay" /\ found'[p] = c]_vars
  BY <1>1
<1>3. QED
  BY <1>2, InvCorrect, PTL DEF Spec, OwnSourceServed
-----------------------------------------------------------------------------
(* The handlers that wait for an answer: UdpRelay only adds to the table what
   they do meanwhile, so that all of the above holds for them. *)
LEMMA RelayStep == [RelayNext]_relayVars => [Next]_vars
BY DEF RelayNext, relayVars, TableStep, Forward, GiveUp, Reply, Ends, Next

(* The handlers of handleUDPPacket touch the table only by the steps of
   UdpAssociations, so that its theorems hold with them. *)
THEOREM RelayRefines == RelaySpec => Spec
BY RelayStep, PTL DEF RelaySpec, RelayInit, Spec

(* A handler at work keeps its packet and its association. *)
LEMMA RelayKeeps ==
    ASSUME TypeOK, TableStep, NEW p \in Packets, pc[p] = "relay"
    PROVE  src'[p] = src[p] /\ found'[p] = found[p]
<1>1. CASE UNCHANGED handlers
  BY <1>1 DEF handlers
<1>2. ASSUME NEW q \in Packets, Lookup(q) \/ Match(q) \/ Sole(q) \/ \E a \in Addrs : Receive(q, a)
      PROVE  src'[p] = src[p] /\ found'[p] = found[p]
  <2>1. p # q
    BY <1>2 DEF Lookup, Match, Sole, Receive
  <2>2. QED
    BY <1>2, <2>1 DEF TypeOK, Lookup, Match, Sole, Receive, Found, NotFound, HandlerReturns,
       adoptAssociationLocked
<1>3. QED
  BY <1>1, <1>2 DEF TableStep, Associate, ConnEnds, deleteAssociation, Close

(* At the moment a handler settles on an association, that association is the
   one stored under the source of its packet: the re-checks and the adoptions
   leave it there. *)
LEMMA SettlesOnIndexed ==
    ASSUME IInv, NEW p \in Packets, pc'[p] = "relay", Lookup(p) \/ Match(p) \/ Sole(p)
    PROVE  /\ src[p] \in Addrs /\ src'[p] = src[p]
           /\ found'[p] \in Conns /\ conn[found'[p]] # "new"
           /\ associations'[src[p]] = found'[p]
<1>1. src[p] \in Addrs /\ pc[p] # "idle"
  BY DEF Lookup, Match, Sole, IInv, TypeOK
<1>2. CASE src[p] \in Used
  BY <1>1, <1>2, StoredIsFound DEF Lookup, Match, Sole, Found, table, Used, OnlyRegistered, IInv,
     TypeOK
<1>3. CASE \E a \in Used : adoptAssociationLocked(p, a)
  <2>1. PICK a \in Used : adoptAssociationLocked(p, a)
    BY <1>3
  <2>2. found'[p] = associations[a] /\ src' = src
    BY <2>1 DEF adoptAssociationLocked, Found, IInv, TypeOK
  <2>3. associations[a] \in Conns /\ associations'[src[p]] = associations[a]
    BY <1>1, <2>1, AdoptEntries DEF IInv
  <2>4. conn[associations[a]] # "new"
    BY <2>1 DEF IInv, OnlyRegistered, Used
  <2>5. QED
    BY <1>1, <2>2, <2>3, <2>4
<1>4. QED
  <2>1. CASE Lookup(p)
    BY <1>2, <2>1 DEF Lookup, NotFound, IInv, TypeOK
  <2>2. CASE Match(p)
    BY <1>2, <1>3, <2>2 DEF Match, NotFound, PortMatches, IInv, TypeOK
  <2>3. CASE Sole(p)
    BY <1>2, <1>3, <2>3 DEF Sole, HandlerReturns, IInv, TypeOK
  <2>4. QED
    BY <2>1, <2>2, <2>3

(* An adoption for want of an exact match leaves an association its port, or is
   of the only one stored. *)
LEMMA AdoptionKeepsPort ==
    ASSUME IInv, NEW q \in Packets, NEW c \in Conns, Lookup(q) \/ Match(q) \/ Sole(q),
           clientAddr'[c] # clientAddr[c]
    PROVE  \/ \E a \in Used : Used = {a} /\ associations[a] = c
           \/ clientAddr[c].ip \in Loopback /\ clientAddr'[c].port = clientAddr[c].port
<1>1. src[q] \in Addrs
  BY DEF Lookup, Match, Sole, IInv, TypeOK
<1>2. ~Lookup(q) /\ clientAddr' # clientAddr
  BY DEF Lookup, table
<1>3. CASE Sole(q)
  <2>1. PICK a \in Used : Used = {a} /\ adoptAssociationLocked(q, a)
    BY <1>2, <1>3 DEF Sole, table
  <2>2. associations[a] = c
    BY <2>1 DEF adoptAssociationLocked, IInv, TypeOK
  <2>3. QED
    BY <2>1, <2>2
<1>4. CASE Match(q)
  <2>1. src[q] \notin Used
        /\ \E a \in Addrs : PortMatches(src[q]) = {a} /\ adoptAssociationLocked(q, a)
    BY <1>2, <1>4 DEF Match, table
  <2>2. PICK a \in Used : a \in PortMatches(src[q]) /\ adoptAssociationLocked(q, a)
    BY <2>1 DEF PortMatches
  <2>3. associations[a] = c /\ clientAddr'[c] = src[q]
    BY <2>2 DEF adoptAssociationLocked, IInv, TypeOK
  <2>4. clientAddr[c] = a /\ a \in Addrs /\ a # src[q]
    BY <2>1, <2>2, <2>3 DEF IInv, IndexConsistent, Used
  <2>5. a.port = src[q].port /\ (a.ip \in Loopback \/ a.ip = src[q].ip)
    BY <2>2, <2>3, <2>4 DEF PortMatches
  <2>6. ~(a.port = src[q].port /\ a.ip = src[q].ip)
    BY <1>1, <2>4 DEF Addrs
  <2>7. QED
    BY <2>3, <2>4, <2>5, <2>6
<1>5. QED
  BY <1>2, <1>3, <1>4

(* A handler at work holds the association of a connection that registered. *)
HoldsRegistered ==
    \A p \in Packets : pc[p] = "relay" => found[p] \in Conns /\ conn[found[p]] # "new"

RelayInv == IInv /\ HoldsRegistered /\ ReplyAddressExplained

(* ReplyAddressExplained of one handler. *)
Explained(p) ==
    \/ clientAddr[found[p]] = src[p]
    \/ p \in alone
    \/ src[p].ip \in Loopback /\ clientAddr[found[p]].port = src[p].port

(* A handler starts its work with the answer's address right. *)
LEMMA SettledExplained ==
    ASSUME RelayInv, IInv', TableStep, NEW p \in Packets, pc[p] # "relay", pc'[p] = "relay"
    PROVE  /\ found'[p] \in Conns /\ conn'[found'[p]] # "new"
           /\ clientAddr'[found'[p]] = src'[p]
<1>1. [Next]_vars
  BY DEF TableStep, Next
<1>2. pc[p] # "idle"
  <2>1. CASE UNCHANGED pc
    BY <2>1
  <2>2. CASE \E q \in Packets, a \in Addrs : Receive(q, a)
    BY <2>2 DEF Receive, RelayInv, IInv, TypeOK
  <2>3. ASSUME NEW q \in Packets, Lookup(q) \/ Match(q) \/ Sole(q) PROVE pc[p] # "idle"
    <3>1. \E l \in {"match", "sole", "idle", "relay"} : pc' = [pc EXCEPT ![q] = l]
      BY <2>3 DEF Lookup, Match, Sole, Found, NotFound, HandlerReturns, adoptAssociationLocked
    <3>2. p = q
      BY <3>1 DEF RelayInv, IInv, TypeOK
    <3>3. QED
      BY <2>3, <3>2 DEF Lookup, Match, Sole
  <2>4. QED
    BY <2>1, <2>2, <2>3 DEF TableStep, Associate, ConnEnds, deleteAssociation, Close, handlers
<1>3. Lookup(p) \/ Match(p) \/ Sole(p)
  BY <1>1, <1>2, HandlerStep DEF RelayInv, Relay
<1>4. conn' = conn
  BY <1>3 DEF Lookup, Match, Sole
<1>5. QED
  BY <1>3, <1>4, SettlesOnIndexed, DistinctAssumption DEF RelayInv, IInv, IndexConsistent

(* At work, a step on the table keeps the address or moves it as it may. *)
LEMMA WorkingExplained ==
    ASSUME RelayInv, TableStep, NEW p \in Packets, pc[p] = "relay"
    PROVE  found'[p] \in Conns /\ conn'[found'[p]] # "new" /\ Explained(p)'
<1> DEFINE c == found[p]
<1>1. src'[p] = src[p] /\ found'[p] = c
  BY RelayKeeps DEF RelayInv, IInv
<1>2. c \in Conns /\ conn[c] # "new" /\ Explained(p)
  BY DEF RelayInv, HoldsRegistered, ReplyAddressExplained, Explained
<1>3. alone \subseteq alone'
      /\ ((\E a \in Used : Used = {a} /\ associations[a] = c) => p \in alone')
  BY DEF TableStep
<1> HIDE DEF c
<1>4. conn'[c] # "new"
  BY <1>2 DEF TableStep, Associate, ConnEnds, deleteAssociation, Close, Receive, Lookup, Match, Sole,
     RelayInv, IInv, TypeOK
<1>5. CASE clientAddr'[c] = clientAddr[c]
  BY <1>1, <1>2, <1>3, <1>4, <1>5 DEF Explained, c
<1>6. CASE clientAddr'[c] # clientAddr[c]
  <2>1. PICK q \in Packets : Lookup(q) \/ Match(q) \/ Sole(q)
    BY <1>2, <1>6 DEF TableStep, Associate, ConnEnds, deleteAssociation, Close, Receive, table,
       RelayInv, IInv, TypeOK
  <2>2. \/ \E a \in Used : Used = {a} /\ associations[a] = c
        \/ clientAddr[c].ip \in Loopback /\ clientAddr'[c].port = clientAddr[c].port
    BY <1>2, <1>6, <2>1, AdoptionKeepsPort DEF RelayInv
  <2>3. QED
    BY <1>1, <1>2, <1>3, <1>4, <2>2 DEF Explained, c
<1>7. QED
  BY <1>5, <1>6

LEMMA NextRelayInv == RelayInv /\ [RelayNext]_relayVars => RelayInv'
<1> SUFFICES ASSUME RelayInv, [RelayNext]_relayVars PROVE RelayInv'
  OBVIOUS
<1>1. [Next]_vars /\ IInv'
  BY RelayStep, NextInv DEF RelayInv
<1> SUFFICES ASSUME NEW p \in Packets, pc'[p] = "relay"
             PROVE  found'[p] \in Conns /\ conn'[found'[p]] # "new" /\ Explained(p)'
  BY <1>1 DEF RelayInv, HoldsRegistered, ReplyAddressExplained, Explained
<1>2. pc[p] = "relay" => found[p] \in Conns /\ conn[found[p]] # "new" /\ Explained(p)
  BY DEF RelayInv, HoldsRegistered, ReplyAddressExplained, Explained
<1>3. CASE TableStep
  BY <1>1, <1>3, SettledExplained, WorkingExplained DEF Explained
<1>4. CASE \E q \in Packets : Forward(q)
  BY <1>2, <1>4 DEF Forward, vars, table, handlers, Explained
<1>5. ASSUME NEW q \in Packets, Ends(q)
      PROVE  found'[p] \in Conns /\ conn'[found'[p]] # "new" /\ Explained(p)'
  <2>1. q # p
    BY <1>5 DEF Ends, Relay, HandlerReturns, RelayInv, IInv, TypeOK
  <2>2. QED
    BY <1>2, <1>5, <2>1 DEF Ends, Relay, HandlerReturns, table, RelayInv, IInv, TypeOK, Explained
<1>6. CASE UNCHANGED relayVars
  BY <1>2, <1>6 DEF relayVars, relay, vars, table, handlers, Explained
<1>7. QED
  BY <1>3, <1>4, <1>5, <1>6 DEF RelayNext, GiveUp, Reply

(* While a second association is stored, the answer goes to the source of the
   datagram, or for a client on a loopback address at least to its port. *)
THEOREM ReplyAddressCorrect == RelaySpec => []ReplyAddressExplained
<1>1. RelayInit => RelayInv
  BY InitInv DEF RelayInit, RelayInv, Init, HoldsRegistered, ReplyAddressExplained
<1>2. RelayInv => ReplyAddressExplained
  BY DEF RelayInv
<1>3. QED
  BY <1>1, <1>2, NextRelayInv, PTL DEF RelaySpec
=============================================================================
