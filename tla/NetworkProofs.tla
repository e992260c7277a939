---------------------------- MODULE NetworkProofs ----------------------------
(***************************************************************************)
(* Proofs about the network manager and the routes it leaves behind, for   *)
(* any sets of peers and with crashes at any command.                      *)
(***************************************************************************)
EXTENDS NetworkRoutes, TLAPS

LEMMA InitType == Init => TypeOK
<1> SUFFICES ASSUME Init PROVE TypeOK
  OBVIOUS
<1>1. {byName, failed, unclean, stranded} \subseteq BOOLEAN
  BY Zenon DEF Init
<1>2. QED
  BY <1>1 DEF Init, TypeOK, Families, Applying, Cleaning, Peers

(* The kernel's part of TypeOK. *)
KernelOK ==
    /\ link \in {"absent", "down", "up"}
    /\ linkPeer \in Peers \cup {NoPeer} /\ byName \in BOOLEAN
    /\ default \in [Families -> {"none", "eth", "tun"}]
    /\ bypass \in SUBSET Peers

LEMMA CommandType ==
    ASSUME TypeOK,
           \/ Delete \/ setConf \/ UNCHANGED kernel
           \/ \E p \in Peers : applyRoute(p)
           \/ \E ps \in SUBSET Peers : deleteRoutes(ps)
           \/ \E f \in Families, d \in {"none", "eth", "tun"} : replaceDefault(f, d)
    PROVE  KernelOK'
<1> USE DEF TypeOK, KernelOK
<1>1. CASE Delete
  BY <1>1 DEF Delete
<1>2. CASE UNCHANGED kernel
  BY <1>2 DEF kernel
<1>3. CASE \E p \in Peers : applyRoute(p)
  BY <1>3 DEF applyRoute
<1>4. CASE \E ps \in SUBSET Peers : deleteRoutes(ps)
  BY <1>4 DEF deleteRoutes
<1>5. CASE \E f \in Families, d \in {"none", "eth", "tun"} : replaceDefault(f, d)
  BY <1>5 DEF replaceDefault
<1>6. CASE setConf
  BY <1>6 DEF setConf
<1>7. QED
  BY <1>1, <1>2, <1>3, <1>4, <1>5, <1>6

(* The steps of Apply. *)
LEMMA ApplyType ==
    ASSUME TypeOK,
           \/ \E p \in Peers \cup {NoPeer} : CallApply(p)
           \/ ApplyDel \/ ApplyAdd \/ ApplyConf \/ ApplyUp \/ ApplyBypass
           \/ Discover("v4", "disc4", "disc6") \/ Discover("v6", "disc6", "bypass")
           \/ ApplyTunnel("v4", "tun4", "tun6") \/ ApplyTunnel("v6", "tun6", "idle")
    PROVE  TypeOK'
<1> USE DEF TypeOK, KernelOK, Applying, Cleaning, Then, Abandon, RollBack, Command
<1>1. CASE \E p \in Peers \cup {NoPeer} : CallApply(p)
  BY <1>1 DEF CallApply, kernel, manager
<1>2. CASE ApplyDel
  <2>1. KernelOK'
    BY <1>2, CommandType DEF ApplyDel
  <2>2. QED
    BY <1>2, <2>1 DEF ApplyDel, manager
<1>3. CASE ApplyAdd
  BY <1>3 DEF ApplyAdd, kernel, manager
<1>4. CASE ApplyConf
  <2>1. KernelOK'
    BY <1>4, CommandType DEF ApplyConf
  <2>2. QED
    BY <1>4, <2>1 DEF ApplyConf, manager
<1>5. CASE ApplyUp
  BY <1>5 DEF ApplyUp, kernel, manager
<1>6. CASE ApplyBypass
  <2>1. KernelOK'
    BY <1>6, CommandType DEF ApplyBypass
  <2>2. bypassRoutes' \in SUBSET Peers
    BY <1>6 DEF ApplyBypass
  <2>3. QED
    BY <1>6, <2>1, <2>2 DEF ApplyBypass
<1>7. ASSUME NEW f \in Families, NEW step, NEW next \in Applying, Discover(f, step, next)
      PROVE  TypeOK'
  BY <1>7, ZenonT(30) DEF Discover, discoverDefaultRoute, kernel
<1>8. ASSUME NEW f \in Families, NEW step, NEW next \in Applying \cup {"idle"},
             ApplyTunnel(f, step, next)
      PROVE  TypeOK'
  <2>1. KernelOK'
    BY <1>8, CommandType DEF ApplyTunnel
  <2>2. QED
    BY <1>8, <2>1 DEF ApplyTunnel, manager
<1>9. QED
  BY <1>1, <1>2, <1>3, <1>4, <1>5, <1>6, <1>7, <1>8 DEF Families

(* The steps of Cleanup, and a crash. *)
LEMMA CleanupType ==
    ASSUME TypeOK,
           \/ CallCleanup \/ CleanupBypass \/ CleanupDel \/ Crash
           \/ Restore("v4", "restore4", "restore6") \/ Restore("v6", "restore6", "unlink")
    PROVE  TypeOK'
<1> USE DEF TypeOK, KernelOK, Applying, Cleaning, Then, CleanupFails, Command
<1>1. CASE CallCleanup
  BY <1>1 DEF CallCleanup, kernel, manager
<1>2. CASE CleanupBypass
  <2>1. KernelOK'
    BY <1>2, CommandType DEF CleanupBypass
  <2>2. QED
    BY <1>2, <2>1 DEF CleanupBypass
<1>3. ASSUME NEW f \in Families, NEW step, NEW next \in Cleaning, Restore(f, step, next)
      PROVE  TypeOK'
  <2>1. KernelOK'
    BY <1>3, CommandType DEF Restore, restoreDefaultRoute
  <2>2. QED
    BY <1>3, <2>1 DEF Restore, manager
<1>4. CASE CleanupDel
  <2>1. KernelOK'
    BY <1>4, CommandType DEF CleanupDel
  <2>2. QED
    BY <1>4, <2>1 DEF CleanupDel, manager
<1>5. CASE Crash
  BY <1>5 DEF Crash, kernel
<1>6. QED
  BY <1>1, <1>2, <1>3, <1>4, <1>5 DEF Families

LEMMA NextType == TypeOK /\ [Next]_vars => TypeOK'
<1> SUFFICES ASSUME TypeOK, [Next]_vars PROVE TypeOK'
  OBVIOUS
<1>1. CASE UNCHANGED vars
  BY <1>1 DEF vars, TypeOK, kernel, manager
<1>2. QED
  BY <1>1, ApplyType, CleanupType DEF Next

(* Every command, failed or not, keeps the types. *)
THEOREM TypeCorrect == Spec => []TypeOK
BY InitType, NextType, PTL DEF Spec
-----------------------------------------------------------------------------
(* The part of the invariant that survives crashes. *)

(* Apply runs with no error so far; an Apply that cleans up has met one. *)
Flow ==
    /\ pc \in Applying => op = "apply" /\ ~failed
    /\ pc \in Cleaning /\ op = "apply" => failed

(* What Apply has established when it reaches a step. *)
Established ==
    /\ pc \in {"up", "disc4", "disc6", "bypass", "tun4", "tun6"} =>
          /\ linkPeer \in Peers
          /\ linkPeer = peer \/ (peer = NoPeer /\ byName)
    /\ pc \in {"disc4", "disc6", "bypass", "tun4", "tun6"} => link = "up"
    /\ pc = "tun6" /\ "v4" \in stack => default["v4"] = "tun"

(* Once Apply has deleted the link no default route leads into a tunnel, until
   it installs its own. *)
NoTunnelDefault ==
    pc \in {"add", "conf", "up", "disc4", "disc6", "bypass", "tun4"} =>
        \A f \in Families : default[f] # "tun"

(* Default routes are the given ones or the tunnel's, and only in the families
   of the stack mode the tunnel's; what is saved is what was given. *)
Routes ==
    \A f \in Families :
        /\ default[f] \in {"none", "tun", uplink[f]}
        /\ original[f] \in {"none", uplink[f]}
        /\ f \notin stack => default[f] = uplink[f]

IInv == TypeOK /\ Flow /\ Established /\ NoTunnelDefault /\ Routes /\ ApplyEstablishes

LEMMA InitInv == Init => IInv
<1> SUFFICES ASSUME Init PROVE IInv
  OBVIOUS
<1>1. TypeOK
  BY InitType
<1>2. Flow /\ Established /\ NoTunnelDefault /\ Routes /\ ApplyEstablishes
  BY <1>1 DEF Init, TypeOK, Flow, Established, NoTunnelDefault, Routes, ApplyEstablishes, Applying, Cleaning
<1>3. QED
  BY <1>1, <1>2 DEF IInv

LEMMA NextInv == IInv /\ [Next]_vars => IInv'
<1> SUFFICES ASSUME IInv, [Next]_vars PROVE IInv'
  OBVIOUS
<1>0. TypeOK'
  BY NextType DEF IInv
<1> USE <1>0 DEF IInv, TypeOK, Flow, Established, NoTunnelDefault, Routes, ApplyEstablishes,
           Applying, Cleaning, kernel, manager, Then
<1>1. CASE \E p \in Peers \cup {NoPeer} : CallApply(p)
  BY <1>1 DEF CallApply
<1>2. CASE ApplyDel
  BY <1>2 DEF ApplyDel, Delete, Abandon
<1>3. CASE ApplyAdd
  BY <1>3 DEF ApplyAdd, Command, Abandon
<1>4. CASE ApplyConf
  BY <1>4 DEF ApplyConf, setConf, Command, Abandon
<1>5. CASE ApplyUp
  BY <1>5 DEF ApplyUp, Command, Abandon
<1>6. CASE Discover("v4", "disc4", "disc6")
  BY <1>6 DEF Discover, RollBack, discoverDefaultRoute, Families
<1>7. CASE Discover("v6", "disc6", "bypass")
  BY <1>7 DEF Discover, RollBack, discoverDefaultRoute, Families
<1>8. CASE ApplyBypass
  BY <1>8 DEF ApplyBypass, Command, applyRoute, RollBack
<1>9. CASE ApplyTunnel("v4", "tun4", "tun6")
  BY <1>9 DEF ApplyTunnel, Command, replaceDefault, RollBack, Families
<1>10. CASE ApplyTunnel("v6", "tun6", "idle")
  BY <1>10 DEF ApplyTunnel, Command, replaceDefault, RollBack, Families
<1>11. CASE CallCleanup
  BY <1>11 DEF CallCleanup
<1>12. CASE CleanupBypass
  BY <1>12 DEF CleanupBypass, Command, deleteRoutes, CleanupFails
<1>13. CASE Restore("v4", "restore4", "restore6")
  BY <1>13 DEF Restore, Command, restoreDefaultRoute, replaceDefault, CleanupFails, Families
<1>14. CASE Restore("v6", "restore6", "unlink")
  BY <1>14 DEF Restore, Command, restoreDefaultRoute, replaceDefault, CleanupFails, Families
<1>15. CASE CleanupDel
  BY <1>15 DEF CleanupDel, Delete
<1>16. CASE Crash
  BY <1>16 DEF Crash
<1>17. CASE UNCHANGED vars
  BY <1>17 DEF vars
<1>18. QED
  BY <1>1, <1>2, <1>3, <1>4, <1>5, <1>6, <1>7, <1>8, <1>9, <1>10, <1>11, <1>12, <1>13, <1>14,
     <1>15, <1>16, <1>17 DEF Next

(* A successful Apply establishes the tunnel to its peer, also after a crash. *)
THEOREM ApplyCorrect == Spec => []ApplyEstablishes
<1>1. IInv => ApplyEstablishes
  BY DEF IInv
<1>2. QED
  BY <1>1, InitInv, NextInv, PTL DEF Spec

(* The tunnel's own default route is never saved as the original one, also
   when Apply runs over the leftovers of a process that was killed. *)
THEOREM CaptureCorrect == Spec => []NeverCapturesTunnel
<1>1. IInv => NeverCapturesTunnel
  BY DEF IInv, TypeOK, Routes, NeverCapturesTunnel
<1>2. QED
  BY <1>1, InitInv, NextInv, PTL DEF Spec
-----------------------------------------------------------------------------
(* The part that rests on what the manager keeps in memory: it holds until a
   process is killed while a default route is replaced. *)

(* A default route that is not saved has not been replaced; from the discovery
   on Apply knows the original routes. *)
Known ==
    /\ \A f \in Families : original[f] = "none" /\ uplink[f] = "eth" => default[f] = "eth"
    /\ pc \in {"disc6", "bypass", "tun4", "tun6"} => original["v4"] = uplink["v4"]
    /\ pc \in {"bypass", "tun4", "tun6"} => original["v6"] = uplink["v6"]

Bypassed == pc \in {"tun4", "tun6"} /\ peer \in Peers => peer \in bypass

Restored(f) == original[f] # "none" => default[f] = original[f]

(* What Cleanup has restored when it reaches a step without an error. *)
Restoring ==
    /\ pc = "restore6" => Restored("v4")
    /\ pc = "unlink" /\ ~failed => \A f \in Families : Restored(f)

Remembered == Known /\ Bypassed /\ Restoring

JInv == IInv /\ (~stranded => Remembered) /\ NoRoutingLoop /\ CleanupRestores

LEMMA InitJInv == Init => JInv
<1> SUFFICES ASSUME Init PROVE JInv
  OBVIOUS
<1>1. IInv
  BY InitInv
<1>2. Remembered /\ NoRoutingLoop /\ CleanupRestores
  BY PeersAssumption DEF Init, Remembered, Known, Bypassed, Restoring, NoRoutingLoop, CleanupRestores, Peers
<1>3. QED
  BY <1>1, <1>2 DEF JInv

LEMMA NextJInv == JInv /\ [Next]_vars => JInv'
<1> SUFFICES ASSUME JInv, [Next]_vars PROVE JInv'
  OBVIOUS
<1>0. IInv'
  BY NextInv DEF JInv
<1> USE <1>0 DEF JInv, IInv, TypeOK, Flow, Established, NoTunnelDefault, Routes, Remembered, Known, Bypassed,
           Restored, Restoring, NoRoutingLoop, CleanupRestores, Applying, Cleaning, kernel, manager, Then
<1>1. CASE \E p \in Peers \cup {NoPeer} : CallApply(p)
  BY <1>1 DEF CallApply
<1>2. CASE ApplyDel
  BY <1>2, PeersAssumption DEF ApplyDel, Delete, Abandon, Peers
<1>3. CASE ApplyAdd
  BY <1>3 DEF ApplyAdd, Command, Abandon, Family, Families
<1>4. CASE ApplyConf
  BY <1>4 DEF ApplyConf, setConf, Command, Abandon, Family, Families
<1>5. CASE ApplyUp
  BY <1>5 DEF ApplyUp, Command, Abandon, Family, Families
<1>6. CASE Discover("v4", "disc4", "disc6")
  BY <1>6 DEF Discover, RollBack, discoverDefaultRoute, Families
<1>7. CASE Discover("v6", "disc6", "bypass")
  BY <1>7 DEF Discover, RollBack, discoverDefaultRoute, Families
<1>8. CASE ApplyBypass
  BY <1>8, PeersAssumption DEF ApplyBypass, Command, applyRoute, RollBack, Peers, Family, Families
<1>9. CASE ApplyTunnel("v4", "tun4", "tun6")
  BY <1>9 DEF ApplyTunnel, Command, replaceDefault, RollBack, Families
<1>10. CASE ApplyTunnel("v6", "tun6", "idle")
  BY <1>10 DEF ApplyTunnel, Command, replaceDefault, RollBack, Families
<1>11. CASE CallCleanup
  BY <1>11 DEF CallCleanup
<1>12. CASE CleanupBypass
  BY <1>12 DEF CleanupBypass, Command, deleteRoutes, CleanupFails
<1>13. CASE Restore("v4", "restore4", "restore6")
  BY <1>13 DEF Restore, Command, restoreDefaultRoute, replaceDefault, CleanupFails, Families
<1>14. CASE Restore("v6", "restore6", "unlink")
  BY <1>14 DEF Restore, Command, restoreDefaultRoute, replaceDefault, CleanupFails, Families
<1>15. CASE CleanupDel
  BY <1>15, PeersAssumption DEF CleanupDel, Delete, Peers
<1>16. CASE Crash
  <2>1. ~stranded' => ~stranded /\ default = uplink
    BY <1>16, Zenon DEF Crash
  <2>2. NoRoutingLoop'
    BY <1>16, <2>1, PeersAssumption DEF Crash, Family, Families, Peers
  <2>3. ~stranded' => Remembered'
    BY <1>16, <2>1 DEF Crash, Families
  <2>4. CleanupRestores'
    BY <1>16 DEF Crash
  <2>5. QED
    BY <2>2, <2>3, <2>4
<1>17. CASE UNCHANGED vars
  BY <1>17 DEF vars
<1>18. QED
  BY <1>1, <1>2, <1>3, <1>4, <1>5, <1>6, <1>7, <1>8, <1>9, <1>10, <1>11, <1>12, <1>13, <1>14,
     <1>15, <1>16, <1>17 DEF Next

(* The tunnel's packets to an endpoint given by its address never loop, outside
   a cleanup or after a failed one,
   until a process is killed while a default route is replaced. *)
THEOREM LoopCorrect == Spec => []NoRoutingLoop
<1>1. JInv => NoRoutingLoop
  BY DEF JInv
<1>2. QED
  BY <1>1, InitJInv, NextJInv, PTL DEF Spec

(* A successful Cleanup removes the link and, under the same proviso, restores
   the default routes, whatever sequence of applies, failures, cleanups and
   crashes came before. *)
THEOREM CleanupCorrect == Spec => []CleanupRestores
<1>1. JInv => CleanupRestores
  BY DEF JInv
<1>2. QED
  BY <1>1, InitJInv, NextJInv, PTL DEF Spec
-----------------------------------------------------------------------------
(* The host routes: NetworkRoutes only watches the manager, ...             *)

LEMMA RoutesStep == [RoutesNext]_routeVars => [Next]_vars
BY DEF RoutesNext, routeVars, Forgetting, Remembering, Next

(* NetworkRoutes only watches legacyNetworkManager: what is proved of Apply and
   Cleanup above holds of it. *)
THEOREM RoutesRefine == RoutesSpec => Spec
BY RoutesStep, PTL DEF RoutesSpec, RoutesInit, Spec

(* ... a route in the kernel is known to the manager or counts as forgotten, ... *)
KnownOrForgotten == bypass \subseteq forgotten \cup bypassRoutes

(* ... and a cleanup without an error so far, past its first step, knows none. *)
NoneKnown == op = "cleanup" /\ ~failed /\ pc # "unbypass" => bypassRoutes = {}

RoutesInv == IInv /\ KnownOrForgotten /\ NoneKnown

LEMMA InitRoutesInv == RoutesInit => RoutesInv
BY InitInv DEF RoutesInit, RoutesInv, Init, KnownOrForgotten, NoneKnown

LEMMA NextRoutesInv == RoutesInv /\ [RoutesNext]_routeVars => RoutesInv'
<1> SUFFICES ASSUME RoutesInv, [RoutesNext]_routeVars PROVE RoutesInv'
  OBVIOUS
<1>1. IInv'
  BY RoutesStep, NextInv DEF RoutesInv
<1> USE DEF RoutesInv, KnownOrForgotten, NoneKnown, kernel, manager, Then
<1>2. CASE Forgetting /\ forgotten' = forgotten \cup (bypass' \ bypassRoutes')
  <2>1. KnownOrForgotten'
    BY <1>2
  <2>2. NoneKnown'
    BY <1>2 DEF Forgetting, ApplyBypass, Crash, IInv, Flow, Applying
  <2>3. QED
    BY <1>1, <2>1, <2>2
<1>3. CASE Remembering /\ UNCHANGED forgotten
  <2> USE <1>3
  <2>1. CASE \E p \in Peers \cup {NoPeer} : CallApply(p)
    BY <1>1, <2>1 DEF CallApply
  <2>2. CASE ApplyDel \/ ApplyAdd \/ ApplyConf \/ ApplyUp
    BY <1>1, <2>2 DEF ApplyDel, Delete, ApplyAdd, ApplyConf, setConf, ApplyUp, Command, Abandon, IInv, Flow,
       Applying
  <2>3. CASE Discover("v4", "disc4", "disc6") \/ Discover("v6", "disc6", "bypass")
    BY <1>1, <2>3 DEF Discover, RollBack, IInv, Flow, Applying
  <2>4. CASE ApplyTunnel("v4", "tun4", "tun6") \/ ApplyTunnel("v6", "tun6", "idle")
    BY <1>1, <2>4 DEF ApplyTunnel, Command, replaceDefault, RollBack, IInv, Flow, Applying
  <2>5. CASE CallCleanup
    BY <1>1, <2>5 DEF CallCleanup
  <2>6. CASE CleanupBypass
    BY <1>1, <2>6 DEF CleanupBypass, Command, deleteRoutes, CleanupFails
  <2>7. CASE Restore("v4", "restore4", "restore6") \/ Restore("v6", "restore6", "unlink")
    BY <1>1, <2>7 DEF Restore, Command, restoreDefaultRoute, replaceDefault, CleanupFails
  <2>8. CASE CleanupDel
    BY <1>1, <2>8 DEF CleanupDel, Delete
  <2>9. QED
    BY <2>1, <2>2, <2>3, <2>4, <2>5, <2>6, <2>7, <2>8 DEF Remembering
<1>4. CASE UNCHANGED routeVars
  BY <1>1, <1>4 DEF routeVars, vars
<1>5. QED
  BY <1>2, <1>3, <1>4 DEF RoutesNext

(* After a cleanup without an error the only host routes left are those an
   Apply over another, an Apply whose command failed or a crash made the
   manager forget. *)
THEOREM LeftoverRoutesCorrect == RoutesSpec => []LeftoverRoutesForgotten
<1>1. RoutesInv => LeftoverRoutesForgotten
  BY DEF RoutesInv, KnownOrForgotten, NoneKnown, LeftoverRoutesForgotten
<1>2. QED
  BY <1>1, InitRoutesInv, NextRoutesInv, PTL DEF RoutesSpec
=============================================================================
