------------------------------- MODULE Network -------------------------------
(***************************************************************************)
(* The network manager: legacyNetworkManager                               *)
(* (cmd/warp-socksd/legacy_backend.go) over wgdev.Manager                  *)
(* (internal/wgdev/device.go) and router.Manager                           *)
(* (internal/router/router.go), on the kernel's link and routing tables.   *)
(*                                                                         *)
(* One step is one `ip` or `wg` command.  Any command may fail, with or    *)
(* without its effect: each is a process of its own, run under a context   *)
(* (system.ExecRunner).  The caller may apply again without cleaning up,   *)
(* as App.Run does after a failed start; where the network namespace       *)
(* outlives the process, the process may be killed at any step.            *)
(***************************************************************************)

CONSTANTS
    PeersV4, PeersV6,   \* peer endpoint addresses, by family
    NoPeer              \* an endpoint known by its host name only: no address to route around

ASSUME PeersAssumption == PeersV4 \cap PeersV6 = {} /\ NoPeer \notin PeersV4 \cup PeersV6

VARIABLES
    stack,      \* the families of cfg.ProxyStack
    uplink,     \* uplink[f]: the default route the namespace was given
    link,       \* the WireGuard link
    linkPeer,   \* the peer endpoint set in it
    byName,     \* it is one that `wg` resolved from a host name
    default,    \* default[f]: the default route installed
    bypass,     \* the host routes to peer endpoints
    original,   \* originalV4 and originalV6
    bypassRoutes, \* m.bypassRoutes
    pc,         \* the next command
    op,         \* the operation running or run last
    peer,       \* the endpoint it was given
    failed,     \* an error was met: the operation returns it at its end
    unclean,    \* history: a cleaning command failed and the link was not deleted since
    stranded    \* history: the process was killed while a default route was replaced

kernel == <<link, linkPeer, byName, default, bypass>>
manager == <<original, bypassRoutes>>
vars == <<stack, uplink, kernel, manager, pc, op, peer, failed, unclean, stranded>>

Families == {"v4", "v6"}
Peers == PeersV4 \cup PeersV6
Family(p) == IF p \in PeersV4 THEN "v4" ELSE "v6"

Applying == {"del", "add", "conf", "up", "disc4", "disc6", "bypass", "tun4", "tun6"}
Cleaning == {"unbypass", "restore4", "restore6", "unlink"}

(* Every variable has its type. *)
TypeOK ==
    /\ stack \in SUBSET Families
    /\ uplink \in [Families -> {"none", "eth"}]
    /\ link \in {"absent", "down", "up"}
    /\ linkPeer \in Peers \cup {NoPeer}
    /\ default \in [Families -> {"none", "eth", "tun"}]
    /\ bypass \in SUBSET Peers
    /\ original \in [Families -> {"none", "eth", "tun"}]
    /\ bypassRoutes \in SUBSET Peers
    /\ pc \in Applying \cup Cleaning \cup {"idle"}
    /\ op \in {"none", "apply", "cleanup"}
    /\ peer \in Peers \cup {NoPeer}
    /\ {byName, failed, unclean, stranded} \subseteq BOOLEAN

Init ==
    /\ stack \in (SUBSET Families) \ {{}}
    /\ uplink \in [Families -> {"none", "eth"}]
    /\ link = "absent" /\ linkPeer = NoPeer /\ byName = FALSE
    /\ default = uplink
    /\ bypass = {}
    /\ original = [f \in Families |-> "none"]
    /\ bypassRoutes = {}
    /\ pc = "idle" /\ op = "none" /\ peer = NoPeer /\ failed = FALSE
    /\ unclean = FALSE /\ stranded = FALSE
-----------------------------------------------------------------------------
(* The commands, by their effect on the kernel *)

(* `ip link del`: the routes through the link go with it; that there is no
   link is no error. *)
Delete ==
    /\ link' = "absent"
    /\ linkPeer' = NoPeer /\ byName' = FALSE
    /\ default' = [f \in Families |-> IF default[f] = "tun" THEN "none" ELSE default[f]]
    /\ UNCHANGED bypass

(* `ip route show default`: no route and no IPv6 at all are the same. *)
discoverDefaultRoute(f) == default[f]

(* `ip route replace default`. *)
replaceDefault(f, route) ==
    /\ default' = [default EXCEPT ![f] = route]
    /\ UNCHANGED <<link, linkPeer, byName, bypass>>

restoreDefaultRoute(f) == replaceDefault(f, original[f])

(* `ip route replace` of the host route to a peer. *)
applyRoute(p) == bypass' = bypass \cup {p} /\ UNCHANGED <<link, linkPeer, byName, default>>

(* `ip route del`: that there is no such route is no error. *)
deleteRoutes(ps) == bypass' = bypass \ ps /\ UNCHANGED <<link, linkPeer, byName, default>>

(* A command that runs: it works, or it fails with its effect done or not. *)
Command(effect, success, failure) ==
    \/ effect /\ success
    \/ (effect \/ UNCHANGED kernel) /\ failure

Then(next) == pc' = next /\ UNCHANGED failed

(* wgdev.Manager.Apply returns its error at once; nothing is undone. *)
Abandon == pc' = "idle" /\ failed' = TRUE

(* After an error of router.Manager.Apply: routes.Cleanup, then wg.Delete. *)
RollBack == pc' = "unbypass" /\ failed' = TRUE
-----------------------------------------------------------------------------
(* Apply *)

CallApply(p) ==
    /\ pc = "idle"
    /\ pc' = "del"
    /\ op' = "apply"
    /\ peer' = p
    /\ failed' = FALSE
    /\ UNCHANGED <<stack, uplink, stranded, kernel, manager, unclean>>

(* Mutation: a link that is there already is used again. *)
ApplyDelReuse ==
    /\ pc = "del"
    /\ Then(IF link = "absent" THEN "add" ELSE "conf")
    /\ UNCHANGED <<stack, uplink, stranded, kernel, manager, op, peer, unclean>>

(* Apply starts by deleting the link; that there is none is no error. *)
ApplyDel ==
    /\ pc = "del"
    /\ \/ Delete /\ Then("add") /\ unclean' = FALSE
       \/ (Delete \/ UNCHANGED kernel) /\ Abandon /\ UNCHANGED unclean
    /\ UNCHANGED <<stack, uplink, stranded, manager, op, peer>>

ApplyAdd ==
    /\ pc = "add"
    /\ Command(link' = "down" /\ UNCHANGED <<linkPeer, byName, default, bypass>>, Then("conf"), Abandon)
    /\ UNCHANGED <<stack, uplink, stranded, manager, op, peer, unclean>>

(* `wg setconf` takes the endpoint it is given; of a host name it takes an
   address it resolves, which nobody else learns. *)
setConf ==
    /\ linkPeer' \in IF peer = NoPeer THEN Peers ELSE {peer}
    /\ byName' = (peer = NoPeer)
    /\ UNCHANGED <<link, default, bypass>>

(* writeSetConf, wg setconf and the interface addresses. *)
ApplyConf ==
    /\ pc = "conf"
    /\ Command(setConf, Then("up"), Abandon)
    /\ UNCHANGED <<stack, uplink, stranded, manager, op, peer, unclean>>

ApplyUp ==
    /\ pc = "up"
    /\ Command(link' = "up" /\ UNCHANGED <<linkPeer, byName, default, bypass>>, Then("disc4"), Abandon)
    /\ UNCHANGED <<stack, uplink, stranded, manager, op, peer, unclean>>

(* discoverDefaultRoute, only while no original route of f is known. *)
Discover(f, step, next) ==
    /\ pc = step
    /\ \/ original[f] # "none" /\ Then(next) /\ UNCHANGED original
       \/ /\ original[f] = "none"
          /\ original' = [original EXCEPT ![f] = discoverDefaultRoute(f)]
          /\ Then(next)
       \/ original[f] = "none" /\ RollBack /\ UNCHANGED original
    /\ UNCHANGED <<stack, uplink, stranded, kernel, bypassRoutes, op, peer, unclean>>

(* Mutation: the routes to replace are applied without a way around the tunnel. *)
ApplyBypassSkipped ==
    /\ pc = "bypass"
    /\ bypassRoutes' = {peer} \ {NoPeer}
    /\ Then("tun4")
    /\ UNCHANGED <<stack, uplink, stranded, kernel, original, op, peer, unclean>>

(* The host route to the peer, through the original default route of its
   family, which must be known; then m.bypassRoutes is overwritten. *)
ApplyBypass ==
    /\ pc = "bypass"
    /\ \/ /\ peer = NoPeer
          /\ bypassRoutes' = {}
          /\ Then("tun4")
          /\ UNCHANGED kernel
       \/ /\ peer # NoPeer /\ original[Family(peer)] = "none"
          /\ RollBack
          /\ UNCHANGED <<kernel, bypassRoutes>>
       \/ /\ peer # NoPeer /\ original[Family(peer)] # "none"
          /\ Command(applyRoute(peer),
                     bypassRoutes' = {peer} /\ Then("tun4"),
                     RollBack /\ UNCHANGED bypassRoutes)
    /\ UNCHANGED <<stack, uplink, stranded, original, op, peer, unclean>>

(* Mutation: the error of the command is ignored. *)
ApplyTunnelUnchecked(f, step, next) ==
    /\ pc = step
    /\ \/ f \notin stack /\ Then(next) /\ UNCHANGED kernel
       \/ f \in stack /\ Command(replaceDefault(f, "tun"), Then(next), Then(next))
    /\ UNCHANGED <<stack, uplink, stranded, manager, op, peer, unclean>>

(* The default route of f is replaced, if the stack mode has f. *)
ApplyTunnel(f, step, next) ==
    /\ pc = step
    /\ \/ f \notin stack /\ Then(next) /\ UNCHANGED kernel
       \/ f \in stack /\ Command(replaceDefault(f, "tun"), Then(next), RollBack)
    /\ UNCHANGED <<stack, uplink, stranded, manager, op, peer, unclean>>
-----------------------------------------------------------------------------
(* Cleanup, of the caller or within Apply *)

CallCleanup ==
    /\ pc = "idle"
    /\ pc' = "unbypass"
    /\ op' = "cleanup"
    /\ failed' = FALSE
    /\ UNCHANGED <<stack, uplink, stranded, kernel, manager, peer, unclean>>

(* router.Manager.Cleanup returns at its first error; the link is deleted all
   the same. *)
CleanupFails == pc' = "unlink" /\ failed' = TRUE /\ unclean' = TRUE

(* Mutation: the saved routes are forgotten before the defaults are restored. *)
CleanupBypassForgets ==
    /\ pc = "unbypass"
    /\ Command(deleteRoutes(bypassRoutes),
               /\ bypassRoutes' = {}
               /\ original' = [f \in Families |-> "none"]
               /\ Then("restore4") /\ UNCHANGED unclean,
               CleanupFails /\ UNCHANGED manager)
    /\ UNCHANGED <<stack, uplink, stranded, op, peer>>

(* Mutation: routes that could not be deleted are forgotten. *)
CleanupBypassDrops ==
    /\ pc = "unbypass"
    /\ Command(deleteRoutes(bypassRoutes),
               Then("restore4") /\ UNCHANGED unclean,
               CleanupFails)
    /\ bypassRoutes' = {}
    /\ UNCHANGED <<stack, uplink, stranded, original, op, peer>>

(* The bypass routes are deleted; that one is missing is no error. *)
CleanupBypass ==
    /\ pc = "unbypass"
    /\ \/ bypassRoutes = {} /\ Then("restore4") /\ UNCHANGED <<kernel, bypassRoutes, unclean>>
       \/ /\ bypassRoutes # {}
          /\ Command(deleteRoutes(bypassRoutes),
                     bypassRoutes' = {} /\ Then("restore4") /\ UNCHANGED unclean,
                     CleanupFails /\ UNCHANGED bypassRoutes)
    /\ UNCHANGED <<stack, uplink, stranded, original, op, peer>>

(* restoreDefaultRoute, where an original route is known. *)
Restore(f, step, next) ==
    /\ pc = step
    /\ \/ original[f] = "none" /\ Then(next) /\ UNCHANGED <<kernel, unclean>>
       \/ /\ original[f] # "none"
          /\ Command(restoreDefaultRoute(f), Then(next) /\ UNCHANGED unclean, CleanupFails)
    /\ UNCHANGED <<stack, uplink, stranded, manager, op, peer>>

(* wgdev.Manager.Delete, after routes.Cleanup worked or not. *)
CleanupDel ==
    /\ pc = "unlink"
    /\ pc' = "idle"
    /\ \/ Delete /\ unclean' = FALSE /\ UNCHANGED failed
       \/ (Delete \/ UNCHANGED kernel) /\ unclean' = TRUE /\ failed' = TRUE
    /\ UNCHANGED <<stack, uplink, stranded, manager, op, peer>>

(* The process is killed; its successor knows nothing of the routes. *)
Crash ==
    /\ original' = [f \in Families |-> "none"]
    /\ bypassRoutes' = {}
    /\ pc' = "idle" /\ op' = "none" /\ peer' = NoPeer /\ failed' = FALSE
    /\ stranded' = (stranded \/ default # uplink)
    /\ UNCHANGED <<stack, uplink, kernel, unclean>>
-----------------------------------------------------------------------------
Next ==
    \/ \E p \in Peers \cup {NoPeer} : CallApply(p)
    \/ ApplyDel \/ ApplyAdd \/ ApplyConf \/ ApplyUp
    \/ Discover("v4", "disc4", "disc6") \/ Discover("v6", "disc6", "bypass")
    \/ ApplyBypass
    \/ ApplyTunnel("v4", "tun4", "tun6") \/ ApplyTunnel("v6", "tun6", "idle")
    \/ CallCleanup \/ CleanupBypass
    \/ Restore("v4", "restore4", "restore6") \/ Restore("v6", "restore6", "unlink")
    \/ CleanupDel
    \/ Crash

Spec == Init /\ [][Next]_vars
-----------------------------------------------------------------------------
(* The route saved as the original default is never the tunnel's own, although
   Apply may run while an earlier tunnel's default route is installed: after a
   start that failed, or after a crash. *)
NeverCapturesTunnel == \A f \in Families : original[f] # "tun"

(* While traffic of the peer's family is sent into the tunnel, the tunnel's own
   packets have a route around it, unless the endpoint was given by its host
   name only: selectPeerEndpoint falls back to the name, `wg` resolves it, and
   BuildPlan plans no route.  Also exempt are the window inside a cleanup, a
   cleanup whose commands failed, and a successor of a process that was killed
   while a default route was replaced: it cannot know the given one. *)
NoRoutingLoop ==
    /\ linkPeer \in Peers
    /\ default[Family(linkPeer)] = "tun"
    /\ pc \notin Cleaning
    /\ ~unclean /\ ~stranded
    => linkPeer \in bypass \/ byName

(* A routing plan has a route around the tunnel to the peer's endpoint
   (router_test.go: "expected endpoint bypass route").  The code does not keep
   this for an endpoint it knows by name: Apply returns without an error and the
   tunnel's own packets are sent into the tunnel. *)
EndpointBypassed ==
    /\ pc = "idle" /\ op = "apply" /\ ~failed
    /\ default[Family(linkPeer)] = "tun"
    => linkPeer \in bypass

(* When Apply returns without an error the tunnel to the peer it was given, or
   to one its name was resolved to, is up and takes the traffic of the families
   of the stack mode; the other family keeps the default route it had. *)
ApplyEstablishes ==
    pc = "idle" /\ op = "apply" /\ ~failed =>
        /\ link = "up" /\ linkPeer \in Peers
        /\ linkPeer = peer \/ peer = NoPeer
        /\ \A f \in stack : default[f] = "tun"
        /\ \A f \in Families \ stack : default[f] = uplink[f]

(* When Cleanup returns without an error the link is gone, and the default
   routes are those the namespace was given, whatever sequence of applies,
   failures and cleanups came before, unless a process was killed while one
   was replaced. *)
CleanupRestores ==
    pc = "idle" /\ op = "cleanup" /\ ~failed =>
        link = "absent" /\ (~stranded => default = uplink)
=============================================================================
