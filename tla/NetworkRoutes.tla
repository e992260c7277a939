---------------------------- MODULE NetworkRoutes ----------------------------
(***************************************************************************)
(* What becomes of the host routes Network installs, and which of them a   *)
(* cleanup cannot find again.  router.Manager remembers the routes of its  *)
(* last Apply only (internal/router/router.go:87): an Apply that follows   *)
(* another without a Cleanup overwrites them.                              *)
(***************************************************************************)
EXTENDS Network

VARIABLE forgotten  \* history: routes dropped from m.bypassRoutes by an Apply, or
                    \* never recorded in it because the command failed, or the process died

routeVars == <<vars, forgotten>>

RoutesInit == Init /\ forgotten = {}

(* The steps that may leave a route in the kernel which the manager does not
   know, and all the others, which may not. *)
Forgetting == ApplyBypass \/ Crash
Remembering ==
    \/ \E p \in Peers \cup {NoPeer} : CallApply(p)
    \/ ApplyDel \/ ApplyAdd \/ ApplyConf \/ ApplyUp
    \/ Discover("v4", "disc4", "disc6") \/ Discover("v6", "disc6", "bypass")
    \/ ApplyTunnel("v4", "tun4", "tun6") \/ ApplyTunnel("v6", "tun6", "idle")
    \/ CallCleanup \/ CleanupBypass
    \/ Restore("v4", "restore4", "restore6") \/ Restore("v6", "restore6", "unlink")
    \/ CleanupDel

RoutesNext ==
    \/ Forgetting /\ forgotten' = forgotten \cup (bypass' \ bypassRoutes')
    \/ Remembering /\ UNCHANGED forgotten

RoutesSpec == RoutesInit /\ [][RoutesNext]_routeVars
-----------------------------------------------------------------------------
(* After a Cleanup without an error the only host routes left are those the
   manager was made to forget, by an Apply over another or whose command failed,
   or by a crash: a cleanup that failed and was repeated loses none. *)
LeftoverRoutesForgotten ==
    pc = "idle" /\ op = "cleanup" /\ ~failed => bypass \subseteq forgotten
=============================================================================
