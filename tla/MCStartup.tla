----------------------------- MODULE MCStartup -----------------------------
(***************************************************************************)
(* Model-checking instance of three parts of the start-up that share no    *)
(* state while they run: from the environment to the child's               *)
(* configuration, from the API's answer to the tunnel, and the probe.  A   *)
(* behaviour is one of one part, with the other two at rest, so that their *)
(* states add up.                                                          *)
(***************************************************************************)
EXTENDS Naturals

CONSTANTS
    Words, NoAuth, NoFile, Torn,                            \* of the configuration
    Ports, WGPort, NoPort,                                  \* of the tunnel
    MaxTargets, RetryWindow, RetryInterval, Timeout         \* of the probe

ASSUME WordsAssumption == Words \cap {"", "unspecified"} = {} /\ NoAuth \notin Words \X Words
ASSUME PortsAssumption == Ports \subseteq Nat \ {0} /\ WGPort \in Ports /\ NoPort \notin Nat
ASSUME TimesAssumption ==
    {MaxTargets, RetryWindow, RetryInterval, Timeout} \subseteq Nat \ {0}

VARIABLES
    part,   \* the part that runs
    env, configPc, listen, prober, config, file, server,
    device, stack, planPc, state, desired, plan,
    n, now, probePc, target, since, working, workingAt, cancelledAt, result

Config == INSTANCE Configuration WITH pc <- configPc
Tunnel == INSTANCE TunnelPlan WITH pc <- planPc
Probe == INSTANCE Prober WITH pc <- probePc

configVars == <<env, configPc, listen, prober, config, file, server>>
tunnelVars == <<device, stack, planPc, state, desired, plan>>
probeVars == <<n, now, probePc, target, since, working, workingAt, cancelledAt, result>>
vars == <<part, configVars, tunnelVars, probeVars>>

(* One of the initial states of a part, for when it is at rest. *)
ConfigRests ==
    /\ env = [uname |-> "", upwd |-> "", stack |-> "", backend |-> "", health |-> "",
              publicPort |-> "", probeURL |-> ""]
    /\ Config!Init
TunnelRests ==
    /\ stack = "dual"
    /\ device = [v4 |-> Tunnel!Empty, v6 |-> Tunnel!Empty, host |-> Tunnel!Empty, addresses |-> {},
                 tunnelType |-> "", policy |-> "", curve |-> FALSE]
    /\ Tunnel!Init
ProbeRests == n = 1 /\ working = {} /\ Probe!Init

Init ==
    /\ part \in {"config", "tunnel", "probe"}
    /\ IF part = "config" THEN Config!Init ELSE ConfigRests
    /\ IF part = "tunnel" THEN Tunnel!Init ELSE TunnelRests
    /\ IF part = "probe" THEN Probe!Init ELSE ProbeRests

Next ==
    \/ part = "config" /\ Config!Next /\ UNCHANGED <<part, tunnelVars, probeVars>>
    \/ part = "tunnel" /\ Tunnel!Next /\ UNCHANGED <<part, configVars, probeVars>>
    \/ part = "probe" /\ Probe!Next /\ UNCHANGED <<part, configVars, tunnelVars>>

Spec == Init /\ [][Next]_vars
-----------------------------------------------------------------------------
(* The type invariants of the parts. *)
TypeOK == Config!TypeOK /\ Tunnel!TypeOK /\ Probe!TypeOK

(* See Configuration: prober and child have the same credentials, and a part of
   them is never taken for none. *)
CredentialsAgree == Config!CredentialsAgree

(* See Configuration: the child never serves with an earlier run's file. *)
ServesThisConfig == Config!ServesThisConfig

(* See TunnelPlan: endpoint, bypass route, port and tunnel routes fit together. *)
EndpointFits == Tunnel!EndpointFits

(* See Prober: Check ends in time, by itself or with its context. *)
ProbeInTime == Probe!ProbeInTime

(* See Prober: a tunnel that comes up late is found. *)
LateTunnelFound == Probe!LateTunnelFound
=============================================================================
