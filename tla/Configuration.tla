---------------------------- MODULE Configuration ----------------------------
(***************************************************************************)
(* From the environment to the two programs that must agree on it: the     *)
(* daemon's prober and the SOCKS5 child, which gets its configuration      *)
(* through a file (cmd/warp-socksd/main.go, runtime_backend.go and         *)
(* legacy_backend.go, internal/config, internal/socks5/config.go).         *)
(*                                                                         *)
(* The credentials are read from the environment twice, by config.Load-    *)
(* FromEnv for the file and by newSOCKS5HTTPClient for the prober, each    *)
(* with its own idea of what is unset.  The file outlives the process,     *)
(* and writing it may fail half way.                                       *)
(***************************************************************************)
EXTENDS Naturals

CONSTANTS
    Words,      \* values of uname and upwd besides "" and "unspecified"
    NoAuth, NoFile,
    Torn        \* the contents of a file that was being written

VARIABLES
    env,        \* the environment of the container
    pc,
    listen,     \* cfg.HealthListenAddr
    prober,     \* the credentials and the targets of the prober
    config,     \* what LoadFromEnv returned
    file,       \* socks5.json
    server      \* the configuration the child serves with

vars == <<env, pc, listen, prober, config, file, server>>

Texts == Words \cup {"", "unspecified"}
Environments ==
    [uname : Texts, upwd : Texts,
     stack : {"", "unspecified", "4", "6", "other"},
     backend : {"", "legacy", "other"},
     health : {"", "host:port", "host", "nohost", "malformed"},
     publicPort : {"", "2080", "0", "text"},
     probeURL : {"", "url"}]

Auths == {NoAuth} \cup (Words \X Words)
FileConfigs == [auth : Auths, publicPort : {0, 1080, 2080}]
Unset == [auth |-> NoAuth, publicPort |-> 0]

(* Every variable has its type. *)
TypeOK ==
    /\ env \in Environments
    /\ pc \in {"load", "build", "config", "write", "spawn", "serving", "exited"}
    /\ listen \in {"", "host:port", "host"}
    /\ prober \in [auth : Auths, targets : 0..2]
    /\ config \in [auth : Auths, stack : {"", "dual", "4", "6"}]
    /\ file \in FileConfigs \cup {NoFile, Torn}
    /\ server \in FileConfigs

Reset(next) ==
    /\ pc' = next /\ listen' = ""
    /\ prober' = [auth |-> NoAuth, targets |-> 0]
    /\ config' = [auth |-> NoAuth, stack |-> ""]
    /\ server' = Unset

Init ==
    /\ env \in Environments
    /\ pc = "load" /\ listen = ""
    /\ prober = [auth |-> NoAuth, targets |-> 0]
    /\ config = [auth |-> NoAuth, stack |-> ""]
    /\ server = Unset
    /\ file = NoFile
-----------------------------------------------------------------------------
valueOrDefault(value, fallback) == IF value = "" THEN fallback ELSE value
normalizeOptional(value) == valueOrDefault(value, "unspecified")

(* A URL with a host, with a port or not, is taken as it is. *)
healthListenAddrFromURL == valueOrDefault(env.health, "host:port")

parseIntOrDefault(raw) == IF raw = "2080" THEN 2080 ELSE 1080

(* loadRuntimeConfig. *)
LoadRuntimeConfig ==
    /\ pc = "load"
    /\ \/ /\ healthListenAddrFromURL \in {"nohost", "malformed"}
             \/ valueOrDefault(env.backend, "legacy") # "legacy"
          /\ pc' = "exited" /\ UNCHANGED listen
       \/ /\ healthListenAddrFromURL \notin {"nohost", "malformed"}
          /\ valueOrDefault(env.backend, "legacy") = "legacy"
          /\ listen' = healthListenAddrFromURL /\ pc' = "build"
    /\ UNCHANGED <<env, prober, config, file, server>>

(* Mutation: the client of the prober has no credentials. *)
ClientAuthNone == NoAuth

(* newSOCKS5HTTPClient, given the environment as it is. *)
ClientAuth ==
    IF {env.uname, env.upwd} \cap {"", "unspecified"} # {} THEN NoAuth ELSE <<env.uname, env.upwd>>

(* buildLegacyRuntimeDependencies: newProberFunc, with both default targets or
   the one configured. *)
BuildDependencies ==
    /\ pc = "build"
    /\ prober' = [auth |-> ClientAuth, targets |-> IF env.probeURL = "" THEN 2 ELSE 1]
    /\ pc' = "config"
    /\ UNCHANGED <<env, listen, config, file, server>>

Given(value) == normalizeOptional(value) # "unspecified"

OnlyOne == Given(env.uname) # Given(env.upwd)

(* ConfigLoader: LoadFromEnv. *)
LoadFromEnv ==
    /\ pc = "config"
    /\ IF env.stack = "other" \/ OnlyOne
       THEN pc' = "exited" /\ UNCHANGED config
       ELSE /\ config' = [auth |-> IF Given(env.uname) /\ Given(env.upwd)
                                   THEN <<env.uname, env.upwd>> ELSE NoAuth,
                          stack |-> IF env.stack \in {"4", "6"} THEN env.stack ELSE "dual"]
            /\ pc' = "write"
    /\ UNCHANGED <<env, listen, prober, file, server>>

Written == [auth |-> config.auth, publicPort |-> parseIntOrDefault(env.publicPort)]

(* Mutation: a file that is there is left as it is. *)
WriteConfigOnce ==
    /\ pc = "write"
    /\ file' = IF file = NoFile THEN Written ELSE file
    /\ pc' = "spawn"
    /\ UNCHANGED <<env, listen, prober, config, server>>

(* ProxyConfigWriter: os.WriteFile cuts the file before it writes; App.Run ends
   on an error. *)
WriteConfig ==
    /\ pc = "write"
    /\ \/ file' = Written /\ pc' = "spawn"
       \/ file' \in {file, Torn, Written} /\ pc' = "exited"
    /\ UNCHANGED <<env, listen, prober, config, server>>

(* The child: LoadFileConfig. *)
LoadFileConfig ==
    /\ pc = "spawn"
    /\ \/ file \in FileConfigs /\ server' = file /\ pc' = "serving"
       \/ pc' = "exited" /\ UNCHANGED server
    /\ UNCHANGED <<env, listen, prober, config, file>>

(* ListenAndServe wants a port; its error stops the daemon, whatever App.Run is
   at. *)
HealthServerFails ==
    /\ pc \in {"config", "write", "spawn", "serving"}
    /\ listen # "host:port"
    /\ pc' = "exited"
    /\ UNCHANGED <<env, listen, prober, config, file, server>>

(* The container is stopped, or killed at any step, and started with other
   credentials or another port; the file stays, cut short if it was being
   written. *)
Restart ==
    /\ \E u \in Texts, p \in Texts, port \in {"", "2080"} :
          env' = [env EXCEPT !.uname = u, !.upwd = p, !.publicPort = port]
    /\ file' \in IF pc = "write" THEN {file, Torn} ELSE {file}
    /\ Reset("load")
-----------------------------------------------------------------------------
Next ==
    \/ LoadRuntimeConfig \/ BuildDependencies \/ LoadFromEnv
    \/ WriteConfig \/ LoadFileConfig \/ HealthServerFails \/ Restart

Spec == Init /\ [][Next]_vars
-----------------------------------------------------------------------------
(* The prober logs in to the child exactly as the child demands, although each
   reads the environment in its own way: else the tunnel would never be found
   ready. *)
ProberAuthMatches == pc = "serving" => prober.auth = server.auth

(* The child serves with this container's configuration, never with one an
   earlier run left in the file, whole or torn. *)
ServesThisConfig ==
    pc = "serving" =>
        /\ server.auth = config.auth
        /\ server.publicPort = parseIntOrDefault(env.publicPort)

(* Credentials given in part never leave the proxy open to everyone. *)
NeverOpenByMistake ==
    pc = "serving" /\ (Given(env.uname) \/ Given(env.upwd)) => server.auth # NoAuth

(* The credentials of the environment reach both programs, or stop the daemon. *)
CredentialsAgree == ProberAuthMatches /\ NeverOpenByMistake
=============================================================================
