------------------------------ MODULE Bootstrap ------------------------------
(***************************************************************************)
(* The life of the WARP registration: legacyBootstrapper                   *)
(* (cmd/warp-socksd/legacy_backend.go) within App.Run                      *)
(* (internal/app/app.go), over the WARP API (internal/warpapi/client.go)   *)
(* and the state store, across restarts.                                   *)
(*                                                                         *)
(* One step is one request to the API, or one system call of the store     *)
(* (StateStore).  A request may fail before it takes effect or after (the  *)
(* answer is lost or is an error status), a system call may fail, and the  *)
(* process may die or the machine stop between two steps; what was         *)
(* registered at the API stays there.                                      *)
(***************************************************************************)
EXTENDS Naturals, FiniteSets

CONSTANTS
    Devices,        \* identities the API may assign
    NoDevice,
    Licenses,       \* licence keys that may be configured
    NoLicense,      \* none configured, or the one an account has of itself
    NoValue, Torn,  \* those of StateStore
    MaxIncidents    \* bound on the number of incidents

ASSUME NoneAssumption == NoDevice \notin Devices /\ NoLicense \notin Licenses
ASSUME BoundAssumption == MaxIncidents \in Nat

VARIABLES
    registered, \* devices that exist at the API
    enabled,    \* those of them that have WARP switched on
    license,    \* license[d]: the licence of the account of d at the API
    file, onDisk, tmp, pending, step, ret,  \* the store
    loaded,     \* loadedState
    cfgLicense, \* cfg.WARPLicense, normalized; fixed while the process runs
    current,    \* the state EnsureDevice works on, then the one in use
    attempt,    \* 1, or 2 in the retry with a fresh registration
    pc,         \* the next step of the process
    source,     \* how EnsureDevice came by the state it returned
    incidents   \* history: failures, crashes and power cuts so far

api == <<registered, enabled, license>>
store == <<file, onDisk, tmp, pending, step, ret, loaded>>
vars == <<api, store, cfgLicense, current, attempt, pc, source, incidents>>

(* A device state: usable stands for a peer key, a peer endpoint and protocol
   wireguard, what isReusableLegacyState asks for besides the credentials. *)
States == [id : Devices, license : Licenses \cup {NoLicense}, usable : BOOLEAN]
Empty == [id |-> NoDevice, license |-> NoLicense, usable |-> FALSE]
HasCredentials(s) == s.id # NoDevice

(* What stands for "nothing" in the store is no state. *)
ASSUME StoreAssumption == NoValue \notin States /\ Torn \notin States \cup {Empty}

Store == INSTANCE StateStore WITH Values <- States, NoState <- Empty

(* Every variable has its type. *)
TypeOK ==
    /\ registered \subseteq Devices /\ enabled \subseteq registered
    /\ license \in [Devices -> Licenses \cup {NoLicense}]
    /\ Store!TypeOK /\ current \in States \cup {Empty}
    /\ cfgLicense \in Licenses \cup {NoLicense}
    /\ attempt \in 1..2
    /\ pc \in {"start", "refresh_enable", "refresh_get", "reuse", "register", "reg_enable",
               "reg_get", "reg_license", "license", "save", "saving", "run", "exited"}
    /\ source \in {"none", "refreshed", "reused", "registered"}
    /\ incidents \in 0..MaxIncidents

Init ==
    /\ registered = {} /\ enabled = {}
    /\ license = [d \in Devices |-> NoLicense]
    /\ Store!Init /\ current = Empty
    /\ cfgLicense \in Licenses \cup {NoLicense}
    /\ attempt = 1 /\ pc = "start" /\ source = "none" /\ incidents = 0
-----------------------------------------------------------------------------
Incident == incidents < MaxIncidents /\ incidents' = incidents + 1

(* doJSON of a request with this effect at the API: success, or an error with
   the effect done or not. *)
Request(effect, success, failure) ==
    \/ effect /\ success /\ UNCHANGED incidents
    \/ (effect \/ UNCHANGED api) /\ failure /\ Incident

SetWarpEnabled(d) == enabled' = enabled \cup {d} /\ UNCHANGED <<registered, license>>
UpdateLicense(d) ==
    license' = [license EXCEPT ![d] = cfgLicense] /\ UNCHANGED <<registered, enabled>>

Goes(next) == pc' = next /\ UNCHANGED <<current, source>>

(* EnsureDevice returns an error; so does App.Run. *)
Fails == Goes("exited")

(* Mutation: EnsureDevice is not given the state loaded. *)
AppLoadFresh ==
    /\ pc = "start"
    /\ Store!Load /\ ret' = "ok"
    /\ pc' = "refresh_enable"
    /\ UNCHANGED <<source, incidents, api, cfgLicense, current, attempt>>

(* ConfigLoader and StateLoader, either of which may fail; then
   EnsureDevice(loadedState). *)
AppLoad ==
    /\ pc = "start"
    /\ \/ /\ Store!Load /\ ret' = "ok" /\ current' = loaded'
          /\ pc' = "refresh_enable"
          /\ UNCHANGED <<source, incidents>>
       \/ /\ UNCHANGED store \/ (Store!Load /\ ret' = "err")
          /\ Fails /\ Incident
    /\ UNCHANGED <<api, cfgLicense, attempt>>

(* refresh: without credentials it fails before any request. *)
RefreshEnable ==
    /\ pc = "refresh_enable"
    /\ \/ ~HasCredentials(current) /\ Goes("reuse") /\ UNCHANGED <<api, incidents>>
       \/ /\ HasCredentials(current)
          /\ Request(SetWarpEnabled(current.id), Goes("refresh_get"), Goes("reuse"))
    /\ UNCHANGED <<store, cfgLicense, attempt>>

(* Mutation: the licence in the answer is not taken over. *)
stateFromWarpDeviceOldLicense(d, usable) ==
    [id |-> d, license |-> current.license, usable |-> usable]

(* The state made from the API's answer. *)
stateFromWarpDevice(d, usable) == [id |-> d, license |-> license[d], usable |-> usable]

(* GetSourceDevice answers with peers and protocol wireguard, though the peer's
   key or host may be empty; any other answer is an error. *)
GetSourceDevice(how, next, otherwise) ==
    /\ UNCHANGED api
    /\ \/ \E usable \in BOOLEAN :
             /\ current' = stateFromWarpDevice(current.id, usable)
             /\ source' = how
             /\ pc' = next
             /\ UNCHANGED incidents
       \/ Goes(otherwise) /\ Incident

RefreshGet ==
    /\ pc = "refresh_get"
    /\ GetSourceDevice("refreshed", "license", "reuse")
    /\ UNCHANGED <<store, cfgLicense, attempt>>

(* Mutation: a state that cannot be used without the API ends the run. *)
ReuseOnly ==
    /\ pc = "reuse"
    /\ IF current.usable
       THEN pc' = "license" /\ source' = "reused" /\ UNCHANGED current
       ELSE Goes("exited")
    /\ UNCHANGED <<api, store, cfgLicense, attempt, incidents>>

(* isReusableLegacyState: without the API a complete state will do. *)
Reuse ==
    /\ pc = "reuse"
    /\ IF HasCredentials(current) /\ current.usable
       THEN pc' = "license" /\ source' = "reused" /\ UNCHANGED current
       ELSE Goes("register")
    /\ UNCHANGED <<api, store, cfgLicense, attempt, incidents>>
-----------------------------------------------------------------------------
(* register: four requests, the registration first *)

Register ==
    /\ pc = "register"
    /\ \/ \E d \in Devices \ registered :
             /\ registered' = registered \cup {d}
             /\ UNCHANGED <<enabled, license>>
             /\ \/ /\ current' = [Empty EXCEPT !.id = d]
                   /\ pc' = "reg_enable"
                   /\ UNCHANGED <<source, incidents>>
                \/ Fails /\ Incident    \* the answer, or the credentials in it, are lost
       \/ UNCHANGED api /\ Fails /\ Incident
    /\ UNCHANGED <<store, cfgLicense, attempt>>

RegisterEnable ==
    /\ pc = "reg_enable"
    /\ Request(SetWarpEnabled(current.id), Goes("reg_get"), Fails)
    /\ UNCHANGED <<store, cfgLicense, attempt>>

RegisterGet ==
    /\ pc = "reg_get"
    /\ GetSourceDevice("registered", IF cfgLicense = NoLicense THEN "license" ELSE "reg_license", "exited")
    /\ UNCHANGED <<store, cfgLicense, attempt>>

Licensed(next) ==
    current' = [current EXCEPT !.license = cfgLicense] /\ pc' = next /\ UNCHANGED source

RegisterLicense ==
    /\ pc = "reg_license"
    /\ Request(UpdateLicense(current.id), Licensed("license"), Fails)
    /\ UNCHANGED <<store, cfgLicense, attempt>>

(* applyLicense: a request only where the state has another licence than the
   one configured. *)
ApplyLicense ==
    /\ pc = "license"
    /\ \/ /\ cfgLicense \in {NoLicense, current.license}
          /\ Goes("save") /\ UNCHANGED <<api, incidents>>
       \/ /\ cfgLicense \notin {NoLicense, current.license}
          /\ Request(UpdateLicense(current.id), Licensed("save"), Fails)
    /\ UNCHANGED <<store, cfgLicense, attempt>>
-----------------------------------------------------------------------------
(* App.Run after EnsureDevice *)

(* Mutation: the service is started although the state could not be saved. *)
SaveStepIgnored ==
    /\ pc = "saving"
    /\ Store!SaveStep
    /\ \/ step' # "idle" /\ UNCHANGED <<pc, current, source, incidents>>
       \/ ret' = "ok" /\ Goes("run") /\ UNCHANGED incidents
       \/ ret' = "err" /\ Goes("run") /\ Incident
    /\ UNCHANGED <<api, cfgLicense, attempt>>

(* StateSaver.  An error ends the run. *)
Save ==
    /\ pc = "save"
    /\ Store!CallSave(current)
    /\ Goes("saving")
    /\ UNCHANGED <<api, cfgLicense, attempt, incidents>>

SaveStep ==
    /\ pc = "saving"
    /\ Store!SaveStep
    /\ \/ step' # "idle" /\ UNCHANGED <<pc, current, source, incidents>>
       \/ ret' = "ok" /\ Goes("run") /\ UNCHANGED incidents
       \/ ret' = "err" /\ Fails /\ Incident
    /\ UNCHANGED <<api, cfgLicense, attempt>>

(* Mutation: the fresh registration is retried like the loaded state. *)
RunRetriesAgain ==
    /\ pc = "run"
    /\ \/ Goes("exited") /\ UNCHANGED <<attempt, incidents>>
       \/ /\ Incident
          /\ IF HasCredentials(loaded)
             THEN attempt' = attempt + 1 /\ current' = Empty /\ pc' = "refresh_enable" /\ source' = "none"
             ELSE Goes("exited") /\ UNCHANGED attempt
    /\ UNCHANGED <<api, store, cfgLicense>>

(* runStartedRuntime ends: without an error, or with one.  In the first attempt
   a state that was loaded is then replaced by a new registration. *)
Run ==
    /\ pc = "run"
    /\ \/ Goes("exited") /\ UNCHANGED <<attempt, incidents>>
       \/ /\ Incident
          /\ IF attempt = 1 /\ HasCredentials(loaded)
             THEN attempt' = 2 /\ current' = Empty /\ pc' = "refresh_enable" /\ source' = "none"
             ELSE Goes("exited") /\ UNCHANGED attempt
    /\ UNCHANGED <<api, store, cfgLicense>>

(* The process dies. *)
Crash ==
    /\ pc \notin {"start", "exited"}
    /\ Store!ProcessEnds
    /\ pc' = "exited" /\ UNCHANGED <<current, source>>
    /\ Incident
    /\ UNCHANGED <<api, cfgLicense, attempt>>

(* The container is started again, with the same licence or another. *)
Restart ==
    /\ pc = "exited"
    /\ Store!ProcessEnds
    /\ cfgLicense' \in Licenses \cup {NoLicense}
    /\ current' = Empty /\ attempt' = 1
    /\ pc' = "start" /\ source' = "none"
    /\ UNCHANGED <<api, incidents>>

(* The kernel writes the state directory back. *)
WriteBack == Store!WriteBack /\ UNCHANGED <<api, cfgLicense, current, attempt, pc, source, incidents>>

(* The machine stops. *)
PowerFails ==
    /\ Store!MachineStops
    /\ Goes("exited") /\ Incident
    /\ UNCHANGED <<api, cfgLicense, attempt>>
-----------------------------------------------------------------------------
Step ==
    \/ AppLoad \/ RefreshEnable \/ RefreshGet \/ Reuse
    \/ Register \/ RegisterEnable \/ RegisterGet \/ RegisterLicense
    \/ ApplyLicense \/ Save \/ SaveStep \/ Restart

Next == Step \/ Run \/ Crash \/ WriteBack \/ PowerFails

Spec == Init /\ [][Next]_vars

(* Every request returns (newLegacyHTTPClientFunc sets a timeout) and the
   container is restarted. *)
FairSpec == Spec /\ WF_vars(Step)
-----------------------------------------------------------------------------
(* A device is registered once: every further registration is paid for by an
   incident of its own, and any number of clean restarts costs none. *)
RegistrationsPaidFor == Cardinality(registered) <= 1 + incidents

(* While the service runs, a restart would find the device in use: it is the
   saved one, it exists at the API, and WARP is on unless the API could not be
   asked. *)
RunsSavedDevice ==
    pc = "run" =>
        /\ file.data = current
        /\ current.id \in registered
        /\ source # "reused" => current.id \in enabled

(* Once the API was asked, the licence saved is the one the account has, and
   the configured one if one is, although updates may have been made by runs
   that could not save them and the configuration may have changed. *)
LicenseInStep ==
    pc = "run" /\ source # "reused" =>
        /\ license[current.id] = current.license
        /\ cfgLicense \in {NoLicense, current.license}

(* The store keeps its promise (AtomicRegister) while the program uses it. *)
ImplementsRegister == Store!ImplementsRegister

(* However the incidents fall, the service gets to run again once they end. *)
Recovers == []<>(pc = "run")
=============================================================================
