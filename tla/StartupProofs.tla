----------------------------- MODULE StartupProofs -----------------------------
(***************************************************************************)
(* Proofs about three parts of the start-up, Configuration, TunnelPlan and *)
(* Prober, for any words, ports, number of targets and times.  MCStartup   *)
(* lets one of them run; each behaves by its own specification there.      *)
(***************************************************************************)
EXTENDS MCStartup, TLAPS

LEMMA PartsInit == Init => Config!Init /\ Tunnel!Init /\ Probe!Init
BY DEF Init, ConfigRests, TunnelRests, ProbeRests

LEMMA PartsStep ==
    [Next]_vars =>
        [Config!Next]_(Config!vars) /\ [Tunnel!Next]_(Tunnel!vars) /\ [Probe!Next]_(Probe!vars)
BY DEF Next, vars, configVars, tunnelVars, probeVars, Config!vars, Tunnel!vars, Probe!vars,
       Probe!clock, Probe!tunnel

(* Whatever is proved of a part by itself is proved of the whole. *)
LEMMA PartsBehave == Spec => Config!Spec /\ Tunnel!Spec /\ Probe!Spec
BY PartsInit, PartsStep, PTL DEF Spec, Config!Spec, Tunnel!Spec, Probe!Spec
-----------------------------------------------------------------------------
(* The configuration: what each step has read of the environment.           *)

Credentials ==
    IF Config!Given(env.uname) /\ Config!Given(env.upwd) THEN <<env.uname, env.upwd>>
    ELSE NoAuth

ProberRead == configPc \in {"config", "write", "spawn", "serving"} => prober.auth = Config!ClientAuth

ConfigRead ==
    configPc \in {"write", "spawn", "serving"} => config.auth = Credentials /\ ~Config!OnlyOne

(* From the write on the file is this run's, and so is what the child reads. *)
FileRead ==
    /\ configPc = "spawn" => file = Config!Written
    /\ configPc = "serving" => server = Config!Written

ConfigInv == Config!TypeOK /\ ProberRead /\ ConfigRead /\ FileRead

LEMMA AuthsInType == Config!TypeOK => Config!ClientAuth \in Config!Auths /\ Credentials \in Config!Auths
<1> SUFFICES ASSUME Config!TypeOK
    PROVE  Config!ClientAuth \in Config!Auths /\ Credentials \in Config!Auths
  OBVIOUS
<1>1. env.uname \in Words \cup {"", "unspecified"} /\ env.upwd \in Words \cup {"", "unspecified"}
  BY DEF Config!TypeOK, Config!Environments, Config!Texts
<1>2. Config!ClientAuth \in Config!Auths
  BY <1>1 DEF Config!ClientAuth, Config!Auths
<1>3. Credentials \in Config!Auths
  BY <1>1 DEF Credentials, Config!Auths, Config!Given, Config!normalizeOptional, Config!valueOrDefault
<1>4. QED
  BY <1>2, <1>3

(* The two readers of the environment take the same values for unset. *)
LEMMA ReadersAgree == ~Config!OnlyOne => Config!ClientAuth = Credentials
BY DEF Config!OnlyOne, Config!ClientAuth, Credentials, Config!Given, Config!normalizeOptional,
       Config!valueOrDefault

(* The records are of the type their fields are of. *)
LEMMA RecordTypes ==
    /\ \A A, T : \A a \in A, t \in T : [auth |-> a, targets |-> t] \in [auth : A, targets : T]
    /\ \A A, S : \A a \in A, s \in S : [auth |-> a, stack |-> s] \in [auth : A, stack : S]
    /\ \A A, P : \A a \in A, p \in P : [auth |-> a, publicPort |-> p] \in [auth : A, publicPort : P]
OBVIOUS

LEMMA RestInTypes ==
    /\ [auth |-> NoAuth, targets |-> 0] \in [auth : Config!Auths, targets : 0..2]
    /\ [auth |-> NoAuth, stack |-> ""] \in [auth : Config!Auths, stack : {"", "dual", "4", "6"}]
    /\ Config!Unset \in Config!FileConfigs
<1>1. NoAuth \in Config!Auths
  BY DEF Config!Auths
<1>2. 0 \in 0..2 /\ 0 \in {0, 1080, 2080} /\ "" \in {"", "dual", "4", "6"}
  OBVIOUS
<1>3. QED
  BY <1>1, <1>2, RecordTypes DEF Config!Unset, Config!FileConfigs

LEMMA ReadInTypes ==
    ASSUME NEW a \in Config!Auths
    PROVE  /\ \A t \in {1, 2} : [auth |-> a, targets |-> t] \in [auth : Config!Auths, targets : 0..2]
           /\ \A k \in {"4", "6", "dual"} :
                 [auth |-> a, stack |-> k] \in [auth : Config!Auths, stack : {"", "dual", "4", "6"}]
<1>1. {1, 2} \subseteq 0..2 /\ {"4", "6", "dual"} \subseteq {"", "dual", "4", "6"}
  OBVIOUS
<1>2. QED
  BY <1>1, RecordTypes

LEMMA ConfigInit == Config!Init => ConfigInv
<1> SUFFICES ASSUME Config!Init PROVE ConfigInv
  OBVIOUS
<1>1. Config!TypeOK
  BY RestInTypes DEF Config!Init, Config!TypeOK
<1>2. ProberRead /\ ConfigRead /\ FileRead
  BY DEF Config!Init, ProberRead, ConfigRead, FileRead
<1>3. QED
  BY <1>1, <1>2 DEF ConfigInv

LEMMA WrittenInType == Config!TypeOK => Config!Written \in Config!FileConfigs
<1> SUFFICES ASSUME Config!TypeOK PROVE Config!Written \in Config!FileConfigs
  OBVIOUS
<1>1. config.auth \in Config!Auths
  BY DEF Config!TypeOK
<1>2. Config!parseIntOrDefault(env.publicPort) \in {0, 1080, 2080}
  BY DEF Config!parseIntOrDefault
<1>3. QED
  BY <1>1, <1>2, RecordTypes DEF Config!Written, Config!FileConfigs

LEMMA ConfigTypes == ConfigInv /\ [Config!Next]_(Config!vars) => Config!TypeOK'
<1> SUFFICES ASSUME ConfigInv, [Config!Next]_(Config!vars) PROVE Config!TypeOK'
  OBVIOUS
<1> USE DEF ConfigInv, Config!TypeOK
<1>1. CASE Config!LoadRuntimeConfig
  <2>1. env.health \in {"", "host:port", "host", "nohost", "malformed"}
    BY DEF Config!Environments
  <2>2. listen' \in {"", "host:port", "host"}
    BY <1>1, <2>1
    DEF Config!LoadRuntimeConfig, Config!healthListenAddrFromURL, Config!valueOrDefault
  <2>3. QED
    BY <1>1, <2>2 DEF Config!LoadRuntimeConfig
<1>2. CASE Config!BuildDependencies
  <2>1. prober' \in [auth : Config!Auths, targets : 0..2]
    <3>1. \E t \in {1, 2} : prober' = [auth |-> Config!ClientAuth, targets |-> t]
      BY <1>2 DEF Config!BuildDependencies
    <3>2. Config!ClientAuth \in Config!Auths
      BY AuthsInType
    <3>3. \A t \in {1, 2} : [auth |-> Config!ClientAuth, targets |-> t] \in [auth : Config!Auths, targets : 0..2]
      BY <3>2, ReadInTypes
    <3>4. QED
      BY <3>1, <3>3, Zenon
  <2>2. QED
    BY <1>2, <2>1 DEF Config!BuildDependencies
<1>3. CASE Config!LoadFromEnv
  <2>1. config' \in [auth : Config!Auths, stack : {"", "dual", "4", "6"}]
    <3>1. config' = config \/ \E k \in {"4", "6", "dual"} : config' = [auth |-> Credentials, stack |-> k]
      BY <1>3 DEF Config!LoadFromEnv, Credentials
    <3>2. Credentials \in Config!Auths /\ config \in [auth : Config!Auths, stack : {"", "dual", "4", "6"}]
      BY AuthsInType
    <3>3. \A k \in {"4", "6", "dual"} :
            [auth |-> Credentials, stack |-> k] \in [auth : Config!Auths, stack : {"", "dual", "4", "6"}]
      BY <3>2, ReadInTypes
    <3>4. QED
      BY <3>1, <3>2, <3>3, Zenon
  <2>2. QED
    BY <1>3, <2>1 DEF Config!LoadFromEnv
<1>4. CASE Config!WriteConfig
  BY <1>4, WrittenInType DEF Config!WriteConfig
<1>5. CASE Config!LoadFileConfig
  BY <1>5 DEF Config!LoadFileConfig
<1>6. CASE Config!HealthServerFails
  BY <1>6 DEF Config!HealthServerFails
<1>7. CASE Config!Restart
  <2>1. env' \in Config!Environments
    BY <1>7, ZenonT(30) DEF Config!Restart, Config!Environments
  <2>2. file' \in Config!FileConfigs \cup {NoFile, Torn}
    BY <1>7 DEF Config!Restart
  <2>3. QED
    BY <1>7, <2>1, <2>2, RestInTypes DEF Config!Restart, Config!Reset
<1>8. CASE UNCHANGED Config!vars
  BY <1>8 DEF Config!vars
<1>9. QED
  BY <1>1, <1>2, <1>3, <1>4, <1>5, <1>6, <1>7, <1>8 DEF Config!Next

LEMMA ConfigKeeps == ConfigInv /\ [Config!Next]_(Config!vars) => ConfigInv'
<1> SUFFICES ASSUME ConfigInv, [Config!Next]_(Config!vars) PROVE ConfigInv'
  OBVIOUS
<1>0. Config!TypeOK'
  BY ConfigTypes
<1> USE DEF ConfigInv, ProberRead, ConfigRead, FileRead, Credentials, Config!ClientAuth,
            Config!OnlyOne, Config!Given, Config!Written, Config!parseIntOrDefault
<1>1. CASE Config!LoadRuntimeConfig
  BY <1>0, <1>1 DEF Config!LoadRuntimeConfig
<1>2. CASE Config!BuildDependencies
  BY <1>0, <1>2 DEF Config!BuildDependencies
<1>3. CASE Config!LoadFromEnv
  BY <1>0, <1>3 DEF Config!LoadFromEnv
<1>4. CASE Config!WriteConfig
  BY <1>0, <1>4 DEF Config!WriteConfig
<1>5. CASE Config!LoadFileConfig
  BY <1>0, <1>5 DEF Config!LoadFileConfig
<1>6. CASE Config!HealthServerFails
  BY <1>0, <1>6 DEF Config!HealthServerFails
<1>7. CASE Config!Restart
  BY <1>0, <1>7 DEF Config!Restart, Config!Reset
<1>8. CASE UNCHANGED Config!vars
  BY <1>0, <1>8 DEF Config!vars
<1>9. QED
  BY <1>1, <1>2, <1>3, <1>4, <1>5, <1>6, <1>7, <1>8 DEF Config!Next

LEMMA ConfigAlways == Spec => []ConfigInv
BY PartsBehave, ConfigInit, ConfigKeeps, PTL DEF Config!Spec

(* newSOCKS5HTTPClient and LoadFromEnv read the credentials each in its own way,
   and yet the prober logs in as the child demands; a part of the credentials is
   never taken for none. *)
THEOREM CredentialsAgreeCorrect == Spec => []CredentialsAgree
<1>1. ConfigInv => CredentialsAgree
  <2> SUFFICES ASSUME ConfigInv, configPc = "serving"
      PROVE  /\ prober.auth = server.auth
             /\ Config!Given(env.uname) \/ Config!Given(env.upwd) => server.auth # NoAuth
    BY DEF CredentialsAgree, Config!CredentialsAgree, Config!ProberAuthMatches, Config!NeverOpenByMistake
  <2>1. prober.auth = Config!ClientAuth /\ server.auth = Credentials /\ ~Config!OnlyOne
    BY DEF ConfigInv, ProberRead, ConfigRead, FileRead, Config!Written
  <2>2. prober.auth = server.auth
    BY <2>1, ReadersAgree
  <2>3. ASSUME Config!Given(env.uname) \/ Config!Given(env.upwd) PROVE server.auth # NoAuth
    <3>1. Config!Given(env.uname) /\ Config!Given(env.upwd)
      BY <2>1, <2>3 DEF Config!OnlyOne
    <3>2. env.uname \in Words /\ env.upwd \in Words
      BY <3>1 DEF ConfigInv, Config!TypeOK, Config!Environments, Config!Texts, Config!Given,
                  Config!normalizeOptional, Config!valueOrDefault
    <3>3. QED
      <4>1. <<env.uname, env.upwd>> \in Words \X Words
        BY <3>2
      <4>2. server.auth = <<env.uname, env.upwd>>
        BY <2>1, <3>1 DEF Credentials
      <4>3. QED
        BY <4>1, <4>2, WordsAssumption
  <2>4. QED
    BY <2>2, <2>3
<1>2. QED
  BY <1>1, ConfigAlways, PTL

(* ProxyConfigWriter has replaced the file of an earlier run, whole or torn,
   before the child reads it. *)
THEOREM ServesThisConfigCorrect == Spec => []ServesThisConfig
<1>1. ConfigInv => ServesThisConfig
  BY DEF ConfigInv, FileRead, ServesThisConfig, Config!ServesThisConfig, Config!Written
<1>2. QED
  BY <1>1, ConfigAlways, PTL
-----------------------------------------------------------------------------
(* The probe: when the request or the wait under way was started, and how   *)
(* far it may have come.                                                    *)

InTime ==
    /\ since <= now
    /\ probePc = "try" =>
          since <= RetryWindow + RetryInterval + (target - 1) * Timeout /\ now <= since + Timeout
    /\ probePc = "wait" => since <= RetryWindow /\ now <= since + RetryInterval
    /\ Probe!GivesUpInTime

(* A target asked earlier in this round and found useless has not worked since
   long before it was asked. *)
NotMissed ==
    probePc = "try" /\ ~Probe!Cancelled =>
        \A t \in working : t < target => workingAt[t] + (target - 1) * Timeout >= since

ProbeInv ==
    /\ Probe!TypeOK /\ InTime /\ Probe!CancelledAtOnce
    /\ probePc # "done" => result = "none"
    /\ NotMissed /\ Probe!LateTunnelFound

LEMMA Product ==
    ASSUME NEW t \in Nat, NEW m \in Nat, t <= m PROVE t * Timeout <= m * Timeout
<1>1. Timeout \in Nat /\ m - t \in Nat
  BY TimesAssumption
<1>2. (m - t) * Timeout \in Nat
  BY <1>1
<1>3. m * Timeout = t * Timeout + (m - t) * Timeout
  BY <1>1
<1>4. QED
  BY <1>1, <1>2, <1>3

LEMMA NextRound ==
    ASSUME NEW t \in Nat \ {0} PROVE t * Timeout = (t - 1) * Timeout + Timeout /\ (t - 1) * Timeout \in Nat
<1>1. Timeout \in Nat
  BY TimesAssumption
<1>2. QED
  BY <1>1

(* The end of time is beyond what Check takes. *)
LEMMA NeverLate ==
    Probe!TypeOK /\ Probe!GivesUpInTime => now < Probe!Never /\ Probe!Never \in Nat
<1> SUFFICES ASSUME Probe!TypeOK, Probe!GivesUpInTime PROVE now < Probe!Never /\ Probe!Never \in Nat
  OBVIOUS
<1>1. {RetryWindow, RetryInterval, Timeout, MaxTargets} \subseteq Nat
  BY TimesAssumption
<1>2. n \in Nat /\ n <= MaxTargets /\ n * Timeout \in Nat /\ MaxTargets * Timeout \in Nat
  BY <1>1 DEF Probe!TypeOK
<1>3. n * Timeout <= MaxTargets * Timeout
  BY <1>1, <1>2, Product
<1>4. now \in Nat
  BY <1>1, <1>2 DEF Probe!TypeOK, Probe!Never
<1>5. QED
  BY <1>1, <1>2, <1>3, <1>4 DEF Probe!GivesUpInTime, Probe!Deadline, Probe!Never

(* What each action may use: the ranges of the variables, as plain facts. *)
LEMMA ProbeRanges ==
    ASSUME ProbeInv
    PROVE  /\ {now, since, cancelledAt, RetryWindow, RetryInterval, Timeout, Probe!Never} \subseteq Nat
           /\ {n, target} \subseteq Nat \ {0} /\ target <= n /\ now < Probe!Never
           /\ target * Timeout <= n * Timeout /\ n * Timeout \in Nat
           /\ target * Timeout = (target - 1) * Timeout + Timeout /\ (target - 1) * Timeout \in Nat
           /\ \A t \in working : t \in 1..n /\ workingAt[t] \in Nat
<1>1. {RetryWindow, RetryInterval, Timeout, MaxTargets} \subseteq Nat
  BY TimesAssumption
<1>2. {n, target} \subseteq Nat \ {0} /\ target <= n /\ n <= MaxTargets
  BY <1>1 DEF ProbeInv, Probe!TypeOK
<1>3. now < Probe!Never /\ Probe!Never \in Nat
  BY NeverLate DEF ProbeInv, InTime
<1>4. target * Timeout <= n * Timeout
  BY <1>2, Product
<1>5. target * Timeout = (target - 1) * Timeout + Timeout /\ (target - 1) * Timeout \in Nat
  BY <1>2, NextRound
<1>6. n * Timeout \in Nat
  BY <1>1, <1>2
<1>7. {now, since, cancelledAt} \subseteq Nat
  BY <1>3 DEF ProbeInv, Probe!TypeOK
<1>8. \A t \in working : t \in 1..n /\ workingAt[t] \in Nat
  <2>1. working \subseteq 1..n /\ workingAt \in [1..MaxTargets -> 0..Probe!Never]
    BY DEF ProbeInv, Probe!TypeOK
  <2>2. ASSUME NEW t \in working PROVE t \in 1..n /\ t \in 1..MaxTargets
    BY <1>1, <1>2, <2>1
  <2>3. 0..Probe!Never \subseteq Nat
    BY <1>3
  <2>4. QED
    BY <2>1, <2>2, <2>3
<1>9. QED
  BY <1>1, <1>2, <1>3, <1>4, <1>5, <1>6, <1>7, <1>8

LEMMA ProbeInit == Probe!Init => ProbeInv
<1> SUFFICES ASSUME Probe!Init PROVE ProbeInv
  OBVIOUS
<1>1. {RetryWindow, RetryInterval, Timeout, MaxTargets} \subseteq Nat
  BY TimesAssumption
<1>2. n \in Nat /\ n <= MaxTargets /\ n * Timeout \in Nat /\ MaxTargets * Timeout \in Nat
  BY <1>1 DEF Probe!Init
<1>3. Probe!Never \in Nat
  BY <1>1, <1>2 DEF Probe!Never
<1>4. workingAt \in [1..MaxTargets -> 0..Probe!Never]
  BY <1>3 DEF Probe!Init
<1>5. Probe!TypeOK
  BY <1>1, <1>2, <1>3, <1>4 DEF Probe!Init, Probe!TypeOK
<1>6. InTime
  <2>1. (target - 1) * Timeout = 0
    BY <1>1 DEF Probe!Init
  <2>2. QED
    BY <1>1, <1>2, <2>1 DEF Probe!Init, InTime, Probe!GivesUpInTime, Probe!Deadline
<1>7. Probe!CancelledAtOnce /\ NotMissed /\ Probe!LateTunnelFound /\ (probePc # "done" => result = "none")
  BY <1>1, <1>2 DEF Probe!Init, Probe!CancelledAtOnce, Probe!Cancelled, NotMissed, Probe!LateTunnelFound
<1>8. QED
  BY <1>5, <1>6, <1>7 DEF ProbeInv

LEMMA ProbeTypes == ProbeInv /\ [Probe!Next]_(Probe!vars) => Probe!TypeOK'
<1> SUFFICES ASSUME ProbeInv, [Probe!Next]_(Probe!vars) PROVE Probe!TypeOK'
  OBVIOUS
<1>1. /\ {now, since, Probe!Never} \subseteq Nat /\ {n, target} \subseteq Nat \ {0} /\ target <= n
      /\ now < Probe!Never
  BY ProbeRanges
<1>2. Probe!TypeOK
  BY DEF ProbeInv
<1>3. Probe!Never' = Probe!Never
  BY DEF Probe!Never
<1> USE DEF Probe!TypeOK, Probe!Begins, Probe!Returns, Probe!clock, Probe!tunnel
<1>4. CASE Probe!TryFails
  BY <1>1, <1>2, <1>3, <1>4 DEF Probe!TryFails, Probe!RoundFailed
<1>5. CASE Probe!TryConfirms \/ Probe!WaitOver \/ Probe!WaitCancelled
  <2>1. target' \in 1..n /\ since' \in 0..Probe!Never
    BY <1>1, <1>2, <1>5 DEF Probe!TryConfirms, Probe!WaitOver, Probe!WaitCancelled
  <2>2. UNCHANGED <<n, now, cancelledAt, working, workingAt>>
    BY <1>5 DEF Probe!TryConfirms, Probe!WaitOver, Probe!WaitCancelled
  <2>3. probePc' \in {"try", "wait", "done"} /\ result' \in {"none", "nil", "err", "cancelled"}
    BY <1>2, <1>5 DEF Probe!TryConfirms, Probe!WaitOver, Probe!WaitCancelled
  <2>4. QED
    BY <1>2, <1>3, <2>1, <2>2, <2>3
<1>6. CASE Probe!Tick
  BY <1>1, <1>2, <1>3, <1>6 DEF Probe!Tick
<1>7. CASE Probe!Cancel
  BY <1>1, <1>2, <1>3, <1>7 DEF Probe!Cancel
<1>8. ASSUME NEW t \in 1..n, Probe!Works(t) PROVE Probe!TypeOK'
  <2>1. workingAt' \in [1..MaxTargets -> 0..Probe!Never]
    <3>1. now \in 0..Probe!Never /\ workingAt' = [workingAt EXCEPT ![t] = now]
      BY <1>1, <1>8 DEF Probe!Works
    <3>2. QED
      BY <1>2, <3>1
  <2>2. QED
    BY <1>2, <1>3, <1>8, <2>1 DEF Probe!Works
<1>9. ASSUME NEW t \in 1..n, Probe!Breaks(t) PROVE Probe!TypeOK'
  BY <1>2, <1>3, <1>9 DEF Probe!Breaks
<1>10. CASE UNCHANGED Probe!vars
  BY <1>2, <1>3, <1>10 DEF Probe!vars
<1>11. QED
  BY <1>4, <1>5, <1>6, <1>7, <1>8, <1>9, <1>10 DEF Probe!Next, Probe!CheckStep


LEMMA ProbeKeepsTime ==
    ProbeInv /\ [Probe!Next]_(Probe!vars) =>
        InTime' /\ (probePc # "done" => result = "none")'
<1> SUFFICES ASSUME ProbeInv, [Probe!Next]_(Probe!vars)
    PROVE  InTime' /\ (probePc # "done" => result = "none")'
  OBVIOUS
<1>1. /\ {now, since, cancelledAt, RetryWindow, RetryInterval, Timeout} \subseteq Nat
      /\ {n, target} \subseteq Nat \ {0} /\ target <= n
      /\ n * Timeout \in Nat /\ target * Timeout <= n * Timeout
      /\ target * Timeout = (target - 1) * Timeout + Timeout /\ (target - 1) * Timeout \in Nat
  BY ProbeRanges
<1>2. InTime /\ (probePc # "done" => result = "none") /\ Probe!TypeOK
  BY DEF ProbeInv
<1>3. (target + 1) - 1 = target /\ (1 - 1) * Timeout = 0
  BY <1>1
<1> USE DEF InTime, Probe!GivesUpInTime, Probe!Deadline, Probe!Begins, Probe!Returns, Probe!clock
<1>4. CASE Probe!TryFails
  <2>1. CASE target < n
    <3>1. target' = target + 1 /\ since' = now /\ probePc' = "try" /\ UNCHANGED <<n, now, cancelledAt, result>>
      BY <1>4, <2>1 DEF Probe!TryFails
    <3>2. (target' - 1) * Timeout = target * Timeout
      BY <1>3, <3>1
    <3>3. now <= RetryWindow + RetryInterval + target * Timeout
      BY <1>1, <1>2, <1>4 DEF Probe!TryFails
    <3>4. QED
      BY <1>1, <1>2, <1>4, <3>1, <3>2, <3>3 DEF Probe!TryFails
  <2>2. CASE ~(target < n)
    BY <1>1, <1>2, <1>4, <2>2 DEF Probe!TryFails, Probe!RoundFailed
  <2>3. QED
    BY <2>1, <2>2
<1>5. CASE Probe!TryConfirms \/ Probe!WaitCancelled
  BY <1>1, <1>2, <1>5 DEF Probe!TryConfirms, Probe!WaitCancelled
<1>6. CASE Probe!WaitOver
  <2>1. (target' - 1) * Timeout = 0
    BY <1>3, <1>6 DEF Probe!WaitOver
  <2>2. QED
    BY <1>1, <1>2, <1>6, <2>1 DEF Probe!WaitOver
<1>7. CASE Probe!Tick
  <2>1. now' = now + 1 /\ UNCHANGED <<n, probePc, target, since, cancelledAt, result>>
    BY <1>7 DEF Probe!Tick
  <2>2. CASE probePc = "try"
    <3>0. now \in Nat /\ since \in Nat /\ Timeout \in Nat
      BY <1>1
    <3>1. now # since + Timeout
      BY <1>7, <2>2 DEF Probe!Tick, Probe!Due, Probe!RequestOver
    <3>2. now <= since + Timeout
      BY <1>2, <2>2
    <3>3. now' <= since + Timeout /\ since <= now'
      BY <1>2, <2>1, <3>0, <3>1, <3>2
    <3>4. now' <= RetryWindow + RetryInterval + n * Timeout
      BY <1>1, <1>2, <2>1, <2>2, <3>3
    <3>5. QED
      BY <1>2, <2>1, <2>2, <3>3, <3>4
  <2>3. CASE probePc = "wait"
    <3>0. now \in Nat /\ since \in Nat /\ RetryInterval \in Nat /\ RetryWindow \in Nat
      BY <1>1
    <3>1. now # since + RetryInterval
      BY <1>7, <2>3 DEF Probe!Tick, Probe!Due
    <3>2. since <= RetryWindow /\ since <= now /\ now <= since + RetryInterval
      BY <1>2, <2>3
    <3>3. now' <= since + RetryInterval /\ since <= now' /\ now' <= RetryWindow + RetryInterval
      BY <2>1, <3>0, <3>1, <3>2
    <3>4. now' <= RetryWindow + RetryInterval + n * Timeout
      BY <1>1, <2>1, <3>3
    <3>5. QED
      BY <1>2, <2>1, <2>3, <3>2, <3>3, <3>4
  <2>4. QED
    BY <1>2, <1>7, <2>2, <2>3 DEF Probe!Tick, Probe!TypeOK
<1>8. CASE Probe!Cancel
  BY <1>1, <1>2, <1>8 DEF Probe!Cancel
<1>9. ASSUME NEW t \in 1..n, Probe!Works(t) \/ Probe!Breaks(t)
      PROVE  InTime' /\ (probePc # "done" => result = "none")'
  BY <1>2, <1>9 DEF Probe!Works, Probe!Breaks
<1>10. CASE UNCHANGED Probe!vars
  BY <1>2, <1>10 DEF Probe!vars
<1>11. QED
  BY <1>4, <1>5, <1>6, <1>7, <1>8, <1>9, <1>10 DEF Probe!Next, Probe!CheckStep

(* Nothing is waited for once the context is cancelled. *)
LEMMA ProbeHears ==
    Probe!TypeOK /\ Probe!CancelledAtOnce /\ [Probe!Next]_(Probe!vars) => Probe!CancelledAtOnce'
<1> SUFFICES ASSUME Probe!TypeOK, Probe!CancelledAtOnce, [Probe!Next]_(Probe!vars), Probe!Cancelled'
    PROVE  now' = cancelledAt'
  BY DEF Probe!CancelledAtOnce
<1>1. cancelledAt' = cancelledAt => Probe!Cancelled
  BY DEF Probe!Cancelled, Probe!Never
<1>2. CASE Probe!Tick
  BY <1>1, <1>2 DEF Probe!Tick, Probe!Due, Probe!RequestOver, Probe!WaitHears, Probe!TypeOK
<1>3. CASE Probe!Cancel
  BY <1>3 DEF Probe!Cancel, Probe!clock
<1>4. CASE UNCHANGED <<now, cancelledAt>>
  BY <1>1, <1>4 DEF Probe!CancelledAtOnce
<1>5. QED
  BY <1>2, <1>3, <1>4
  DEF Probe!Next, Probe!CheckStep, Probe!TryFails, Probe!TryConfirms, Probe!WaitOver,
      Probe!WaitCancelled, Probe!Works, Probe!Breaks, Probe!vars, Probe!clock

(* A target that was passed over in this round has come up too late for it. *)
LEMMA ProbeFinds ==
    ProbeInv /\ [Probe!Next]_(Probe!vars) => NotMissed' /\ Probe!LateTunnelFound'
<1> SUFFICES ASSUME ProbeInv, [Probe!Next]_(Probe!vars)
    PROVE  NotMissed' /\ Probe!LateTunnelFound'
  OBVIOUS
<1>1. /\ {now, since, RetryWindow, RetryInterval, Timeout} \subseteq Nat
      /\ {n, target} \subseteq Nat \ {0} /\ target <= n
      /\ n * Timeout \in Nat /\ target * Timeout <= n * Timeout
      /\ target * Timeout = (target - 1) * Timeout + Timeout /\ (target - 1) * Timeout \in Nat
      /\ \A t \in working : t \in 1..n /\ workingAt[t] \in Nat
  BY ProbeRanges
<1>2. NotMissed /\ Probe!LateTunnelFound /\ (probePc # "done" => result = "none")
  BY DEF ProbeInv
<1>3. cancelledAt' = cancelledAt => Probe!Cancelled' = Probe!Cancelled
  BY DEF Probe!Cancelled, Probe!Never
<1>4. since <= now /\ (probePc = "try" => now <= since + Timeout)
  BY DEF ProbeInv, InTime
<1> USE DEF Probe!Begins, Probe!Returns, Probe!clock, Probe!tunnel
(* Where the tunnel stays as it is. *)
<1>5. CASE Probe!TryFails
  <2>1. /\ probePc = "try" /\ UNCHANGED <<n, now, working, workingAt, cancelledAt>>
        /\ Probe!Cancelled \/ target \notin working \/ workingAt[target] > since
    BY <1>5 DEF Probe!TryFails
  <2>2. ~Probe!Cancelled => \A t \in working : t <= target => workingAt[t] + target * Timeout >= now
    <3> SUFFICES ASSUME ~Probe!Cancelled, NEW t \in working, t <= target
        PROVE  workingAt[t] + target * Timeout >= now
      OBVIOUS
    <3>1. t \in Nat /\ workingAt[t] \in Nat
      BY <1>1
    <3>2. CASE t = target
      <4>1. workingAt[target] > since
        BY <2>1, <3>2
      <4>2. QED
        BY <1>1, <1>4, <2>1, <3>1, <3>2, <4>1
    <3>3. CASE t < target
      <4>1. workingAt[t] + (target - 1) * Timeout >= since
        BY <1>2, <2>1, <3>3 DEF NotMissed
      <4>2. QED
        BY <1>1, <1>4, <2>1, <3>1, <4>1
    <3>4. QED
      BY <1>1, <3>1, <3>2, <3>3
  <2>3. CASE target < n
    <3>1. target' = target + 1 /\ since' = now /\ probePc' = "try" /\ UNCHANGED result
      BY <1>5, <2>3 DEF Probe!TryFails
    <3>2. (target' - 1) * Timeout = target * Timeout
      BY <1>1, <3>1
    <3>3. \A t \in working : t < target + 1 => t <= target
      BY <1>1
    <3>4. NotMissed'
      BY <1>3, <2>1, <2>2, <3>1, <3>2, <3>3 DEF NotMissed
    <3>5. result' = "none"
      BY <1>2, <2>1, <3>1
    <3>6. QED
      BY <3>4, <3>5 DEF Probe!LateTunnelFound
  <2>4. CASE ~(target < n) /\ now > Probe!Deadline
    <3>1. probePc' = "done"
      BY <1>5, <2>4 DEF Probe!TryFails, Probe!RoundFailed
    <3>2. target = n /\ \A t \in working : t <= target
      BY <1>1, <2>4
    <3>3. ~Probe!Cancelled => \A t \in working : workingAt[t] + n * Timeout >= now
      BY <2>2, <3>2
    <3>4. ~Probe!Cancelled => \A t \in working : workingAt[t] + n * Timeout > Probe!Deadline
      BY <1>1, <2>4, <3>3 DEF Probe!Deadline
    <3>5. Probe!LateTunnelFound'
      BY <1>3, <2>1, <3>4 DEF Probe!LateTunnelFound, Probe!Deadline
    <3>6. QED
      BY <3>1, <3>5 DEF NotMissed
  <2>5. CASE ~(target < n) /\ ~(now > Probe!Deadline)
    BY <1>2, <1>5, <2>5 DEF Probe!TryFails, Probe!RoundFailed, NotMissed, Probe!LateTunnelFound
  <2>6. QED
    BY <2>3, <2>4, <2>5
<1>6. CASE Probe!TryConfirms \/ Probe!WaitCancelled
  BY <1>6 DEF Probe!TryConfirms, Probe!WaitCancelled, NotMissed, Probe!LateTunnelFound
<1>7. CASE Probe!WaitOver
  <2>1. target' = 1 /\ result' = "none" /\ UNCHANGED working
    BY <1>2, <1>7 DEF Probe!WaitOver
  <2>2. \A t \in working : ~(t < 1)
    BY <1>1
  <2>3. QED
    BY <2>1, <2>2 DEF NotMissed, Probe!LateTunnelFound
<1>8. CASE Probe!Tick
  BY <1>2, <1>3, <1>8 DEF Probe!Tick, NotMissed, Probe!LateTunnelFound
(* Where it changes. *)
<1>9. CASE Probe!Cancel
  <2>1. Probe!Cancelled'
    BY <1>9, ProbeRanges DEF Probe!Cancel, Probe!Cancelled, Probe!Never
  <2>2. QED
    BY <2>1 DEF NotMissed, Probe!LateTunnelFound
<1>10. ASSUME NEW t \in 1..n, Probe!Works(t) \/ Probe!Breaks(t)
       PROVE  NotMissed' /\ Probe!LateTunnelFound'
  <2>1. result' = "none" /\ UNCHANGED <<target, since, probePc, cancelledAt>>
    BY <1>2, <1>10 DEF Probe!Works, Probe!Breaks
  <2>2. ASSUME NEW u \in working' PROVE workingAt'[u] = now \/ (u \in working /\ workingAt'[u] = workingAt[u])
    <3>1. workingAt \in [1..MaxTargets -> 0..Probe!Never]
      BY DEF ProbeInv, Probe!TypeOK
    <3>2. CASE Probe!Breaks(t)
      <4>1. working' = working \ {t} /\ workingAt' = workingAt
        BY <3>2 DEF Probe!Breaks
      <4>2. u \in working /\ workingAt'[u] = workingAt[u]
        BY <2>2, <4>1
      <4>3. QED
        BY <4>2
    <3>3. CASE Probe!Works(t)
      <4>1. working' = working \cup {t} /\ workingAt' = [workingAt EXCEPT ![t] = now]
        BY <3>3 DEF Probe!Works
      <4>2. t \in 1..MaxTargets
        BY <1>1, TimesAssumption, SMTT(30) DEF ProbeInv, Probe!TypeOK
      <4>3. CASE u = t
        BY <3>1, <4>1, <4>2, <4>3
      <4>4. CASE u # t
        <5>1. u \in working
          BY <2>2, <4>1, <4>4
        <5>2. workingAt'[u] = workingAt[u]
          BY <3>1, <4>1, <4>4
        <5>3. QED
          BY <5>1, <5>2
      <4>5. QED
        BY <4>3, <4>4
    <3>4. QED
      BY <1>10, <3>2, <3>3
  <2>3. NotMissed'
    BY <1>1, <1>2, <1>3, <1>4, <2>1, <2>2 DEF NotMissed
  <2>4. QED
    BY <2>1, <2>3 DEF Probe!LateTunnelFound
<1>11. CASE UNCHANGED Probe!vars
  BY <1>2, <1>3, <1>11 DEF Probe!vars, NotMissed, Probe!LateTunnelFound
<1>12. QED
  BY <1>5, <1>6, <1>7, <1>8, <1>9, <1>10, <1>11 DEF Probe!Next, Probe!CheckStep

LEMMA ProbeKeeps == ProbeInv /\ [Probe!Next]_(Probe!vars) => ProbeInv'
<1> SUFFICES ASSUME ProbeInv, [Probe!Next]_(Probe!vars) PROVE ProbeInv'
  OBVIOUS
<1>1. Probe!TypeOK /\ Probe!CancelledAtOnce
  BY DEF ProbeInv
<1>2. QED
  BY <1>1, ProbeTypes, ProbeKeepsTime, ProbeHears, ProbeFinds DEF ProbeInv

LEMMA ProbeAlways == Spec => []ProbeInv
BY PartsBehave, ProbeInit, ProbeKeeps, PTL DEF Probe!Spec

(* httpProber.Check gives up within the window, one interval and one round, and
   waits for nothing once its context is cancelled. *)
THEOREM ProbeInTimeCorrect == Spec => []ProbeInTime
<1>1. ProbeInv => ProbeInTime
  BY DEF ProbeInv, InTime, ProbeInTime, Probe!ProbeInTime
<1>2. QED
  BY <1>1, ProbeAlways, PTL

(* httpProber.Check gives up on no target, first or fallback, that has worked
   since one round before the end of the window. *)
THEOREM LateTunnelFoundCorrect == Spec => []LateTunnelFound
<1>1. ProbeInv => LateTunnelFound
  BY DEF ProbeInv, LateTunnelFound
<1>2. QED
  BY <1>1, ProbeAlways, PTL
-----------------------------------------------------------------------------
(* The tunnel: the saved state is the one made from the API's answer, and   *)
(* what is installed is computed from it for the stack mode of this run.    *)

Converted ==
    [endpoint |-> device.host,
     v4 |-> Tunnel!joinEndpointHostAndPort(device.v4, device.host),
     v6 |-> Tunnel!joinEndpointHostAndPort(device.v6, device.host),
     addresses |-> device.addresses]

TunnelInv ==
    /\ Tunnel!TypeOK
    /\ planPc \in {"apply", "applied", "refused"} => state = Converted
    /\ planPc = "applied" =>
          /\ desired = [endpoint |-> Tunnel!selectPeerEndpoint(state, stack),
                        addresses |-> Tunnel!InterfaceAddresses(stack, state.addresses),
                        allowed |-> Tunnel!AllowedIPs(stack)]
          /\ Tunnel!validateDesiredConfig(desired)
          /\ plan = Tunnel!BuildPlan(stack, Tunnel!selectPeerEndpointAddress(state, stack))

(* The endpoint of one family in a saved state: none, or the address the API
   gave with the port it gave beside the host name. *)
Fitting(e, family) ==
    \/ e = Tunnel!Empty
    \/ /\ e = Tunnel!Text(family, device.host.port, family = "v6" /\ device.host.port # NoPort)

LEMMA HostText ==
    ASSUME Tunnel!TypeOK
    PROVE  /\ device.host.host \in {"", "name"}
           /\ Tunnel!Splits(device.host) <=> device.host.port # NoPort
           /\ device.v4 = Tunnel!Empty \/ device.v4.host = "v4"
           /\ device.v6 = Tunnel!Empty \/ device.v6.host = "v6"
<1>1. device.host \in {Tunnel!Text("name", p, FALSE) : p \in Ports \cup {NoPort}} \cup {Tunnel!Empty}
  BY DEF Tunnel!TypeOK, Tunnel!Devices
<1>2. device.host.host \in {"", "name"}
  <2>1. CASE device.host = Tunnel!Empty
    <3>1. Tunnel!Empty.host = ""
      BY DEF Tunnel!Empty
    <3>2. QED
      BY <2>1, <3>1
  <2>2. CASE \E p \in Ports \cup {NoPort} : device.host = Tunnel!Text("name", p, FALSE)
    BY <2>2 DEF Tunnel!Text
  <2>3. QED
    BY <1>1, <2>1, <2>2
<1>3. device.v4 \in {Tunnel!Empty} \cup {Tunnel!Text("v4", p, FALSE) : p \in {NoPort, 0, WGPort}}
  BY DEF Tunnel!TypeOK, Tunnel!Devices
<1>4. device.v6 \in {Tunnel!Empty, Tunnel!Text("v6", NoPort, FALSE), Tunnel!Text("v6", NoPort, TRUE)}
                    \cup {Tunnel!Text("v6", p, TRUE) : p \in {0, WGPort}}
  BY DEF Tunnel!TypeOK, Tunnel!Devices
<1>5. device.v4 = Tunnel!Empty \/ device.v4.host = "v4"
  BY <1>3 DEF Tunnel!Text
<1>6. device.v6 = Tunnel!Empty \/ device.v6.host = "v6"
  BY <1>4 DEF Tunnel!Text
<1>7. QED
  BY <1>2, <1>5, <1>6 DEF Tunnel!Splits

LEMMA ConvertedFits ==
    Tunnel!TypeOK => Fitting(Converted.v4, "v4") /\ Fitting(Converted.v6, "v6")
<1> SUFFICES ASSUME Tunnel!TypeOK PROVE Fitting(Converted.v4, "v4") /\ Fitting(Converted.v6, "v6")
  OBVIOUS
<1> USE HostText DEF Converted, Fitting, Tunnel!joinEndpointHostAndPort, Tunnel!JoinHostPort
<1>1. Fitting(Converted.v4, "v4")
  <2>1. CASE device.v4 = Tunnel!Empty
    BY <2>1
  <2>2. CASE device.v4 # Tunnel!Empty /\ device.host.port # NoPort
    BY <2>2 DEF Tunnel!Text
  <2>3. CASE device.v4 # Tunnel!Empty /\ device.host.port = NoPort
    BY <2>3 DEF Tunnel!Text
  <2>4. QED
    BY <2>1, <2>2, <2>3
<1>2. Fitting(Converted.v6, "v6")
  <2>1. CASE device.v6 = Tunnel!Empty
    BY <2>1
  <2>2. CASE device.v6 # Tunnel!Empty /\ device.host.port # NoPort
    BY <2>2 DEF Tunnel!Text
  <2>3. CASE device.v6 # Tunnel!Empty /\ device.host.port = NoPort
    BY <2>3 DEF Tunnel!Text
  <2>4. QED
    BY <2>1, <2>2, <2>3
<1>3. QED
  BY <1>1, <1>2

(* Such an endpoint is tried as it is, and is an address in the sense of the
   router exactly where it is one in the sense of WireGuard. *)
LEMMA FittingTried ==
    ASSUME Tunnel!TypeOK, NEW e, NEW family \in {"v4", "v6"}, Fitting(e, family)
    PROVE  /\ Tunnel!ensureEndpointPort(e, device.host) = e
           /\ Tunnel!parseEndpointAddr(e) = IF e = Tunnel!Empty THEN {} ELSE {family}
           /\ e # Tunnel!Empty => e.port = device.host.port
<1>1. CASE e = Tunnel!Empty
  BY <1>1 DEF Tunnel!Empty, Tunnel!ensureEndpointPort, Tunnel!joinEndpointHostAndPort,
              Tunnel!parseEndpointAddr, Tunnel!Splits, Tunnel!Families
<1>2. CASE e # Tunnel!Empty
  <2>1. e = [host |-> family, port |-> device.host.port,
             brackets |-> (family = "v6" /\ device.host.port # NoPort)]
    BY <1>2 DEF Fitting, Tunnel!Text
  <2>2. e.port = device.host.port /\ e.host = family
    BY <2>1
  <2>3. Tunnel!parseEndpointAddr(e) = {family}
    BY <2>1 DEF Tunnel!parseEndpointAddr, Tunnel!Families
  <2>4. Tunnel!ensureEndpointPort(e, device.host) = e
    <3>1. CASE device.host.port # NoPort
      BY <2>1, <3>1 DEF Tunnel!ensureEndpointPort, Tunnel!Splits
    <3>2. CASE device.host.port = NoPort
      <4>1. ~Tunnel!Splits(e) /\ ~Tunnel!Splits(device.host)
        BY <2>2, <3>2 DEF Tunnel!Splits
      <4>2. Tunnel!Text(e.host, NoPort, FALSE) = e
        BY <2>1, <3>2 DEF Tunnel!Text
      <4>3. QED
        BY <1>2, <4>1, <4>2 DEF Tunnel!ensureEndpointPort, Tunnel!joinEndpointHostAndPort
    <3>3. QED
      BY <3>1, <3>2
  <2>5. QED
    BY <1>2, <2>2, <2>3, <2>4
<1>3. QED
  BY <1>1, <1>2

LEMMA FirstOfTwo ==
    ASSUME NEW S, S \subseteq 1..2, S # {} PROVE \E i \in S : \A j \in S : i <= j
<1>1. CASE 1 \in S
  BY <1>1
<1>2. CASE 1 \notin S
  <2>1. \A j \in S : j = 2
    BY <1>2
  <2>2. PICK k \in S : TRUE
    OBVIOUS
  <2>3. 2 \in S
    BY <2>1, <2>2
  <2>4. QED
    BY <2>1, <2>3
<1>3. QED
  BY <1>1, <1>2

(* The two searches, for WireGuard and for the router, end at the same place. *)
LEMMA SearchesAgree ==
    ASSUME Tunnel!TypeOK, state = Converted
    PROVE  /\ Tunnel!parseEndpointAddr(Tunnel!selectPeerEndpoint(state, stack))
                  = Tunnel!selectPeerEndpointAddress(state, stack)
           /\ Tunnel!selectPeerEndpoint(state, stack).port = device.host.port
           /\ Tunnel!selectPeerEndpoint(state, stack) \in {state.endpoint, state.v4, state.v6}
<1> DEFINE c == Tunnel!Candidates(stack, state)
           tried == [i \in DOMAIN c |-> Tunnel!ensureEndpointPort(c[i], state.endpoint)]
           usable == {i \in DOMAIN c : tried[i] # Tunnel!Empty}
           valid == {i \in DOMAIN c : Tunnel!parseEndpointAddr(c[i]) # {}}
           best == CHOOSE i \in usable : \A j \in usable : i <= j
<1>1. state.endpoint = device.host
  BY DEF Converted
<1>2. DOMAIN c \subseteq 1..2
      /\ \A i \in DOMAIN c :
            c[i] \in {state.v4, state.v6} /\ (Fitting(c[i], "v4") \/ Fitting(c[i], "v6"))
  <2>1. Fitting(state.v4, "v4") /\ Fitting(state.v6, "v6")
    BY ConvertedFits
  <2>2. stack \in {"4", "6", "dual"}
    BY DEF Tunnel!TypeOK
  <2>3. c \in {<<state.v4>>, <<state.v6>>, <<state.v4, state.v6>>}
    BY <2>2 DEF Tunnel!Candidates
  <2>4. QED
    BY <2>1, <2>3
<1>3. \A i \in DOMAIN c :
          /\ tried[i] = c[i]
          /\ Tunnel!parseEndpointAddr(c[i]) # {} <=> c[i] # Tunnel!Empty
          /\ c[i] # Tunnel!Empty => c[i].port = device.host.port
  BY <1>1, <1>2, FittingTried
<1>4. usable = valid
  BY <1>3
<1>5. /\ Tunnel!selectPeerEndpoint(state, stack)
             = IF usable = {} THEN state.endpoint ELSE tried[best]
      /\ Tunnel!selectPeerEndpointAddress(state, stack)
             = IF valid = {} THEN {}
               ELSE Tunnel!parseEndpointAddr(c[CHOOSE i \in valid : \A j \in valid : i <= j])
  BY DEF Tunnel!selectPeerEndpoint, Tunnel!selectPeerEndpointAddress
<1>6. CASE usable = {}
  <2>1. Tunnel!parseEndpointAddr(device.host) = {}
    BY HostText DEF Tunnel!parseEndpointAddr, Tunnel!Families
  <2>2. QED
    BY <1>1, <1>4, <1>5, <1>6, <2>1
<1>7. CASE usable # {}
  <2>1. best \in usable
    <3>1. usable \subseteq 1..2
      BY <1>2
    <3>2. QED
      BY <1>7, <3>1, FirstOfTwo
  <2>2. tried[best] = c[best] /\ c[best].port = device.host.port /\ c[best] \in {state.v4, state.v6}
    BY <1>2, <1>3, <2>1
  <2>3. QED
    BY <1>4, <1>5, <1>7, <2>2
<1>8. QED
  BY <1>6, <1>7

LEMMA TunnelInit == Tunnel!Init => TunnelInv
<1> SUFFICES ASSUME Tunnel!Init PROVE TunnelInv
  OBVIOUS
<1>1. Tunnel!Empty \in Tunnel!EndpointTexts
  BY DEF Tunnel!Empty, Tunnel!EndpointTexts
<1>2. /\ {state.endpoint, state.v4, state.v6, desired.endpoint} = {Tunnel!Empty}
      /\ state.addresses = {} /\ desired.addresses = {} /\ desired.allowed = {}
  BY DEF Tunnel!Init, Tunnel!NoState, Tunnel!NoConfig
<1>3. plan \in [tunnel : SUBSET Tunnel!Families, bypass : SUBSET Tunnel!Families]
  BY DEF Tunnel!Init, Tunnel!NoPlan
<1>4. Tunnel!TypeOK
  BY <1>1, <1>2, <1>3 DEF Tunnel!Init, Tunnel!TypeOK
<1>5. QED
  BY <1>4 DEF Tunnel!Init, TunnelInv

LEMMA TextInType ==
    ASSUME NEW h \in {"v4", "v6", "name", ""}, NEW p \in Ports \cup {0, NoPort}, NEW b \in BOOLEAN
    PROVE  Tunnel!Text(h, p, b) \in Tunnel!EndpointTexts
BY DEF Tunnel!Text, Tunnel!EndpointTexts, Tunnel!Families

LEMMA EmptyInType == Tunnel!Empty \in Tunnel!EndpointTexts
BY DEF Tunnel!Empty, Tunnel!EndpointTexts

LEMMA ConvertedTypes ==
    ASSUME Tunnel!TypeOK
    PROVE  /\ {Converted.endpoint, Converted.v4, Converted.v6} \subseteq Tunnel!EndpointTexts
           /\ Converted.addresses \subseteq Tunnel!Families
<1>1. device.host \in {Tunnel!Text("name", p, FALSE) : p \in Ports \cup {NoPort}} \cup {Tunnel!Empty}
      /\ device.addresses \subseteq Tunnel!Families
  BY DEF Tunnel!TypeOK, Tunnel!Devices
<1>2. device.host \in Tunnel!EndpointTexts
  BY <1>1, TextInType, EmptyInType
<1>3. device.host.port \in Ports \cup {0, NoPort}
  BY <1>2 DEF Tunnel!EndpointTexts
<1>4. ASSUME NEW family \in {"v4", "v6"}, NEW e, Fitting(e, family) PROVE e \in Tunnel!EndpointTexts
  BY <1>3, <1>4, TextInType, EmptyInType DEF Fitting
<1>5. Converted.v4 \in Tunnel!EndpointTexts /\ Converted.v6 \in Tunnel!EndpointTexts
  BY <1>4, ConvertedFits
<1>6. Converted.endpoint = device.host /\ Converted.addresses = device.addresses
  BY DEF Converted
<1>7. QED
  BY <1>1, <1>2, <1>5, <1>6

LEMMA TunnelKeeps == TunnelInv /\ [Tunnel!Next]_(Tunnel!vars) => TunnelInv'
<1> SUFFICES ASSUME TunnelInv, [Tunnel!Next]_(Tunnel!vars) PROVE TunnelInv'
  OBVIOUS
<1> USE DEF TunnelInv, Converted
<1>1. CASE Tunnel!Convert
  <2>1. UNCHANGED <<device, stack, desired, plan>> /\ planPc' \in {"apply", "rejected"}
    BY <1>1 DEF Tunnel!Convert
  <2>2. (state' = Converted /\ planPc' = "apply") \/ (UNCHANGED state /\ planPc' = "rejected")
    BY <1>1 DEF Tunnel!Convert
  <2>3. Tunnel!TypeOK'
    BY <2>1, <2>2, ConvertedTypes DEF Tunnel!TypeOK
  <2>4. QED
    BY <2>1, <2>2, <2>3
<1>2. CASE Tunnel!Apply
  <2>1. UNCHANGED <<device, stack, state>> /\ state = Converted /\ planPc' \in {"applied", "refused"}
    BY <1>2 DEF Tunnel!Apply
  <2>2. desired' = [endpoint |-> Tunnel!selectPeerEndpoint(state, stack),
                    addresses |-> Tunnel!InterfaceAddresses(stack, state.addresses),
                    allowed |-> Tunnel!AllowedIPs(stack)]
    BY <1>2 DEF Tunnel!Apply
  <2>3. \/ /\ planPc' = "applied" /\ Tunnel!validateDesiredConfig(desired')
           /\ plan' = Tunnel!BuildPlan(stack, Tunnel!selectPeerEndpointAddress(state, stack))
        \/ planPc' = "refused" /\ plan' = Tunnel!NoPlan
    BY <1>2 DEF Tunnel!Apply
  <2>4. Tunnel!TypeOK'
    <3>1. Tunnel!selectPeerEndpoint(state, stack) \in Tunnel!EndpointTexts
      BY <2>1, SearchesAgree DEF Tunnel!TypeOK
    <3>2. Tunnel!selectPeerEndpointAddress(state, stack) \subseteq Tunnel!Families
      BY <2>1, SearchesAgree DEF Tunnel!parseEndpointAddr
    <3>3. Tunnel!AllowedIPs(stack) \subseteq Tunnel!Families /\ Tunnel!tunnelRoutes(stack) \subseteq Tunnel!Families
      BY DEF Tunnel!AllowedIPs, Tunnel!tunnelRoutes, Tunnel!Families
    <3>4. plan' \in [tunnel : SUBSET Tunnel!Families, bypass : SUBSET Tunnel!Families]
      BY <2>3, <3>2, <3>3 DEF Tunnel!BuildPlan, Tunnel!NoPlan
    <3>5. QED
      BY <2>1, <2>2, <2>3, <3>1, <3>3, <3>4 DEF Tunnel!TypeOK, Tunnel!InterfaceAddresses
  <2>5. QED
    BY <2>1, <2>2, <2>3, <2>4
<1>3. CASE Tunnel!Restart
  <2>1. UNCHANGED <<device, state>> /\ stack' \in {"4", "6", "dual"} /\ state = Converted
        /\ planPc' = "apply" /\ desired' = Tunnel!NoConfig /\ plan' = Tunnel!NoPlan
    BY <1>3 DEF Tunnel!Restart
  <2>2. Tunnel!TypeOK'
    BY <2>1, EmptyInType DEF Tunnel!TypeOK, Tunnel!NoConfig, Tunnel!NoPlan
  <2>3. QED
    BY <2>1, <2>2
<1>4. CASE UNCHANGED Tunnel!vars
  BY <1>4 DEF Tunnel!vars, Tunnel!TypeOK
<1>5. QED
  BY <1>1, <1>2, <1>3, <1>4 DEF Tunnel!Next

LEMMA TunnelAlways == Spec => []TunnelInv
BY PartsBehave, TunnelInit, TunnelKeeps, PTL DEF Tunnel!Spec

(* The endpoint WireGuard sends to, its port, the route around the tunnel and
   the routes into it fit together, whatever the API answered and whichever
   stack modes the runs were given. *)
THEOREM EndpointFitsCorrect == Spec => []EndpointFits
<1>1. TunnelInv => EndpointFits
  <2> SUFFICES ASSUME TunnelInv, planPc = "applied"
      PROVE  /\ plan.bypass = Tunnel!parseEndpointAddr(desired.endpoint)
             /\ desired.endpoint.port = device.host.port
             /\ plan.tunnel = desired.allowed /\ desired.addresses \subseteq plan.tunnel
             /\ stack # "dual" => desired.addresses = plan.tunnel
    BY DEF EndpointFits, Tunnel!EndpointFits, Tunnel!BypassCoversEndpoint,
           Tunnel!EndpointKeepsPort, Tunnel!RoutesMatchTunnel
  <2>1. Tunnel!TypeOK /\ state = Converted
    BY DEF TunnelInv
  <2>2. /\ desired.endpoint = Tunnel!selectPeerEndpoint(state, stack)
        /\ desired.addresses = Tunnel!InterfaceAddresses(stack, state.addresses)
        /\ desired.allowed = Tunnel!AllowedIPs(stack)
        /\ desired.addresses # {}
        /\ plan.tunnel = Tunnel!tunnelRoutes(stack)
        /\ plan.bypass = Tunnel!selectPeerEndpointAddress(state, stack)
    BY DEF TunnelInv, Tunnel!validateDesiredConfig, Tunnel!BuildPlan
  <2>3. plan.bypass = Tunnel!parseEndpointAddr(desired.endpoint)
        /\ desired.endpoint.port = device.host.port
    BY <2>1, <2>2, SearchesAgree
  <2>4. plan.tunnel = desired.allowed /\ desired.addresses \subseteq plan.tunnel
    BY <2>2 DEF Tunnel!AllowedIPs, Tunnel!tunnelRoutes, Tunnel!InterfaceAddresses
  <2>5. ASSUME stack # "dual" PROVE desired.addresses = plan.tunnel
    <3>1. plan.tunnel = {"v4"} \/ plan.tunnel = {"v6"}
      BY <2>1, <2>2, <2>5 DEF Tunnel!TypeOK, Tunnel!tunnelRoutes
    <3>2. QED
      BY <2>2, <2>4, <3>1
  <2>6. QED
    BY <2>3, <2>4, <2>5
<1>2. QED
  BY <1>1, TunnelAlways, PTL

(* Every variable keeps its type in each of the three parts. *)
THEOREM StartupTypeCorrect == Spec => []TypeOK
<1>1. ConfigInv /\ TunnelInv /\ ProbeInv => TypeOK
  BY DEF ConfigInv, TunnelInv, ProbeInv, TypeOK
<1>2. QED
  BY <1>1, ConfigAlways, TunnelAlways, ProbeAlways, PTL
=============================================================================
