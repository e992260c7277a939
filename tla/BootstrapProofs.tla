---------------------------- MODULE BootstrapProofs ----------------------------
(***************************************************************************)
(* Proofs about the life of the registration, for any devices, licences    *)
(* and number of incidents.  That of the store comes from StateStoreProofs *)
(* as every step of the process is one of the store or leaves it alone.    *)
(***************************************************************************)
EXTENDS Bootstrap, FiniteSetTheorems, TLAPS

StoreP == INSTANCE StateStoreProofs WITH Values <- States, NoState <- Empty

-----------------------------------------------------------------------------
(* The inductive invariant, in parts.                                       *)

(* A Save is under way exactly in the step "saving", and of the current state;
   once the service runs, that is the one in state.json. *)
SavesCurrent ==
    /\ step # "idle" <=> pc = "saving"
    /\ pc = "saving" => pending = current /\ ret = "none"
    /\ pc = "run" => file.data = current

(* No state is in use, stored or in memory whose device the API does not have. *)
OnlyRegistered ==
    \A s \in {file.data, onDisk.data, tmp.data, pending, loaded, current} :
        s \in States => s.id \in registered

(* From the first request that succeeded on there are credentials. *)
WithDevice == {"refresh_get", "reg_enable", "reg_get", "reg_license", "license", "save",
               "saving", "run"}
HasDevice == pc \in WithDevice => current \in States

(* A state that came from the API is that of an account with WARP on, ... *)
Asked == {"reg_license", "license", "save", "saving", "run"}
EnabledWhenAsked ==
    /\ pc \in {"refresh_get", "reg_get"} => current.id \in enabled
    /\ pc \in Asked /\ source # "reused" => current.id \in enabled

(* ... with the licence of the account, and from the save on the configured one. *)
LicenseSoFar ==
    /\ pc \in Asked /\ source # "reused" => license[current.id] = current.license
    /\ pc \in {"save", "saving", "run"} => cfgLicense \in {NoLicense, current.license}

(* Where there is nothing to reuse, or it turned out useless, all registrations
   so far are paid for: one more may follow. *)
NextIsFree ==
    \/ pc \in {"reuse", "register"}
    \/ pc = "refresh_enable" /\ ~HasCredentials(current)
    \/ pc \in {"start", "exited"} /\ ~HasCredentials(file.data)

PaidFor ==
    /\ IsFiniteSet(registered)
    /\ Cardinality(registered) <= incidents + IF NextIsFree THEN 0 ELSE 1

BInv ==
    /\ TypeOK /\ StoreP!IInv
    /\ SavesCurrent /\ OnlyRegistered /\ HasDevice /\ EnabledWhenAsked /\ LicenseSoFar
    /\ PaidFor
-----------------------------------------------------------------------------
(* Every step of the process is one of the store, or leaves it alone.       *)

LEMMA StatesDistinct == StoreP!Distinct
BY StoreAssumption DEF StoreP!Distinct

LEMMA SameStore ==
    /\ Store!Load => StoreP!Load
    /\ Store!SaveStep => StoreP!SaveStep
    /\ Store!ProcessEnds => StoreP!ProcessEnds
    /\ Store!WriteBack => StoreP!WriteBack
    /\ Store!MachineStops => StoreP!MachineStops
    /\ UNCHANGED store => UNCHANGED StoreP!vars
<1> USE DEF Store!dir, StoreP!dir, Store!Goes, StoreP!Goes, Store!Return, StoreP!Return,
            Store!Blank, StoreP!Blank, Store!SaveFails, StoreP!SaveFails,
            Store!Forgets, StoreP!Forgets
<1>1. Store!Load => StoreP!Load
  BY DEF Store!Load, StoreP!Load
<1>2. Store!SaveStep => StoreP!SaveStep
  <2>1. Store!SaveCreate => StoreP!SaveCreate
    BY DEF Store!SaveCreate, StoreP!SaveCreate
  <2>2. Store!SaveWrite => StoreP!SaveWrite
    BY DEF Store!SaveWrite, StoreP!SaveWrite
  <2>3. Store!SaveSync => StoreP!SaveSync
    BY DEF Store!SaveSync, StoreP!SaveSync
  <2>4. Store!SaveRename => StoreP!SaveRename
    BY DEF Store!SaveRename, StoreP!SaveRename
  <2>5. Store!SaveChmod => StoreP!SaveChmod
    BY DEF Store!SaveChmod, StoreP!SaveChmod
  <2>6. QED
    BY <2>1, <2>2, <2>3, <2>4, <2>5 DEF Store!SaveStep, StoreP!SaveStep
<1>3. Store!ProcessEnds => StoreP!ProcessEnds
  BY DEF Store!ProcessEnds, StoreP!ProcessEnds
<1>4. Store!WriteBack => StoreP!WriteBack
  BY DEF Store!WriteBack, StoreP!WriteBack
<1>5. Store!MachineStops => StoreP!MachineStops
  BY DEF Store!MachineStops, StoreP!MachineStops
<1>6. UNCHANGED store => UNCHANGED StoreP!vars
  BY DEF store, StoreP!vars
<1>7. QED
  BY <1>1, <1>2, <1>3, <1>4, <1>5, <1>6

LEMMA SameTypes == StoreP!IInv => Store!TypeOK
BY DEF StoreP!IInv, StoreP!TypeOK, Store!TypeOK, StoreP!Entry, Store!Entry

LEMMA StoreInit == Init => StoreP!Init
BY DEF Init, Store!Init, StoreP!Init, Store!Absent, StoreP!Absent, Store!Blank, StoreP!Blank

(* All steps but those that call the store leave it alone. *)
Elsewhere ==
    \/ RefreshEnable \/ RefreshGet \/ Reuse \/ Register \/ RegisterEnable \/ RegisterGet
    \/ RegisterLicense \/ ApplyLicense \/ Run

LEMMA StoreAlone == Elsewhere => UNCHANGED store
BY DEF Elsewhere, RefreshEnable, RefreshGet, Reuse, Register, RegisterEnable, RegisterGet,
       RegisterLicense, ApplyLicense, Run

LEMMA StoreStep == HasDevice /\ [Next]_vars => [StoreP!Next]_(StoreP!vars)
<1> SUFFICES ASSUME HasDevice, [Next]_vars PROVE [StoreP!Next]_(StoreP!vars)
  OBVIOUS
<1>1. CASE AppLoad
  BY <1>1, SameStore DEF AppLoad, StoreP!Next
<1>2. CASE Save
  <2>1. current \in States
    BY <1>2 DEF Save, HasDevice, WithDevice
  <2>2. StoreP!CallSave(current)
    BY <1>2 DEF Save, Store!CallSave, StoreP!CallSave, Store!dir, StoreP!dir
  <2>3. QED
    BY <2>1, <2>2 DEF StoreP!Next
<1>3. CASE SaveStep
  BY <1>3, SameStore DEF SaveStep, StoreP!Next
<1>4. CASE Restart \/ Crash
  BY <1>4, SameStore DEF Restart, Crash, StoreP!Next
<1>5. CASE WriteBack
  BY <1>5, SameStore DEF WriteBack, StoreP!Next
<1>6. CASE PowerFails
  BY <1>6, SameStore DEF PowerFails, StoreP!Next
<1>7. CASE Elsewhere
  BY <1>7, StoreAlone, SameStore
<1>8. CASE UNCHANGED vars
  BY <1>8, SameStore DEF vars
<1>9. QED
  BY <1>1, <1>2, <1>3, <1>4, <1>5, <1>6, <1>7, <1>8 DEF Next, Step, Elsewhere

LEMMA StoreKeeps == StoreP!IInv /\ HasDevice /\ [Next]_vars => StoreP!IInv'
BY StatesDistinct, StoreStep, StoreP!NextInv
-----------------------------------------------------------------------------
(* The parts, one by one.                                                   *)

LEMMA InitBInv == Init => BInv
<1> SUFFICES ASSUME Init PROVE BInv
  OBVIOUS
<1>1. StoreP!IInv
  BY StatesDistinct, StoreInit, StoreP!InitInv
<1>2. TypeOK
  BY <1>1, SameTypes, BoundAssumption DEF Init, TypeOK
<1>3. SavesCurrent /\ HasDevice /\ EnabledWhenAsked /\ LicenseSoFar
  BY DEF Init, Store!Init, SavesCurrent, HasDevice, WithDevice, EnabledWhenAsked, Asked, LicenseSoFar
<1>4. OnlyRegistered
  <2>1. {file.data, onDisk.data, tmp.data, pending, loaded, current} \subseteq {Empty, Torn, NoValue}
    BY DEF Init, Store!Init, Store!Absent, Store!Blank
  <2>2. Empty \notin States
    BY NoneAssumption DEF States, Empty
  <2>3. QED
    BY <2>1, <2>2, StoreAssumption DEF OnlyRegistered
<1>5. PaidFor
  BY FS_EmptySet DEF Init, PaidFor, NextIsFree
<1>6. QED
  BY <1>1, <1>2, <1>3, <1>4, <1>5 DEF BInv

(* That current is a state when its licence is replaced, and registered when
   WARP is switched on, is what the types need of the other parts. *)
LEMMA NextTypes == BInv /\ [Next]_vars => TypeOK'
<1> SUFFICES ASSUME BInv, [Next]_vars PROVE TypeOK'
  OBVIOUS
<1> USE BoundAssumption
<1> USE DEF BInv, TypeOK, api
<1>0. Store!TypeOK'
  <2>1. StoreP!IInv'
    BY StoreKeeps
  <2>2. QED
    BY <2>1, SameTypes, PTL
<1>1. CASE AppLoad
  <2>1. loaded' \in States \cup {Empty}
    BY <1>0 DEF Store!TypeOK
  <2>2. QED
    BY <1>0, <1>1, <2>1 DEF AppLoad, Fails, Goes, Incident
<1>2. CASE RefreshEnable
  <2>1. HasCredentials(current) => current.id \in registered
    BY DEF OnlyRegistered, HasCredentials, Empty
  <2>2. QED
    BY <1>0, <1>2, <2>1 DEF RefreshEnable, Request, SetWarpEnabled, Goes, Incident
<1>3. CASE RefreshGet \/ RegisterGet
  <2>1. current \in States
    BY <1>3 DEF RefreshGet, RegisterGet, HasDevice, WithDevice
  <2>2. \A u \in BOOLEAN : stateFromWarpDevice(current.id, u) \in States
    BY <2>1 DEF stateFromWarpDevice, States
  <2>3. current' \in States
    BY <1>3, <2>1, <2>2 DEF RefreshGet, RegisterGet, GetSourceDevice, Goes
  <2>4. QED
    BY <1>0, <1>3, <2>3 DEF RefreshGet, RegisterGet, GetSourceDevice, Goes, Incident
<1>4. CASE Reuse
  BY <1>0, <1>4 DEF Reuse, Goes
<1>5. CASE Register
  <2>1. \A d \in Devices : [Empty EXCEPT !.id = d] \in States
    BY DEF Empty, States
  <2>2. QED
    BY <1>0, <1>5, <2>1 DEF Register, Fails, Goes, Incident
<1>6. CASE RegisterEnable
  <2>1. current.id \in registered
    BY <1>6 DEF RegisterEnable, HasDevice, WithDevice, OnlyRegistered
  <2>2. QED
    BY <1>0, <1>6, <2>1 DEF RegisterEnable, Request, SetWarpEnabled, Fails, Goes, Incident
<1>7. CASE RegisterLicense \/ ApplyLicense
  <2>1. current \in States
    BY <1>7 DEF RegisterLicense, ApplyLicense, HasDevice, WithDevice
  <2>2. [current EXCEPT !.license = cfgLicense] \in States
    BY <2>1 DEF States
  <2>3. [license EXCEPT ![current.id] = cfgLicense] \in [Devices -> Licenses \cup {NoLicense}]
    OBVIOUS
  <2>4. license' \in [Devices -> Licenses \cup {NoLicense}] /\ UNCHANGED <<registered, enabled>>
    BY <1>7, <2>3 DEF RegisterLicense, ApplyLicense, Request, UpdateLicense
  <2>5. current' \in States
    BY <1>7, <2>1, <2>2 DEF RegisterLicense, ApplyLicense, Request, Licensed, Fails, Goes
  <2>6. QED
    BY <1>0, <1>7, <2>4, <2>5
    DEF RegisterLicense, ApplyLicense, Request, Licensed, Fails, Goes, Incident
<1>8. CASE Save \/ SaveStep
  BY <1>0, <1>8 DEF Save, SaveStep, Fails, Goes, Incident
<1>9. CASE Run
  BY <1>0, <1>9 DEF Run, Goes, Incident
<1>10. CASE Restart \/ Crash
  BY <1>0, <1>10 DEF Restart, Crash, Incident
<1>11. CASE WriteBack \/ PowerFails
  BY <1>0, <1>11 DEF WriteBack, PowerFails, Goes, Incident
<1>12. CASE UNCHANGED vars
  BY <1>0, <1>12 DEF vars
<1>13. QED
  BY <1>1, <1>2, <1>3, <1>4, <1>5, <1>6, <1>7, <1>8, <1>9, <1>10, <1>11, <1>12 DEF Next, Step

LEMMA NextSavesCurrent == BInv /\ [Next]_vars => SavesCurrent'
<1> SUFFICES ASSUME BInv, [Next]_vars PROVE SavesCurrent'
  OBVIOUS
<1> USE DEF BInv, SavesCurrent, store
<1>1. CASE AppLoad
  BY <1>1 DEF AppLoad, Store!Load, Fails, Goes
<1>2. CASE Elsewhere
  <2>1. UNCHANGED <<file, step, pending, ret>>
    BY <1>2, StoreAlone
  <2>2. pc \notin {"saving"} /\ pc' \notin {"saving", "run"}
    BY <1>2 DEF Elsewhere, RefreshEnable, RefreshGet, Reuse, Register, RegisterEnable, RegisterGet,
       RegisterLicense, ApplyLicense, Run, Request, GetSourceDevice, Licensed, Fails, Goes
  <2>3. QED
    BY <2>1, <2>2
<1>3. CASE Save
  BY <1>3 DEF Save, Store!CallSave, Store!dir, Goes
<1>4. CASE SaveStep
  <2>1. CASE step' # "idle"
    <3>1. UNCHANGED <<pending, ret>>
      BY <1>4, <2>1 DEF SaveStep, Store!SaveStep, Store!SaveCreate, Store!SaveWrite,
         Store!SaveSync, Store!SaveRename, Store!SaveChmod, Store!SaveFails, Store!Return, Store!Goes
    <3>2. UNCHANGED <<pc, current>>
      BY <1>4, <2>1 DEF SaveStep, Store!SaveStep, Store!SaveCreate, Store!SaveWrite,
         Store!SaveSync, Store!SaveRename, Store!SaveChmod, Store!SaveFails, Store!Return,
         Store!Goes, Goes, Fails
    <3>3. QED
      BY <1>4, <2>1, <3>1, <3>2 DEF SaveStep
  <2>2. CASE step' = "idle" /\ ret' = "err"
    BY <1>4, <2>2 DEF SaveStep, Fails, Goes
  <2>3. CASE step' = "idle" /\ ret' # "err"
    <3>1. step = "chmod" /\ UNCHANGED file
      BY <1>4, <2>3 DEF SaveStep, Store!SaveStep, Store!SaveCreate, Store!SaveWrite,
         Store!SaveSync, Store!SaveRename, Store!SaveChmod, Store!SaveFails, Store!Return,
         Store!Goes, Store!dir
    <3>2. file.data = pending
      BY <3>1 DEF StoreP!IInv, StoreP!Flow
    <3>3. pc' # "saving" /\ UNCHANGED current
      BY <1>4, <2>3 DEF SaveStep, Fails, Goes
    <3>4. QED
      BY <1>4, <2>3, <3>1, <3>2, <3>3 DEF SaveStep
  <2>4. QED
    BY <2>1, <2>2, <2>3
<1>5. CASE Restart \/ Crash
  BY <1>5 DEF Restart, Crash, Store!ProcessEnds, Store!Forgets
<1>6. CASE WriteBack
  BY <1>6 DEF WriteBack, Store!WriteBack
<1>7. CASE PowerFails
  BY <1>7 DEF PowerFails, Store!MachineStops, Store!Forgets, Goes
<1>8. CASE UNCHANGED vars
  BY <1>8 DEF vars
<1>9. QED
  BY <1>1, <1>2, <1>3, <1>4, <1>5, <1>6, <1>7, <1>8 DEF Next, Step, Elsewhere

(* What the store holds after a step was in it before, or was being saved, or
   is no state at all. *)
LEMMA StoreMoves ==
    [StoreP!Next]_(StoreP!vars) /\ StoreP!IInv =>
        /\ {file'.data, onDisk'.data, tmp'.data, loaded'} \subseteq
               {file.data, onDisk.data, tmp.data, pending, loaded, Torn, Empty}
        /\ step # "idle" => pending' \in {pending, NoValue}
<1> SUFFICES ASSUME [StoreP!Next]_(StoreP!vars), StoreP!IInv
    PROVE  /\ {file'.data, onDisk'.data, tmp'.data, loaded'} \subseteq
                  {file.data, onDisk.data, tmp.data, pending, loaded, Torn, Empty}
           /\ step # "idle" => pending' \in {pending, NoValue}
  OBVIOUS
<1> USE DEF StoreP!IInv, StoreP!TypeOK, StoreP!Entry, StoreP!dir, StoreP!Blank, StoreP!Forgets
<1>1. CASE \E v \in States : StoreP!CallSave(v)
  BY <1>1 DEF StoreP!CallSave
<1>2. CASE StoreP!SaveStep
  <2> USE DEF StoreP!SaveFails, StoreP!Return, StoreP!Goes
  <2>1. CASE StoreP!SaveCreate
    BY <2>1 DEF StoreP!SaveCreate
  <2>2. CASE StoreP!SaveWrite
    BY <2>2 DEF StoreP!SaveWrite
  <2>3. CASE StoreP!SaveSync
    BY <2>3 DEF StoreP!SaveSync
  <2>4. CASE StoreP!SaveRename
    BY <2>4 DEF StoreP!SaveRename
  <2>5. CASE StoreP!SaveChmod
    BY <2>5 DEF StoreP!SaveChmod
  <2>6. QED
    BY <1>2, <2>1, <2>2, <2>3, <2>4, <2>5 DEF StoreP!SaveStep
<1>3. CASE StoreP!Load
  BY <1>3 DEF StoreP!Load
<1>4. CASE StoreP!ProcessEnds
  BY <1>4 DEF StoreP!ProcessEnds
<1>5. CASE StoreP!WriteBack
  BY <1>5 DEF StoreP!WriteBack
<1>6. CASE StoreP!MachineStops
  <2>1. file' \in {onDisk, [data |-> Torn, synced |-> TRUE]} /\ onDisk' = file'
    BY <1>6 DEF StoreP!MachineStops
  <2>2. QED
    BY <1>6, <2>1 DEF StoreP!MachineStops
<1>7. CASE UNCHANGED StoreP!vars
  BY <1>7 DEF StoreP!vars
<1>8. QED
  BY <1>1, <1>2, <1>3, <1>4, <1>5, <1>6, <1>7 DEF StoreP!Next

(* Devices stay registered. *)
LEMMA RegisteredGrows == [Next]_vars => registered \subseteq registered'
BY DEF Next, Step, vars, api, AppLoad, RefreshEnable, RefreshGet, Reuse, Register, RegisterEnable,
       RegisterGet, RegisterLicense, ApplyLicense, Save, SaveStep, Run, Crash, Restart, WriteBack,
       PowerFails, Request, SetWarpEnabled, UpdateLicense, GetSourceDevice

LEMMA NextOnlyRegistered == BInv /\ [Next]_vars => OnlyRegistered'
<1> SUFFICES ASSUME BInv, [Next]_vars PROVE OnlyRegistered'
  OBVIOUS
<1>0. {Empty, Torn, NoValue} \cap States = {}
  BY NoneAssumption, StoreAssumption DEF States, Empty
<1>1. {file'.data, onDisk'.data, tmp'.data, loaded'} \subseteq
          {file.data, onDisk.data, tmp.data, pending, loaded, Torn, Empty}
  BY StoreStep, StoreMoves DEF BInv
<1>2. pending' \in {pending, NoValue, current}
  <2>1. CASE step # "idle"
    BY <2>1, StoreStep, StoreMoves DEF BInv
  <2>2. CASE step = "idle" /\ (Save \/ AppLoad \/ SaveStep)
    BY <2>2 DEF Save, Store!CallSave, AppLoad, Store!Load, SaveStep, BInv, SavesCurrent, store
  <2>3. CASE Restart \/ Crash \/ WriteBack \/ PowerFails
    BY <2>3 DEF Restart, Crash, WriteBack, PowerFails, Store!ProcessEnds, Store!Forgets,
                Store!WriteBack, Store!MachineStops
  <2>4. CASE Elsewhere
    BY <2>4, StoreAlone DEF store
  <2>5. CASE UNCHANGED vars
    BY <2>5 DEF vars, store
  <2>6. QED
    BY <2>1, <2>2, <2>3, <2>4, <2>5 DEF Next, Step, Elsewhere
<1>3. current' \in States => current'.id \in registered'
  <2> USE RegisteredGrows DEF BInv, OnlyRegistered
  <2>1. CASE UNCHANGED current
    BY <2>1
  <2>2. CASE AppLoad
    BY <1>0, <1>1, <2>2 DEF AppLoad, Fails, Goes
  <2>3. CASE RefreshGet \/ RegisterGet
    BY <2>3, <1>0 DEF RefreshGet, RegisterGet, HasDevice, WithDevice, GetSourceDevice, Goes,
                      stateFromWarpDevice
  <2>4. CASE Register
    <3>1. CASE UNCHANGED current
      BY <2>1, <3>1
    <3>2. CASE ~UNCHANGED current
      <4>1. PICK d \in Devices \ registered :
                registered' = registered \cup {d} /\ current' = [Empty EXCEPT !.id = d]
        BY <2>4, <3>2 DEF Register, Fails, Goes
      <4>2. QED
        BY <4>1 DEF Empty
    <3>3. QED
      BY <3>1, <3>2
  <2>5. CASE RegisterLicense \/ ApplyLicense
    <3>1. current \in States
      BY <2>5 DEF RegisterLicense, ApplyLicense, HasDevice, WithDevice
    <3>2. current' = current \/ current' = [current EXCEPT !.license = cfgLicense]
      BY <2>5 DEF RegisterLicense, ApplyLicense, Request, Licensed, Fails, Goes
    <3>3. current'.id = current.id
      BY <3>1, <3>2 DEF States
    <3>4. QED
      BY <3>1, <3>3
  <2>6. CASE Run \/ Restart
    BY <1>0, <2>1, <2>6 DEF Run, Restart, Goes
  <2>7. CASE UNCHANGED vars
    BY <2>1, <2>7 DEF vars
  <2>8. QED
    BY <2>1, <2>2, <2>3, <2>4, <2>5, <2>6, <2>7
    DEF Next, Step, RefreshEnable, Request, Goes, Reuse, RegisterEnable, Fails, Save, SaveStep,
        Crash, WriteBack, PowerFails
<1>4. QED
  BY <1>0, <1>1, <1>2, <1>3, RegisteredGrows DEF OnlyRegistered, BInv

(* A device state is never lost on the way to the save. *)
LEMMA NextHasDevice == BInv /\ [Next]_vars => HasDevice'
<1> SUFFICES ASSUME BInv, [Next]_vars PROVE HasDevice'
  OBVIOUS
<1> USE DEF BInv, HasDevice, WithDevice, TypeOK
<1>1. CASE AppLoad
  BY <1>1 DEF AppLoad, Fails, Goes
<1>2. CASE RefreshEnable \/ Reuse
  BY <1>2 DEF RefreshEnable, Reuse, Request, Goes, HasCredentials, Empty
<1>3. CASE RefreshGet \/ RegisterGet
  <2>1. current \in States
    BY <1>3 DEF RefreshGet, RegisterGet
  <2>2. \A u \in BOOLEAN : stateFromWarpDevice(current.id, u) \in States
    BY <2>1 DEF stateFromWarpDevice, States
  <2>3. QED
    BY <1>3, <2>1, <2>2 DEF RefreshGet, RegisterGet, GetSourceDevice, Goes
<1>4. CASE Register
  <2>1. \A d \in Devices : [Empty EXCEPT !.id = d] \in States
    BY DEF Empty, States
  <2>2. QED
    BY <1>4, <2>1 DEF Register, Fails, Goes
<1>5. CASE RegisterEnable
  BY <1>5 DEF RegisterEnable, Request, Fails, Goes
<1>6. CASE RegisterLicense \/ ApplyLicense
  <2>1. current \in States
    BY <1>6 DEF RegisterLicense, ApplyLicense
  <2>2. [current EXCEPT !.license = cfgLicense] \in States
    BY <2>1 DEF States
  <2>3. QED
    BY <1>6, <2>1, <2>2 DEF RegisterLicense, ApplyLicense, Request, Licensed, Fails, Goes
<1>7. CASE Save \/ SaveStep
  BY <1>7 DEF Save, SaveStep, Fails, Goes
<1>8. CASE Run \/ Restart \/ Crash
  BY <1>8 DEF Run, Restart, Crash, Goes
<1>9. CASE WriteBack \/ PowerFails \/ UNCHANGED vars
  BY <1>9 DEF WriteBack, PowerFails, Goes, vars
<1>10. QED
  BY <1>1, <1>2, <1>3, <1>4, <1>5, <1>6, <1>7, <1>8, <1>9 DEF Next, Step

(* WARP is switched on before the device is asked for, and never off. *)
LEMMA NextEnabled == BInv /\ [Next]_vars => EnabledWhenAsked'
<1> SUFFICES ASSUME BInv, [Next]_vars PROVE EnabledWhenAsked'
  OBVIOUS
<1> USE DEF BInv, EnabledWhenAsked, Asked, api
<1>1. CASE AppLoad
  BY <1>1 DEF AppLoad, Fails, Goes
<1>2. CASE RefreshEnable \/ RegisterEnable
  BY <1>2 DEF RefreshEnable, RegisterEnable, Request, SetWarpEnabled, Fails, Goes
<1>3. CASE RefreshGet \/ RegisterGet
  BY <1>3 DEF RefreshGet, RegisterGet, GetSourceDevice, stateFromWarpDevice, Goes
<1>4. CASE Reuse
  BY <1>4 DEF Reuse, Goes
<1>5. CASE Register
  BY <1>5 DEF Register, Fails, Goes
<1>6. CASE RegisterLicense \/ ApplyLicense
  <2>1. current \in States
    BY <1>6 DEF RegisterLicense, ApplyLicense, HasDevice, WithDevice
  <2>2. current'.id = current.id /\ UNCHANGED <<enabled, source>>
    BY <1>6, <2>1
    DEF RegisterLicense, ApplyLicense, Request, Licensed, UpdateLicense, Fails, Goes, States
  <2>3. pc \in {"reg_license", "license"} /\ pc' \notin {"refresh_get", "reg_get"}
    BY <1>6 DEF RegisterLicense, ApplyLicense, Request, Licensed, Fails, Goes
  <2>4. QED
    BY <2>2, <2>3
<1>7. CASE Save \/ SaveStep
  BY <1>7 DEF Save, SaveStep, Fails, Goes
<1>8. CASE Run \/ Restart \/ Crash
  BY <1>8 DEF Run, Restart, Crash, Goes
<1>9. CASE WriteBack \/ PowerFails \/ UNCHANGED vars
  BY <1>9 DEF WriteBack, PowerFails, Goes, vars
<1>10. QED
  BY <1>1, <1>2, <1>3, <1>4, <1>5, <1>6, <1>7, <1>8, <1>9 DEF Next, Step

(* A licence the API took over is noted in the state, or the run ends. *)
LEMMA NextLicense == BInv /\ [Next]_vars => LicenseSoFar'
<1> SUFFICES ASSUME BInv, [Next]_vars PROVE LicenseSoFar'
  OBVIOUS
<1> USE DEF BInv, LicenseSoFar, Asked, api
<1>1. CASE AppLoad
  BY <1>1 DEF AppLoad, Fails, Goes
<1>2. CASE RefreshEnable \/ RegisterEnable
  BY <1>2 DEF RefreshEnable, RegisterEnable, Request, SetWarpEnabled, Fails, Goes
<1>3. CASE RefreshGet \/ RegisterGet
  <2>1. UNCHANGED <<license, cfgLicense>>
    BY <1>3 DEF RefreshGet, RegisterGet, GetSourceDevice
  <2>2. pc' \notin {"save", "saving", "run"}
    BY <1>3 DEF RefreshGet, RegisterGet, GetSourceDevice, Goes
  <2>3. pc' \in Asked => \E u \in BOOLEAN : current' = stateFromWarpDevice(current.id, u)
    BY <1>3 DEF RefreshGet, RegisterGet, GetSourceDevice, Goes
  <2>4. QED
    BY <2>1, <2>2, <2>3 DEF stateFromWarpDevice
<1>4. CASE Reuse
  BY <1>4 DEF Reuse, Goes
<1>5. CASE Register
  BY <1>5 DEF Register, Fails, Goes
<1>6. CASE RegisterLicense \/ ApplyLicense
  <2>1. current \in States
    BY <1>6 DEF RegisterLicense, ApplyLicense, HasDevice, WithDevice
  <2>2. CASE UpdateLicense(current.id) /\ (Licensed("license") \/ Licensed("save"))
    <3>1. current'.id = current.id /\ current'.license = cfgLicense
      BY <2>1, <2>2 DEF Licensed, States
    <3>2. license'[current.id] = cfgLicense
      BY <2>1, <2>2 DEF UpdateLicense, TypeOK, States
    <3>3. UNCHANGED cfgLicense
      BY <1>6 DEF RegisterLicense, ApplyLicense
    <3>4. QED
      BY <3>1, <3>2, <3>3
  <2>3. CASE Fails
    BY <2>3 DEF Fails, Goes
  <2>4. CASE ApplyLicense /\ cfgLicense \in {NoLicense, current.license} /\ Goes("save") /\ UNCHANGED api
    BY <2>4 DEF ApplyLicense, Goes
  <2>5. QED
    BY <1>6, <2>2, <2>3, <2>4 DEF RegisterLicense, ApplyLicense, Request
<1>7. CASE Save \/ SaveStep
  BY <1>7 DEF Save, SaveStep, Fails, Goes
<1>8. CASE Run \/ Restart \/ Crash
  BY <1>8 DEF Run, Restart, Crash, Goes
<1>9. CASE WriteBack \/ PowerFails \/ UNCHANGED vars
  BY <1>9 DEF WriteBack, PowerFails, Goes, vars
<1>10. QED
  BY <1>1, <1>2, <1>3, <1>4, <1>5, <1>6, <1>7, <1>8, <1>9 DEF Next, Step

(* A registration follows only where the ones before are paid for: nothing was
   stored or loaded, so each of them was cut off by an incident, or an incident
   made the state useless. *)
LEMMA FreeOrIncident ==
    BInv /\ [Next]_vars /\ NextIsFree' => NextIsFree \/ incidents' = incidents + 1
<1> SUFFICES ASSUME BInv, [Next]_vars, NextIsFree', incidents' # incidents + 1 PROVE NextIsFree
  OBVIOUS
<1> USE DEF NextIsFree, BInv, Incident
<1>1. CASE AppLoad
  <2>1. pc = "start" /\ pc' = "refresh_enable" /\ current' = file.data
    BY <1>1 DEF AppLoad, Store!Load
  <2>2. QED
    BY <2>1 DEF HasCredentials
<1>2. CASE RefreshEnable \/ RefreshGet
  BY <1>2 DEF RefreshEnable, RefreshGet, Request, GetSourceDevice, Goes
<1>3. CASE Reuse \/ Register
  BY <1>3 DEF Reuse, Register
<1>4. CASE RegisterEnable \/ RegisterGet
  BY <1>4 DEF RegisterEnable, RegisterGet, Request, GetSourceDevice, Fails, Goes
<1>5. CASE RegisterLicense \/ ApplyLicense
  BY <1>5 DEF RegisterLicense, ApplyLicense, Request, Licensed, Fails, Goes
<1>6. CASE Save \/ SaveStep
  BY <1>6 DEF Save, SaveStep, SavesCurrent, Fails, Goes
<1>7. CASE Run
  <2>1. current \in States /\ file.data = current
    BY <1>7 DEF Run, HasDevice, WithDevice, SavesCurrent
  <2>2. HasCredentials(file.data)
    BY <2>1, NoneAssumption DEF HasCredentials, States
  <2>3. pc' = "exited" /\ UNCHANGED file
    BY <1>7 DEF Run, Goes, store
  <2>4. HasCredentials(file.data)'
    BY <2>2, <2>3 DEF HasCredentials
  <2>5. QED
    BY <2>3, <2>4
<1>8. CASE Restart
  BY <1>8 DEF Restart, Store!ProcessEnds, Store!dir, HasCredentials
<1>9. CASE Crash \/ PowerFails
  BY <1>9 DEF Crash, PowerFails
<1>10. CASE WriteBack
  BY <1>10 DEF WriteBack, Store!WriteBack, HasCredentials
<1>11. CASE UNCHANGED vars
  BY <1>11 DEF vars, store, HasCredentials
<1>12. QED
  BY <1>1, <1>2, <1>3, <1>4, <1>5, <1>6, <1>7, <1>8, <1>9, <1>10, <1>11 DEF Next, Step

LEMMA IncidentsCount ==
    TypeOK /\ [Next]_vars => incidents' \in Nat /\ incidents' \in {incidents, incidents + 1}
<1> SUFFICES ASSUME TypeOK, [Next]_vars
    PROVE  incidents' \in Nat /\ incidents' \in {incidents, incidents + 1}
  OBVIOUS
<1>1. incidents \in Nat
  BY BoundAssumption DEF TypeOK
<1>2. incidents' \in {incidents, incidents + 1}
  BY DEF Next, Step, vars, AppLoad, RefreshEnable, RefreshGet, Reuse, Register, RegisterEnable,
         RegisterGet, RegisterLicense, ApplyLicense, Save, SaveStep, Run, Crash, Restart,
         WriteBack, PowerFails, Request, GetSourceDevice, Incident
<1>3. QED
  BY <1>1, <1>2

LEMMA OnlyRegisterRegisters == [Next]_vars => registered' = registered \/ Register
BY DEF Next, Step, vars, api, AppLoad, RefreshEnable, RefreshGet, Reuse, RegisterEnable,
       RegisterGet, RegisterLicense, ApplyLicense, Save, SaveStep, Run, Crash, Restart,
       WriteBack, PowerFails, Request, SetWarpEnabled, UpdateLicense, GetSourceDevice

LEMMA NextPaidFor == BInv /\ [Next]_vars => PaidFor'
<1> SUFFICES ASSUME BInv, [Next]_vars PROVE PaidFor'
  OBVIOUS
<1>1. /\ incidents \in Nat /\ incidents' \in Nat /\ incidents' \in {incidents, incidents + 1}
      /\ IsFiniteSet(registered) /\ Cardinality(registered) \in Nat
      /\ Cardinality(registered) <= incidents + IF NextIsFree THEN 0 ELSE 1
  BY IncidentsCount, BoundAssumption, FS_CardinalityType DEF BInv, TypeOK, PaidFor
<1>2. CASE registered' = registered
  <2>1. NextIsFree' => NextIsFree \/ incidents' = incidents + 1
    BY FreeOrIncident
  <2>2. Cardinality(registered') <= incidents' + IF NextIsFree' THEN 0 ELSE 1
    BY <1>1, <1>2, <2>1
  <2>3. QED
    BY <1>1, <1>2, <2>2 DEF PaidFor
<1>3. CASE registered' # registered
  <2>1. Register
    BY <1>3, OnlyRegisterRegisters
  <2>2. NextIsFree
    BY <2>1 DEF Register, NextIsFree
  <2>3. PICK d \in Devices \ registered : registered' = registered \cup {d}
    BY <1>3, <2>1 DEF Register, api
  <2>4. IsFiniteSet(registered') /\ Cardinality(registered') = Cardinality(registered) + 1
    BY <1>1, <2>3, FS_AddElement
  <2>5. NextIsFree' => incidents' = incidents + 1
    BY <1>3, <2>1 DEF Register, NextIsFree, Incident, Fails, Goes, api
  <2>6. Cardinality(registered') <= incidents' + IF NextIsFree' THEN 0 ELSE 1
    BY <1>1, <2>2, <2>4, <2>5
  <2>7. QED
    BY <2>4, <2>6 DEF PaidFor
<1>4. QED
  BY <1>2, <1>3
-----------------------------------------------------------------------------
LEMMA NextBInv == BInv /\ [Next]_vars => BInv'
BY StoreKeeps, NextTypes, NextSavesCurrent, NextOnlyRegistered, NextHasDevice, NextEnabled,
   NextLicense, NextPaidFor DEF BInv

(* The invariant the other theorems follow from: every step of the bootstrap,
   of the store, of a crash or of a power cut keeps it. *)
THEOREM BootstrapInductive == Spec => []BInv
BY InitBInv, NextBInv, PTL DEF Spec

(* Every variable of the bootstrap keeps its type, whatever the API, the file
   system and the machine do. *)
THEOREM BootstrapTypeCorrect == Spec => []TypeOK
<1>1. BInv => TypeOK
  BY DEF BInv
<1>2. QED
  BY <1>1, BootstrapInductive, PTL

(* EnsureDevice registers a device once: every further registration is paid for
   by an incident of its own. *)
THEOREM RegistrationsPaidForCorrect == Spec => []RegistrationsPaidFor
<1>1. BInv => RegistrationsPaidFor
  <2> SUFFICES ASSUME BInv PROVE RegistrationsPaidFor
    OBVIOUS
  <2>1. incidents \in Nat /\ Cardinality(registered) \in Nat
    BY BoundAssumption, FS_CardinalityType DEF BInv, TypeOK, PaidFor
  <2>2. Cardinality(registered) <= incidents + IF NextIsFree THEN 0 ELSE 1
    BY DEF BInv, PaidFor
  <2>3. QED
    BY <2>1, <2>2 DEF RegistrationsPaidFor
<1>2. QED
  BY <1>1, BootstrapInductive, PTL

(* The device the service runs with is the one a restart will load; the API has
   it, with WARP on unless it could not be asked. *)
THEOREM RunsSavedDeviceCorrect == Spec => []RunsSavedDevice
<1>1. BInv => RunsSavedDevice
  BY DEF BInv, RunsSavedDevice, SavesCurrent, HasDevice, WithDevice, OnlyRegistered,
         EnabledWhenAsked, Asked
<1>2. QED
  BY <1>1, BootstrapInductive, PTL

(* applyLicense leaves the saved licence, the account's and the configured one
   the same once the API was asked. *)
THEOREM LicenseInStepCorrect == Spec => []LicenseInStep
<1>1. BInv => LicenseInStep
  BY DEF BInv, LicenseInStep, LicenseSoFar, Asked
<1>2. QED
  BY <1>1, BootstrapInductive, PTL

(* As the program uses it, with its own crashes and restarts, the store keeps
   the promise of AtomicRegister. *)
THEOREM StoreKeepsPromise == Spec => ImplementsRegister
<1>1. Spec => StoreP!Spec
  <2>1. BInv /\ [Next]_vars => [StoreP!Next]_(StoreP!vars)
    BY StoreStep DEF BInv
  <2>2. QED
    BY <2>1, StoreInit, InitBInv, NextBInv, PTL DEF Spec, StoreP!Spec
<1>2. StoreP!Spec => StoreP!ImplementsRegister
  BY StatesDistinct, StoreP!Refinement
<1>3. StoreP!ImplementsRegister => ImplementsRegister
  <2>1. StoreP!Register!Init => Store!Register!Init
    BY DEF StoreP!Register!Init, Store!Register!Init
  <2>2. [StoreP!Register!Next]_(StoreP!Register!vars) => [Store!Register!Next]_(Store!Register!vars)
    BY DEF StoreP!Register!Next, Store!Register!Next, StoreP!Register!vars, Store!Register!vars,
           Store!Register!CallSave, StoreP!Register!CallSave, Store!Register!TakeEffect,
           StoreP!Register!TakeEffect, Store!Register!SaveReturns, StoreP!Register!SaveReturns,
           Store!Register!Load, StoreP!Register!Load, Store!Register!ProcessEnds,
           StoreP!Register!ProcessEnds, Store!Register!Forgets, StoreP!Register!Forgets,
           Store!Register!WriteBack, StoreP!Register!WriteBack, Store!Register!MachineStops,
           StoreP!Register!MachineStops
  <2>3. QED
    BY <2>1, <2>2, PTL DEF ImplementsRegister, Store!ImplementsRegister, StoreP!ImplementsRegister,
       Store!Register!Spec, StoreP!Register!Spec
<1>4. QED
  BY <1>1, <1>2, <1>3, PTL
=============================================================================
