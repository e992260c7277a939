-------------------------- MODULE StateStoreProofs --------------------------
(***************************************************************************)
(* Proofs about StateStore, for any set of device states: the store        *)
(* implements AtomicRegister.                                              *)
(***************************************************************************)
EXTENDS StateStore, TLAPS

(* What the constants have to be: the states that stand for "none" are no
   device states. *)
Distinct == NoValue \notin Values /\ Torn \notin Values \cup {NoState}

-----------------------------------------------------------------------------
(* A Save is under way exactly while a state is being saved; from the sync on
   the temporary file holds it, and from the rename on state.json does. *)
Flow ==
    /\ step = "idle" <=> pending = NoValue
    /\ step # "idle" => pending \in Values
    /\ step \in {"sync", "rename"} => tmp.data = pending
    /\ step = "rename" => tmp.synced
    /\ step = "chmod" => file.data = pending

(* What a Load or a power failure can meet is whole and on the disk: the reason
   why Save syncs before it renames. *)
Whole == file.synced /\ onDisk.synced /\ file.data # Torn /\ onDisk.data # Torn

IInv == TypeOK /\ Flow /\ Whole

LEMMA InitInv == ASSUME Distinct PROVE Init => IInv
BY DEF Distinct, Init, IInv, TypeOK, Flow, Whole, Entry, Absent, Blank

LEMMA NextInv == ASSUME Distinct PROVE IInv /\ [Next]_vars => IInv'
<1> SUFFICES ASSUME IInv, [Next]_vars PROVE IInv'
  OBVIOUS
<1> USE DEF Distinct, IInv, TypeOK, Flow, Whole, Entry, Blank, dir
<1>1. ASSUME NEW v \in Values, CallSave(v) PROVE IInv'
  BY <1>1 DEF CallSave
<1>0. ASSUME SaveFails PROVE IInv'
  <2>1. TypeOK'
    BY <1>0 DEF SaveFails, Return
  <2>2. Flow' /\ Whole'
    BY <1>0 DEF SaveFails, Return
  <2>3. QED
    BY <2>1, <2>2
<1>2. CASE SaveCreate
  <2>1. CASE ~SaveFails
    <3>1. step = "create" /\ Goes("write") /\ tmp' = Blank /\ UNCHANGED <<dir, loaded>>
      BY <1>2, <2>1 DEF SaveCreate
    <3>2. TypeOK'
      BY <3>1 DEF Goes
    <3>3. Flow' /\ Whole'
      BY <3>1 DEF Goes
    <3>4. QED
      BY <3>2, <3>3
  <2>2. QED
    BY <1>0, <2>1
<1>3. CASE SaveWrite
  <2>1. CASE ~SaveFails
    <3>1. tmp' \in Entry /\ tmp'.data = pending
      BY <1>3, <2>1 DEF SaveWrite, Goes
    <3>2. QED
      BY <1>3, <2>1, <3>1 DEF SaveWrite, Goes
  <2>2. QED
    BY <1>0, <2>1
<1>4. CASE SaveSync
  <2>1. CASE ~SaveFails
    <3>1. tmp' \in Entry /\ tmp'.data = pending /\ tmp'.synced
      BY <1>4, <2>1 DEF SaveSync, Goes
    <3>2. QED
      BY <1>4, <2>1, <3>1 DEF SaveSync, Goes
  <2>2. QED
    BY <1>0, <2>1
<1>5. CASE SaveRename
  BY <1>0, <1>5 DEF SaveRename, Goes
<1>6. CASE SaveChmod
  <2>1. CASE ~SaveFails
    <3>1. step = "chmod" /\ Return("ok") /\ UNCHANGED <<dir, loaded>>
      BY <1>6, <2>1 DEF SaveChmod
    <3>2. TypeOK'
      BY <3>1 DEF Return
    <3>3. Flow' /\ Whole'
      BY <3>1 DEF Return
    <3>4. QED
      BY <3>2, <3>3
  <2>2. QED
    BY <1>0, <2>1
<1>7. CASE Load
  BY <1>7 DEF Load
<1>8. CASE ProcessEnds
  BY <1>8 DEF ProcessEnds, Forgets
<1>9. CASE WriteBack
  BY <1>9 DEF WriteBack
<1>10. CASE MachineStops
  BY <1>10 DEF MachineStops, Forgets
<1>11. CASE UNCHANGED vars
  BY <1>11 DEF vars
<1>12. QED
  BY <1>1, <1>2, <1>3, <1>4, <1>5, <1>6, <1>7, <1>8, <1>9, <1>10, <1>11 DEF Next, SaveStep

(* Every variable of the store keeps its type, in Save, Load and every failure. *)
THEOREM TypeCorrect == ASSUME Distinct PROVE Spec => []TypeOK
<1>1. IInv => TypeOK
  BY DEF IInv
<1>2. QED
  BY <1>1, InitInv, NextInv, PTL DEF Spec
-----------------------------------------------------------------------------
LEMMA StepRefines ==
  ASSUME Distinct PROVE IInv /\ [Next]_vars => [Register!Next]_(Register!vars)
<1> SUFFICES ASSUME IInv, [Next]_vars PROVE Register!Next \/ UNCHANGED Register!vars
  OBVIOUS
<1> USE DEF Distinct, IInv, Flow, Whole, dir
<1>1. ASSUME NEW v \in Values, CallSave(v) PROVE Register!CallSave(v)
  BY <1>1 DEF CallSave, Register!CallSave
<1>2. ASSUME SaveFails, step # "idle" PROVE Register!SaveReturns
  BY <1>2 DEF SaveFails, Return, Register!SaveReturns
<1>3. CASE SaveCreate \/ SaveWrite \/ SaveSync
  BY <1>2, <1>3 DEF SaveCreate, SaveWrite, SaveSync, Goes, Register!Next, Register!vars
<1>4. CASE SaveRename
  <2>1. CASE SaveFails
    BY <1>2, <1>4, <2>1 DEF SaveRename, Register!Next
  <2>2. CASE ~SaveFails
    BY <1>4, <2>2 DEF SaveRename, Goes, Register!TakeEffect, Register!Next
  <2>3. QED
    BY <2>1, <2>2
<1>5. CASE SaveChmod
  BY <1>2, <1>5 DEF SaveChmod, Return, Register!SaveReturns, Register!Next
<1>6. CASE Load
  BY <1>6 DEF Load, Register!Load, Register!Next
<1>7. CASE ProcessEnds
  BY <1>7 DEF ProcessEnds, Forgets, Register!ProcessEnds, Register!Forgets, Register!Next
<1>8. CASE WriteBack
  BY <1>8 DEF WriteBack, Register!WriteBack, Register!Next
<1>9. CASE MachineStops
  BY <1>9 DEF MachineStops, Forgets, Register!MachineStops, Register!Forgets, Register!Next
<1>10. CASE UNCHANGED vars
  BY <1>10 DEF vars, Register!vars
<1>11. QED
  BY <1>1, <1>3, <1>4, <1>5, <1>6, <1>7, <1>8, <1>9, <1>10 DEF Next, SaveStep, Register!Next

(* The store keeps the promise of an atomic register whatever system call fails
   and wherever the process or the machine stops, for any set of states. *)
THEOREM Refinement == ASSUME Distinct PROVE Spec => ImplementsRegister
<1>1. Init => Register!Init
  BY DEF Init, Absent, Register!Init
<1>2. QED
  BY <1>1, InitInv, NextInv, StepRefines, PTL DEF Spec, ImplementsRegister, Register!Spec
=============================================================================
