----------------------------- MODULE StateStore -----------------------------
(***************************************************************************)
(* state.Store (internal/state/state.go): Load and Save of state.json.     *)
(*                                                                         *)
(* Save writes a temporary file in the state directory, syncs it and       *)
(* renames it over state.json; every system call may fail, and the process *)
(* may be killed before each.  When the machine stops, a file keeps what   *)
(* was synced, and the directory is the one that reached the disk last,    *)
(* which Save does not wait for.  Temporary files that stay behind are not *)
(* followed: each Save makes one with a name of its own.                   *)
(***************************************************************************)

CONSTANTS
    Values,     \* device states
    NoState,    \* the state Load returns when there is no file
    NoValue,    \* no save under way
    Torn        \* data that cannot be decoded

VARIABLES
    file,       \* state.json: its data and whether they were synced
    onDisk,     \* the entry of state.json that reached the disk last
    tmp,        \* the temporary file of the Save running
    pending,    \* the state being saved
    step,       \* the next system call of Save
    loaded,     \* the state the process loaded last
    ret         \* what the last operation returned

dir == <<file, onDisk>>
vars == <<dir, tmp, pending, step, loaded, ret>>

Entry == [data : Values \cup {NoState, Torn}, synced : BOOLEAN]
Absent == [data |-> NoState, synced |-> TRUE]
Blank == [data |-> Torn, synced |-> FALSE]

(* Every variable has its type. *)
TypeOK ==
    /\ {file, onDisk, tmp} \subseteq Entry
    /\ pending \in Values \cup {NoValue}
    /\ step \in {"idle", "create", "write", "sync", "rename", "chmod"}
    /\ loaded \in Values \cup {NoState}
    /\ ret \in {"none", "ok", "err"}

Init ==
    /\ file = Absent /\ onDisk = Absent /\ tmp = Blank
    /\ pending = NoValue /\ step = "idle" /\ loaded = NoState /\ ret = "none"
-----------------------------------------------------------------------------
(* Save *)

CallSave(v) ==
    /\ step = "idle"
    /\ step' = "create" /\ pending' = v /\ ret' = "none"
    /\ UNCHANGED <<dir, tmp, loaded>>

Return(e) == step' = "idle" /\ pending' = NoValue /\ tmp' = Blank /\ ret' = e

Goes(next) == step' = next /\ UNCHANGED <<pending, ret>>

(* A system call fails: Save removes its file, if it can, and returns. *)
SaveFails == Return("err") /\ UNCHANGED <<dir, loaded>>

(* MkdirAll, Marshal, CreateTemp; then Chmod of the new file. *)
SaveCreate ==
    /\ step = "create"
    /\ \/ Goes("write") /\ tmp' = Blank /\ UNCHANGED <<dir, loaded>>
       \/ SaveFails

SaveWrite ==
    /\ step = "write"
    /\ \/ Goes("sync") /\ tmp' = [tmp EXCEPT !.data = pending] /\ UNCHANGED <<dir, loaded>>
       \/ SaveFails

(* Mutation: the file is closed without being synced. *)
SaveCloseOnly ==
    /\ step = "sync"
    /\ \/ Goes("rename") /\ UNCHANGED <<dir, tmp, loaded>>
       \/ SaveFails

(* Sync and Close. *)
SaveSync ==
    /\ step = "sync"
    /\ \/ Goes("rename") /\ tmp' = [tmp EXCEPT !.synced = TRUE] /\ UNCHANGED <<dir, loaded>>
       \/ SaveFails

(* Rename: one step in the directory. *)
SaveRename ==
    /\ step = "rename"
    /\ \/ Goes("chmod") /\ file' = tmp /\ UNCHANGED <<onDisk, tmp, loaded>>
       \/ SaveFails

(* Chmod of state.json: its error is returned although the state was replaced. *)
SaveChmod ==
    /\ step = "chmod"
    /\ \/ Return("ok") /\ UNCHANGED <<dir, loaded>>
       \/ SaveFails

SaveStep == SaveCreate \/ SaveWrite \/ SaveSync \/ SaveRename \/ SaveChmod
-----------------------------------------------------------------------------
(* No file is the empty state; data that cannot be decoded are an error. *)
Load ==
    /\ step = "idle"
    /\ \/ file.data # Torn /\ loaded' = file.data /\ ret' = "ok"
       \/ ret' = "err" /\ UNCHANGED loaded
    /\ UNCHANGED <<dir, tmp, pending, step>>

Forgets == step' = "idle" /\ pending' = NoValue /\ tmp' = Blank /\ loaded' = NoState /\ ret' = "none"

(* The process has ended, at any step: the directory stays as it is. *)
ProcessEnds == Forgets /\ UNCHANGED dir

(* The kernel writes the directory back. *)
WriteBack == onDisk' = file /\ UNCHANGED <<file, tmp, pending, step, loaded, ret>>

(* The machine stops: data that were not synced may be lost. *)
MachineStops ==
    /\ file' \in {onDisk} \cup
          IF onDisk.synced THEN {} ELSE {[data |-> Torn, synced |-> TRUE]}
    /\ onDisk' = file'
    /\ Forgets
-----------------------------------------------------------------------------
Next ==
    \/ \E v \in Values : CallSave(v)
    \/ SaveStep \/ Load \/ ProcessEnds \/ WriteBack \/ MachineStops

Spec == Init /\ [][Next]_vars
-----------------------------------------------------------------------------
Register == INSTANCE AtomicRegister WITH value <- file.data, durable <- onDisk.data

(* The store is an atomic register with write-back: a Save that failed or was
   cut short left the old state or the new one, whole; one that returned
   without an error the new one; and when the machine stops the state is the
   one that reached the disk last, never a torn one. *)
ImplementsRegister == Register!Spec
=============================================================================
