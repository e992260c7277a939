--------------------------- MODULE AtomicRegister ---------------------------
(***************************************************************************)
(* What App.Run relies on when it loads and saves the device state: a      *)
(* register with write-back.  A save takes effect at one instant between   *)
(* its call and its return, or never; it has taken effect when it returns  *)
(* without an error, and may have when it returns with one or is cut       *)
(* short.  When the machine stops, the register goes back to the value     *)
(* that was written back last.                                             *)
(***************************************************************************)
CONSTANTS Values, NoState, NoValue

VARIABLES
    value,      \* the state a Load returns, NoState before the first Save
    durable,    \* the one that would survive the machine
    pending,    \* the state being saved, NoValue if none is
    loaded,     \* the state loaded last
    ret         \* what the last operation returned

vars == <<value, durable, pending, loaded, ret>>

Init == value = NoState /\ durable = NoState /\ pending = NoValue /\ loaded = NoState /\ ret = "none"

CallSave(v) ==
    pending = NoValue /\ pending' = v /\ ret' = "none" /\ UNCHANGED <<value, durable, loaded>>

TakeEffect == pending # NoValue /\ value' = pending /\ UNCHANGED <<durable, pending, loaded, ret>>

SaveReturns ==
    /\ pending # NoValue
    /\ pending' = NoValue
    /\ ret' = "err" \/ (ret' = "ok" /\ value = pending)
    /\ UNCHANGED <<value, durable, loaded>>

(* A state that was loaded is the one saved: there is no third result. *)
Load ==
    /\ pending = NoValue
    /\ \/ loaded' = value /\ ret' = "ok"
       \/ ret' = "err" /\ UNCHANGED loaded
    /\ UNCHANGED <<value, durable, pending>>

Forgets == pending' = NoValue /\ loaded' = NoState /\ ret' = "none"

ProcessEnds == Forgets /\ UNCHANGED <<value, durable>>

WriteBack == durable' = value /\ UNCHANGED <<value, pending, loaded, ret>>

MachineStops == value' = durable /\ UNCHANGED durable /\ Forgets

Next ==
    \/ \E v \in Values : CallSave(v)
    \/ TakeEffect \/ SaveReturns \/ Load \/ ProcessEnds \/ WriteBack \/ MachineStops

Spec == Init /\ [][Next]_vars
=============================================================================
