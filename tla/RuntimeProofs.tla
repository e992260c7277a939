----------------------------- MODULE RuntimeProofs -----------------------------
(***************************************************************************)
(* Proofs about the process: App.Run, main and the health server together  *)
(* with the supervisor, for every set of faults and any number of starts.  *)
(* The supervisor's own invariant comes from SupervisorProofs, because     *)
(* every step of the process is a step of the supervisor's specification   *)
(* or leaves its variables alone.                                          *)
(***************************************************************************)
EXTENDS Runtime, TLAPS

SupP == INSTANCE SupervisorProofs

(* The process takes no step of the supervisor that its specification lacks. *)
LEMMA SupInit == Sup!Init => SupP!Init
BY DEF Sup!Init, SupP!Init

LEMMA SupCalls ==
    ASSUME Sup!CallStart \/ Sup!CallStop \/ Sup!RecvDone
    PROVE  SupP!CallStart \/ SupP!CallStop \/ SupP!RecvDone
BY DEF Sup!CallStart, Sup!CallStop, Sup!RecvDone, Sup!Readable, Sup!Receive,
   Sup!fields, Sup!channels, Sup!child, Sup!goroutines, Sup!calls,
   SupP!CallStart, SupP!CallStop, SupP!RecvDone, SupP!Readable, SupP!Receive,
   SupP!fields, SupP!channels, SupP!child, SupP!goroutines, SupP!calls

LEMMA SupCaller ==
    ASSUME Sup!Caller
    PROVE  SupP!Caller
BY DEF Sup!fields, Sup!channels, Sup!child, Sup!goroutines, Sup!Caller, Sup!StartLoad,
   Sup!StartLock, Sup!StartAlreadyRunning, Sup!StartExecFails, Sup!StartExec, Sup!ReadyDialed,
   Sup!ReadyExited, Sup!ReadyCancelled, Sup!ReadyTimeout, Sup!StopLock, Sup!StopSignal,
   Sup!StopReceive, Sup!StopTimeout, Sup!StopKill, Sup!Goto, Sup!Return, Sup!Abort,
   Sup!SomeoneListens, Sup!Readable, Sup!Receive, Sup!Received, Sup!StopResult,
   Sup!normalizeWaitError, Sup!Alive,
   SupP!fields, SupP!channels, SupP!child, SupP!goroutines, SupP!Caller, SupP!StartLoad,
   SupP!StartLock, SupP!StartAlreadyRunning, SupP!StartExecFails, SupP!StartExec,
   SupP!ReadyDialed, SupP!ReadyExited, SupP!ReadyCancelled, SupP!ReadyTimeout, SupP!StopLock,
   SupP!StopSignal, SupP!StopReceive, SupP!StopTimeout, SupP!StopKill, SupP!Goto, SupP!Return,
   SupP!Abort, SupP!SomeoneListens, SupP!Readable, SupP!Receive, SupP!Received,
   SupP!StopResult, SupP!normalizeWaitError, SupP!Alive

LEMMA SupWaiter ==
    ASSUME NEW c \in Cmds, Sup!Waiter(c)
    PROVE  SupP!Waiter(c)
BY DEF Sup!Waiter, Sup!WaitReturns, Sup!WaitLock, Sup!WaitSend, Sup!WaitClose, Sup!fields,
   Sup!channels, Sup!child, Sup!calls, Sup!normalizeWaitError,
   SupP!Waiter, SupP!WaitReturns, SupP!WaitLock, SupP!WaitSend, SupP!WaitClose, SupP!fields,
   SupP!channels, SupP!child, SupP!calls, SupP!normalizeWaitError

LEMMA SupEnvironment ==
    ASSUME Sup!Environment
    PROVE  SupP!Environment
BY DEF Sup!Environment, Sup!Cancel, Sup!ChildListens, Sup!ChildExits, Sup!CtxKill, Sup!Alive,
   Sup!fields, Sup!channels, Sup!child, Sup!goroutines, Sup!calls,
   SupP!Environment, SupP!Cancel, SupP!ChildListens, SupP!ChildExits, SupP!CtxKill, SupP!Alive,
   SupP!fields, SupP!channels, SupP!child, SupP!goroutines, SupP!calls

LEMMA SupNext ==
    ASSUME [Sup!Next]_(Sup!vars)
    PROVE  [SupP!Next]_(SupP!vars)
<1>1. CASE Sup!Next
  BY <1>1, SupCalls, SupCaller, SupWaiter, SupEnvironment DEF Sup!Next, SupP!Next
<1>2. CASE UNCHANGED Sup!vars
  BY <1>2 DEF Sup!vars, SupP!vars, Sup!fields, Sup!channels, Sup!child, Sup!goroutines,
     Sup!calls, SupP!fields, SupP!channels, SupP!child, SupP!goroutines, SupP!calls
<1>3. QED
  BY <1>1, <1>2

(* Every step of the process, seen by the supervisor. *)
LEMMA StepOfSup == [Next]_vars => [Sup!Next]_(Sup!vars)
<1> SUFFICES ASSUME [Next]_vars PROVE [Sup!Next]_(Sup!vars)
  OBVIOUS
<1>1. UNCHANGED supVars => UNCHANGED Sup!vars
  BY DEF supVars, Sup!vars, Sup!fields, Sup!channels, Sup!child, Sup!goroutines, Sup!calls
<1>2. ASSUME App PROVE [Sup!Next]_(Sup!vars)
  BY <1>1, <1>2 DEF App, AppLoad, AppEnsure, AppSave, AppApply, AppWrite, AppStart, AppStarted,
     AppProbe, AppStop, AppStoppedProbe, AppCleanupProbe, AppSetReady, AppSelect, AppWakes,
     AppSetUnready, AppStopped, AppCleanup, Sup!Next
<1>3. ASSUME Main \/ TunnelChanges \/ ServerFails PROVE [Sup!Next]_(Sup!vars)
  BY <1>1, <1>3 DEF Main, MainSelect, MainWaitApp, MainShutdown, TunnelChanges, ServerFails
<1>4. ASSUME Signal \/ ServerCancels PROVE [Sup!Next]_(Sup!vars)
  BY <1>1, <1>4 DEF Signal, ServerCancels, CancelContext, Sup!Next, Sup!Environment
<1>5. ASSUME CallerStep PROVE [Sup!Next]_(Sup!vars)
  BY <1>5 DEF CallerStep, Sup!Next
<1>6. ASSUME NEW c \in Cmds, ChildListens(c) \/ ChildExits(c) \/ CtxKill(c)
      PROVE  [Sup!Next]_(Sup!vars)
  BY <1>6 DEF ChildListens, ChildExits, CtxKill, Sup!Next, Sup!Environment
<1>7. ASSUME NEW c \in Cmds, WaitSend(c) \/ SupervisorStep(c)
      PROVE  [Sup!Next]_(Sup!vars)
  BY <1>7 DEF WaitSend, SupervisorStep, Sup!Next, Sup!Waiter
<1>8. ASSUME Exited \/ UNCHANGED vars PROVE [Sup!Next]_(Sup!vars)
  BY <1>1, <1>8 DEF Exited, vars
<1>9. QED
  BY <1>2, <1>3, <1>4, <1>5, <1>6, <1>7, <1>8 DEF Next

(* The process uses the supervisor as its specification allows: whatever is
   proved of the supervisor alone holds in the process. *)
THEOREM UsesSupervisor == Spec => Sup!Spec
<1>1. Init => Sup!Init
  BY DEF Init
<1>2. QED
  BY <1>1, StepOfSup, PTL DEF Spec, Sup!Spec
-----------------------------------------------------------------------------
(* The inductive invariant of the process, in parts.                        *)

(* From the apply on the device in use is the one in state.json, and from the
   write on it is the one in the network. *)
BeforeWrite == {"load", "ensure", "save", "apply"}
InstalledAndSaved ==
    /\ apc \notin {"load", "ensure", "returned"} => dev \in Devices
    /\ apc \notin {"load", "ensure", "save", "returned"} => disk = dev
    /\ apc \notin BeforeWrite \cup {"returned"} => net = dev
    /\ ready => apc \in {"select", "parked", "set_unready"}

(* Main has a result of the app only when App.Run has returned. *)
ResultAfterReturn == mpc \in {"shutdown", "exited"} \/ appErrCh # "empty" => apc = "returned"

(* The app and the caller of the supervisor are one goroutine. *)
CallsMatch ==
    /\ apc \notin {"starting", "stopping", "stopping_probe"} => call = "idle"
    /\ apc = "starting" => op = "start"
    /\ apc \in {"stopping", "stopping_probe"} => op = "stop"

(* A child exists between the exec of Start and the end of Stop only. *)
WithChild == {"starting", "probe", "stop_probe", "stopping_probe", "set_ready", "select",
              "parked", "set_unready", "stop", "stopping"}
ChildWhileStarted ==
    ~SignalCanFail =>
        /\ apc \notin WithChild => SupP!Childless
        /\ call \in {"start_load", "start_lock", "start_exec"} => SupP!Childless
        /\ apc = "starting" /\ call = "idle" /\ ret = "err" => SupP!Childless

(* What is left of the tunnel outside the steps that hold it. *)
LeftoverSoFar ==
    apc \in BeforeWrite \cup {"returned"} /\ net \notin {"clean", "left"} =>
        outcome \in {"none", "apply", "write", "start"}

(* The errors of a run are nil until its select and its Stop, and that of main
   until it has a result; the health server's appears with its fault. *)
ErrorsInOrder ==
    /\ apc \notin {"set_unready", "stop", "stopping", "cleanup"} => runErr = "nil"
    /\ apc # "cleanup" => stopErr = "nil"
    /\ fault = {} => serverErrCh = "empty" /\ srv = "serving" /\ mpc # "wait_app"
    /\ mpc \in {"select", "parked"} => exit = "nil"

(* After the signal that found the app parked: the context is done, it is what
   woke the app, and no error comes up, unless a child got the context's error. *)
OnTheWayOut ==
    /\ ctxDone
    /\ apc \in {"parked", "set_unready", "stop", "stopping", "cleanup", "returned"}
    /\ apc = "parked" => wake = "ctx"
    /\ runErr = "nil" /\ stopErr = "nil" /\ exit = "nil" /\ appErrCh \in {"empty", "nil"}

ParkedSoFar ==
    ~SignalCanFail /\ graceful = "parked" /\ fault = {} =>
        OnTheWayOut \/ \E c \in Cmds : status[c] = "ctx"

RInv ==
    /\ TypeOK /\ SupP!CallerInv
    /\ InstalledAndSaved /\ ResultAfterReturn /\ CallsMatch /\ ChildWhileStarted
    /\ LeftoverSoFar /\ ErrorsInOrder /\ ParkedSoFar

LEMMA InitRInv == Init => RInv
<1> SUFFICES ASSUME Init PROVE RInv
  OBVIOUS
<1>1. Sup!Init /\ SupP!Init
  BY SupInit DEF Init
<1>2. SupP!CallerInv
  BY <1>1, SupP!InitCaller, SupAssumption
<1>3. SupP!TypeOK
  BY <1>2 DEF SupP!CallerInv, SupP!IInv
<1>4. TypeOK
  <2>1. Sup!TypeOK
    BY <1>3 DEF SupP!TypeOK, Sup!TypeOK, SupP!Errors, Sup!Errors, SupP!Unreaped, Sup!Unreaped,
       SupP!Dereferences, Sup!Dereferences
  <2>2. {ready, tunnel, sig} \subseteq BOOLEAN
    BY Zenon DEF Init
  <2>3. QED
    BY <2>1, <2>2 DEF Init, TypeOK, Devices
<1>5. SupP!Childless /\ call = "idle"
  BY <1>1 DEF Sup!Init, SupP!Childless, SupP!Unreaped
<1>6. /\ apc = "load" /\ net \in {"clean", "dirty"} /\ outcome = "none" /\ runErr = "nil"
      /\ stopErr = "nil" /\ ready = FALSE /\ mpc = "select" /\ appErrCh = "empty"
      /\ serverErrCh = "empty" /\ srv = "serving" /\ exit = "nil" /\ graceful = "no" /\ fault = {}
  BY DEF Init
<1>7. InstalledAndSaved /\ ResultAfterReturn /\ CallsMatch /\ ChildWhileStarted
  BY <1>5, <1>6 DEF InstalledAndSaved, BeforeWrite, ResultAfterReturn, CallsMatch,
     ChildWhileStarted
<1>8. LeftoverSoFar /\ ErrorsInOrder /\ ParkedSoFar
  BY <1>6 DEF LeftoverSoFar, ErrorsInOrder, ParkedSoFar
<1>9. QED
  BY <1>2, <1>4, <1>7, <1>8 DEF RInv
-----------------------------------------------------------------------------
(* Types *)

(* The result of App.Run goes into the channel or to the waiting main. *)
LEMMA AppReturnsType ==
    ASSUME TypeOK, NEW e \in {"nil", "err"}, AppReturns(e)
    PROVE  /\ mpc' \in {"select", "parked", "wait_app", "shutdown", "exited"}
           /\ {appErrCh', serverErrCh'} \subseteq {"empty", "nil", "err"}
           /\ srv' \in {"serving", "cancel", "down"} /\ exit' \in {"nil", "err"}
BY DEF TypeOK, AppReturns

LEMMA FailsType ==
    ASSUME TypeOK, NEW step \in {"apply", "write", "start", "probe", "exit", "stop", "cleanup"},
           Fails(step)
    PROVE  /\ apc' \in {"ensure", "returned"} /\ attempt' \in 1..2 /\ outcome' = step
           /\ mpc' \in {"select", "parked", "wait_app", "shutdown", "exited"}
           /\ {appErrCh', serverErrCh'} \subseteq {"empty", "nil", "err"}
           /\ srv' \in {"serving", "cancel", "down"} /\ exit' \in {"nil", "err"}
<1>1. CASE Quit("err") /\ UNCHANGED attempt /\ outcome' = step
  BY <1>1, AppReturnsType DEF Quit, TypeOK
<1>2. CASE apc' = "ensure" /\ attempt' = 2 /\ UNCHANGED mainVars /\ outcome' = step
  BY <1>2 DEF mainVars, TypeOK
<1>3. QED
  BY <1>1, <1>2 DEF Fails

LEMMA NextSup ==
    ASSUME SupP!CallerInv, [Next]_vars
    PROVE  SupP!CallerInv' /\ Sup!TypeOK'
<1>1. [SupP!Next]_(SupP!vars)
  BY StepOfSup, SupNext
<1>2. SupP!CallerInv'
  BY <1>1, SupP!NextCaller, SupAssumption
<1>3. QED
  BY <1>2 DEF SupP!CallerInv, SupP!IInv, SupP!TypeOK, Sup!TypeOK, SupP!Errors, Sup!Errors,
     SupP!Unreaped, Sup!Unreaped, SupP!Dereferences, Sup!Dereferences

LEMMA NextTypeOK ==
    ASSUME RInv, [Next]_vars
    PROVE  TypeOK'
<1> USE DEF RInv, appVars, outside, mainVars, history
<1>1. Sup!TypeOK'
  BY NextSup
<1>2. ASSUME UNCHANGED <<ready, tunnel, sig>> PROVE {ready', tunnel', sig'} \subseteq BOOLEAN
  BY <1>2, Zenon DEF TypeOK
<1>3. CASE AppLoad \/ AppEnsure \/ AppSave
  <2>1. Fresh \in Devices /\ EnsureDevice(loaded) \subseteq Devices \cup {"none"}
        /\ EnsureDevice("none") \subseteq Devices
    BY DEF Fresh, EnsureDevice, Devices, TypeOK
  <2>2. QED
    BY <1>1, <1>2, <1>3, <2>1, AppReturnsType
    DEF AppLoad, AppEnsure, AppSave, SaveFailed, Step, Quit, TypeOK
<1>4. CASE AppApply
  <2>1. apc = "apply" /\ dev \in Devices /\ net' \in Devices \cup {"clean", "dirty", "left"}
    BY <1>4 DEF AppApply, Step, InstalledAndSaved, TypeOK
  <2>2. QED
    BY <1>1, <1>2, <1>4, <2>1, FailsType DEF AppApply, Step, TypeOK
<1>5. CASE AppWrite \/ AppStart \/ AppStarted
  BY <1>1, <1>2, <1>5, FailsType DEF AppWrite, AppStart, AppStarted, Step, TypeOK
<1>6. CASE AppProbe \/ AppStop("stop_probe", "stopping_probe") \/ AppStoppedProbe
           \/ AppStop("stop", "stopping") \/ AppStopped
  BY <1>1, <1>2, <1>6 DEF AppProbe, AppStop, AppStoppedProbe, AppStopped, Step, TypeOK
<1>7. CASE AppCleanupProbe
  BY <1>1, <1>2, <1>7, FailsType DEF AppCleanupProbe, TypeOK
<1>8. CASE AppSetReady
  <2>1. {ready', tunnel', sig'} \subseteq BOOLEAN
    BY <1>8, Zenon DEF AppSetReady, TypeOK
  <2>2. QED
    BY <1>1, <1>8, <2>1 DEF AppSetReady, Step, TypeOK
<1>9. CASE AppSetUnready
  <2>1. {ready', tunnel', sig'} \subseteq BOOLEAN
    BY <1>9, Zenon DEF AppSetUnready, TypeOK
  <2>2. QED
    BY <1>1, <1>9, <2>1 DEF AppSetUnready, Step, TypeOK
<1>10. CASE AppSelect \/ AppWakes
  BY <1>1, <1>2, <1>10 DEF AppSelect, AppWakes, Step, TypeOK
<1>11. CASE AppCleanup
  <2>1. PICK cleanupErr \in {"nil", "err"} :
           /\ net' = IF cleanupErr = "nil" THEN "clean" ELSE "left"
           /\ fault' = fault \/ ("cleanup" \in Faults /\ fault' = fault \cup {"cleanup"})
           /\ \/ Quit("nil") /\ outcome' = "ended" /\ UNCHANGED attempt
              \/ \E step \in {"exit", "stop", "cleanup"} : Fails(step)
    BY <1>11 DEF AppCleanup
  <2>2. QED
    BY <1>1, <1>2, <1>11, <2>1, AppReturnsType, FailsType DEF AppCleanup, Quit, TypeOK
<1>12. CASE Main \/ ServerFails
  BY <1>1, <1>2, <1>12 DEF Main, MainSelect, MainWaitApp, MainShutdown, ServerFails, TypeOK
<1>13. CASE ServerCancels \/ CallerStep
  BY <1>1, <1>2, <1>13 DEF ServerCancels, CancelContext, CallerStep, TypeOK
<1>14. CASE Signal
  <2>1. {ready', tunnel', sig'} \subseteq BOOLEAN
    BY <1>14, Zenon DEF Signal, TypeOK
  <2>2. QED
    BY <1>1, <1>14, <2>1 DEF Signal, CancelContext, TypeOK
<1>15. CASE TunnelChanges
  <2>1. {ready', tunnel', sig'} \subseteq BOOLEAN
    BY <1>15, Zenon DEF TunnelChanges, TypeOK
  <2>2. QED
    BY <1>1, <1>15, <2>1 DEF TunnelChanges, TypeOK
<1>16. ASSUME NEW c \in Cmds,
              ChildListens(c) \/ ChildExits(c) \/ CtxKill(c) \/ WaitSend(c) \/ SupervisorStep(c)
       PROVE  TypeOK'
  BY <1>1, <1>2, <1>16 DEF ChildListens, ChildExits, CtxKill, WaitSend, SupervisorStep, TypeOK
<1>17. CASE Exited \/ UNCHANGED vars
  BY <1>1, <1>2, <1>17 DEF Exited, vars, TypeOK
<1>18. QED
  BY <1>3, <1>4, <1>5, <1>6, <1>7, <1>8, <1>9, <1>10, <1>11, <1>12, <1>13, <1>14, <1>15, <1>16,
     <1>17 DEF Next, App
-----------------------------------------------------------------------------
(* What is installed and saved, and what is left over *)

(* Steps of the others do not touch what the app holds. *)
LEMMA OthersLeaveApp ==
    ASSUME [Next]_vars, ~App
    PROVE  /\ UNCHANGED <<apc, dev, outcome, runErr, stopErr, attempt, loaded, disk, net, ready>>
           /\ fault \subseteq fault'
BY DEF Next, vars, Main, MainSelect, MainWaitApp, MainShutdown, ServerFails, ServerCancels, Signal,
   TunnelChanges, CallerStep, ChildListens, ChildExits, CtxKill, WaitSend, SupervisorStep, Exited,
   appVars, outside, history

LEMMA FailsTo == \A step : Fails(step) => apc' \in {"ensure", "returned"} /\ outcome' = step
BY DEF Fails, Quit

LEMMA NextInstalledAndSaved ==
    ASSUME RInv, [Next]_vars
    PROVE  InstalledAndSaved'
<1> USE DEF RInv, InstalledAndSaved, BeforeWrite
<1>1. CASE ~App
  BY <1>1, OthersLeaveApp
<1> USE FailsTo DEF outside, appVars
<1>2. CASE AppLoad \/ AppEnsure \/ AppSave
  <2>1. EnsureDevice(loaded) \ {"none"} \subseteq Devices /\ EnsureDevice("none") \subseteq Devices
    BY DEF Fresh, EnsureDevice, Devices, TypeOK
  <2>2. \A d : d \in EnsureDevice(IF attempt = 1 THEN loaded ELSE "none") => d # "none"
    BY DEF EnsureDevice, Fresh
  <2>3. QED
    BY <1>2, <2>1, <2>2 DEF AppLoad, AppEnsure, AppSave, Step, Quit
<1>3. CASE AppApply \/ AppWrite \/ AppStart \/ AppStarted
  BY <1>3 DEF AppApply, AppWrite, AppStart, AppStarted, Step
<1>4. CASE AppProbe \/ AppStop("stop_probe", "stopping_probe") \/ AppStoppedProbe
           \/ AppStop("stop", "stopping") \/ AppStopped \/ AppSetReady \/ AppSetUnready
  BY <1>4 DEF AppProbe, AppStop, AppStoppedProbe, AppStopped, AppSetReady, AppSetUnready, Step
<1>5. CASE AppSelect \/ AppWakes
  BY <1>5 DEF AppSelect, AppWakes, Step
<1>6. CASE AppCleanupProbe
  BY <1>6 DEF AppCleanupProbe
<1>7. CASE AppCleanup
  <2>1. apc' \in {"ensure", "returned"}
    BY <1>7 DEF AppCleanup, Quit
  <2>2. QED
    BY <1>7, <2>1 DEF AppCleanup
<1>8. QED
  BY <1>1, <1>2, <1>3, <1>4, <1>5, <1>6, <1>7 DEF App

LEMMA NextLeftoverSoFar ==
    ASSUME RInv, [Next]_vars
    PROVE  LeftoverSoFar'
<1> USE DEF RInv, LeftoverSoFar, BeforeWrite
<1>1. CASE ~App
  BY <1>1, OthersLeaveApp
<1> USE FailsTo DEF outside, history
<1>2. CASE AppLoad \/ AppEnsure \/ AppSave
  BY <1>2 DEF AppLoad, AppEnsure, AppSave, Step, Quit
<1>3. CASE AppApply \/ AppWrite \/ AppStart \/ AppStarted
  BY <1>3 DEF AppApply, AppWrite, AppStart, AppStarted, Step
<1>4. CASE AppProbe \/ AppStop("stop_probe", "stopping_probe") \/ AppStoppedProbe
           \/ AppStop("stop", "stopping") \/ AppStopped \/ AppSetReady \/ AppSetUnready
  BY <1>4 DEF AppProbe, AppStop, AppStoppedProbe, AppStopped, AppSetReady, AppSetUnready, Step
<1>5. CASE AppSelect \/ AppWakes
  BY <1>5 DEF AppSelect, AppWakes, Step
<1>6. CASE AppCleanupProbe
  BY <1>6 DEF AppCleanupProbe
<1>7. CASE AppCleanup
  BY <1>7 DEF AppCleanup
<1>8. QED
  BY <1>1, <1>2, <1>3, <1>4, <1>5, <1>6, <1>7 DEF App
-----------------------------------------------------------------------------
(* The app, main and the supervisor's caller *)

(* Main gets the result of App.Run only from its return. *)
LEMMA NextResultAfterReturn ==
    ASSUME RInv, [Next]_vars
    PROVE  ResultAfterReturn'
<1> USE DEF RInv, ResultAfterReturn, mainVars
<1>1. \A step : Fails(step) => UNCHANGED <<mpc, appErrCh>> \/ apc' = "returned"
  BY DEF Fails, Quit
<1>2. CASE App
  <2>1. apc # "returned"
    BY <1>2 DEF App, AppLoad, AppEnsure, AppSave, AppApply, AppWrite, AppStart, AppStarted, AppProbe,
       AppStop, AppStoppedProbe, AppCleanupProbe, AppSetReady, AppSelect, AppWakes, AppSetUnready,
       AppStopped, AppCleanup, Step
  <2>2. UNCHANGED <<mpc, appErrCh>> \/ apc' = "returned"
    BY <1>1, <1>2 DEF App, AppLoad, AppEnsure, AppSave, AppApply, AppWrite, AppStart, AppStarted,
       AppProbe, AppStop, AppStoppedProbe, AppCleanupProbe, AppSetReady, AppSelect, AppWakes,
       AppSetUnready, AppStopped, AppCleanup, Step, Quit
  <2>3. QED
    BY <2>1, <2>2
<1>3. CASE Main
  BY <1>3 DEF Main, MainSelect, MainWaitApp, MainShutdown, appVars
<1>4. CASE ~App /\ ~Main
  BY <1>4 DEF Next, vars, ServerFails, ServerCancels, Signal, TunnelChanges, CallerStep,
     ChildListens, ChildExits, CtxKill, WaitSend, SupervisorStep, Exited, appVars
<1>5. QED
  BY <1>2, <1>3, <1>4

(* A step of the app outside its calls leaves the caller's variables alone. *)
LEMMA NextCallsMatch ==
    ASSUME RInv, [Next]_vars
    PROVE  CallsMatch'
<1> USE DEF RInv, CallsMatch
<1>1. CASE UNCHANGED <<apc, call, op>>
  BY <1>1
<1>2. CASE AppStart
  BY <1>2 DEF AppStart, Step, Sup!CallStart
<1>3. CASE AppStop("stop_probe", "stopping_probe") \/ AppStop("stop", "stopping")
  BY <1>3 DEF AppStop, Step, Sup!CallStop
<1>4. CASE AppSelect \/ AppWakes
  BY <1>4 DEF AppSelect, AppWakes, Step, supVars, Sup!RecvDone, Sup!calls
<1>5. CASE AppLoad \/ AppEnsure \/ AppSave \/ AppApply \/ AppWrite \/ AppStarted \/ AppProbe
           \/ AppStoppedProbe \/ AppCleanupProbe \/ AppSetReady \/ AppSetUnready \/ AppStopped
           \/ AppCleanup
  <2>1. UNCHANGED <<call, op>> /\ call = "idle"
    BY <1>5 DEF AppLoad, AppEnsure, AppSave, AppApply, AppWrite, AppStarted, AppProbe,
       AppStoppedProbe, AppCleanupProbe, AppSetReady, AppSetUnready, AppStopped, AppCleanup,
       Step, supVars
  <2>2. apc' \notin {"starting", "stopping", "stopping_probe"}
    BY <1>5, FailsTo DEF AppLoad, AppEnsure, AppSave, AppApply, AppWrite, AppStarted, AppProbe,
       AppStoppedProbe, AppCleanupProbe, AppSetReady, AppSetUnready, AppStopped, AppCleanup,
       Step, Quit
  <2>3. QED
    BY <2>1, <2>2
<1>6. CASE CallerStep
  <2>1. call # "idle" /\ UNCHANGED <<apc, op>>
    BY <1>6 DEF CallerStep, appVars, Sup!Caller, Sup!StartLoad, Sup!StartLock,
       Sup!StartAlreadyRunning, Sup!StartExecFails, Sup!StartExec, Sup!ReadyDialed,
       Sup!ReadyExited, Sup!ReadyCancelled, Sup!ReadyTimeout, Sup!StopLock, Sup!StopSignal,
       Sup!StopReceive, Sup!StopTimeout, Sup!StopKill, Sup!Goto, Sup!Return, Sup!Abort
  <2>2. QED
    BY <2>1
<1>7. CASE Main \/ ServerFails \/ ServerCancels \/ Signal \/ TunnelChanges \/ Exited \/ UNCHANGED vars
  BY <1>1, <1>7 DEF Main, MainSelect, MainWaitApp, MainShutdown, ServerFails, ServerCancels, Signal,
     CancelContext, Sup!Cancel, Sup!calls, TunnelChanges, Exited, vars, supVars, appVars
<1>8. ASSUME NEW c \in Cmds,
             ChildListens(c) \/ ChildExits(c) \/ CtxKill(c) \/ WaitSend(c) \/ SupervisorStep(c)
      PROVE  UNCHANGED <<apc, call, op>>
  BY <1>8 DEF ChildListens, ChildExits, CtxKill, WaitSend, SupervisorStep, appVars,
     Sup!ChildListens, Sup!ChildExits, Sup!CtxKill, Sup!WaitSend, Sup!WaitReturns, Sup!WaitLock,
     Sup!WaitClose, Sup!calls
<1>9. QED
  BY <1>1, <1>2, <1>3, <1>4, <1>5, <1>6, <1>7, <1>8 DEF Next, App

(* The end of Start: an error only without a child, or after the Stop it called. *)
LEMMA CallerLeavesNoChild ==
    ASSUME RInv, ~SignalCanFail, CallerStep, ChildWhileStarted, apc = "starting",
           call' \in {"idle", "start_load", "start_lock", "start_exec"}
    PROVE  (call' = "idle" /\ ret' # "err") \/ SupP!Childless'
<1> USE DEF RInv, ChildWhileStarted, CallerStep
<1>1. CASE Sup!StartLoad \/ Sup!StartLock \/ Sup!StartAlreadyRunning \/ Sup!StartExecFails
  <2>1. SupP!Childless /\ UNCHANGED proc
    BY <1>1 DEF Sup!StartLoad, Sup!StartLock, Sup!StartAlreadyRunning, Sup!StartExecFails,
       Sup!child
  <2>2. QED
    BY <2>1 DEF SupP!Childless
<1>2. CASE Sup!ReadyDialed
  <2>1. ~aborting
    BY <1>2 DEF Sup!ReadyDialed, SupP!CallerInv, SupP!Returned, SupP!StopSteps
  <2>2. QED
    BY <1>2, <2>1 DEF Sup!ReadyDialed, Sup!Return
<1>3. CASE \/ Sup!ReadyExited \/ Sup!ReadyCancelled \/ Sup!ReadyTimeout
           \/ \E c \in Cmds : Sup!StartExec(c)
  BY <1>3 DEF Sup!ReadyExited, Sup!ReadyCancelled, Sup!ReadyTimeout, Sup!StartExec, Sup!Abort
<1>4. CASE Sup!StopLock \/ Sup!StopSignal \/ Sup!StopReceive \/ Sup!StopTimeout \/ Sup!StopKill
  <2>1. SupP!StopLock \/ SupP!StopSignal \/ SupP!StopReceive \/ SupP!StopTimeout \/ SupP!StopKill
    BY <1>4 DEF Sup!StopLock, Sup!StopSignal, Sup!StopReceive, Sup!StopTimeout, Sup!StopKill,
       Sup!fields, Sup!channels, Sup!child, Sup!goroutines, Sup!Goto, Sup!Return, Sup!Readable,
       Sup!Receive, Sup!Received, Sup!StopResult, Sup!normalizeWaitError, Sup!Alive,
       SupP!StopLock, SupP!StopSignal, SupP!StopReceive, SupP!StopTimeout, SupP!StopKill,
       SupP!fields, SupP!channels, SupP!child, SupP!goroutines, SupP!Goto, SupP!Return,
       SupP!Readable, SupP!Receive, SupP!Received, SupP!StopResult, SupP!normalizeWaitError,
       SupP!Alive
  <2>2. call' = "idle"
    BY <1>4 DEF Sup!StopLock, Sup!StopSignal, Sup!StopReceive, Sup!StopTimeout, Sup!StopKill,
       Sup!Goto, Sup!Return
  <2>3. QED
    BY <2>1, <2>2, SupP!StopReturns, SupAssumption
<1>5. QED
  BY <1>1, <1>2, <1>3, <1>4 DEF Sup!Caller

(* Childless is kept by every step but StartExec, which changes call. *)
LEMMA ChildlessStays ==
    ASSUME RInv, [Next]_vars, SupP!Childless, call' = call \/ call # "start_exec"
    PROVE  SupP!Childless'
<1>1. [SupP!Next]_(SupP!vars)
  BY StepOfSup, SupNext
<1>2. ~\E c \in Cmds : SupP!StartExec(c)
  BY DEF SupP!StartExec
<1>3. SupP!TypeOK
  BY DEF RInv, SupP!CallerInv, SupP!IInv
<1>4. QED
  BY <1>1, <1>2, <1>3, SupP!NoNewChild, SupAssumption

LEMMA NextChildWhileStarted ==
    ASSUME RInv, [Next]_vars
    PROVE  ChildWhileStarted'
<1> SUFFICES ASSUME ~SignalCanFail
             PROVE  /\ apc' \notin WithChild => SupP!Childless'
                    /\ call' \in {"start_load", "start_lock", "start_exec"} => SupP!Childless'
                    /\ apc' = "starting" /\ call' = "idle" /\ ret' = "err" => SupP!Childless'
  BY DEF ChildWhileStarted
<1> USE DEF RInv, ChildWhileStarted, WithChild, CallsMatch
<1>1. CASE UNCHANGED <<apc, call, ret>>
  BY <1>1, ChildlessStays
<1>2. CASE AppStart
  <2>1. SupP!Childless /\ apc' = "starting" /\ call = "idle" /\ call' = "start_load"
    BY <1>2 DEF AppStart, Step, Sup!CallStart
  <2>2. QED
    BY <2>1, ChildlessStays
<1>3. CASE AppStop("stop_probe", "stopping_probe") \/ AppStop("stop", "stopping")
  BY <1>3 DEF AppStop, Step, Sup!CallStop
<1>4. CASE AppSelect \/ AppWakes
  BY <1>4 DEF AppSelect, AppWakes, Step, supVars, Sup!RecvDone, Sup!calls
<1>5. CASE AppLoad \/ AppEnsure \/ AppSave \/ AppApply \/ AppWrite \/ AppProbe \/ AppCleanupProbe
           \/ AppSetReady \/ AppSetUnready \/ AppCleanup
  <2>1. UNCHANGED <<call, proc>> /\ call = "idle" /\ apc' # "starting"
    BY <1>5, FailsTo DEF AppLoad, AppEnsure, AppSave, AppApply, AppWrite, AppProbe,
       AppCleanupProbe, AppSetReady, AppSetUnready, AppCleanup, Step, Quit, supVars
  <2>2. apc \in WithChild => apc' \in WithChild
    BY <1>5 DEF AppLoad, AppEnsure, AppSave, AppApply, AppWrite, AppProbe,
       AppCleanupProbe, AppSetReady, AppSetUnready, AppCleanup, Step
  <2>3. QED
    BY <2>1, <2>2, ChildlessStays
<1>6. CASE AppStarted
  <2>1. UNCHANGED <<call, ret>> /\ call = "idle"
        /\ (apc' = "probe" \/ (apc = "starting" /\ ret = "err" /\ apc' # "starting"))
    BY <1>6, FailsTo DEF AppStarted, Step, supVars
  <2>2. QED
    BY <2>1, ChildlessStays
<1>7. CASE AppStoppedProbe \/ AppStopped
  <2>1. /\ call = "idle" /\ call' = call /\ apc \in {"stopping", "stopping_probe"}
        /\ apc' # "starting"
    BY <1>7 DEF AppStoppedProbe, AppStopped, Step, supVars
  <2>2. SupP!Childless
    BY <2>1 DEF SupP!CallerInv, SupP!StopExplained
  <2>3. QED
    BY <2>1, <2>2, ChildlessStays
<1>8. CASE CallerStep
  <2>1. apc' = apc /\ apc \in {"starting", "stopping", "stopping_probe"}
    BY <1>8 DEF CallerStep, appVars, Sup!Caller, Sup!StartLoad, Sup!StartLock,
       Sup!StartAlreadyRunning, Sup!StartExecFails, Sup!StartExec, Sup!ReadyDialed,
       Sup!ReadyExited, Sup!ReadyCancelled, Sup!ReadyTimeout, Sup!StopLock, Sup!StopSignal,
       Sup!StopReceive, Sup!StopTimeout, Sup!StopKill
  <2>2. CASE apc = "starting"
    BY <1>8, <2>1, <2>2, CallerLeavesNoChild
  <2>3. CASE op = "stop"
    <3>1. call \notin {"start_load", "start_lock", "start_exec", "start_ready"}
      BY <2>3 DEF SupP!CallerInv, SupP!IInv, SupP!InStart
    <3>2. call' \notin {"start_load", "start_lock", "start_exec"}
      BY <1>8, <3>1 DEF CallerStep, Sup!Caller, Sup!StartLoad, Sup!StartLock,
         Sup!StartAlreadyRunning, Sup!StartExecFails, Sup!StartExec, Sup!ReadyDialed,
         Sup!ReadyExited, Sup!ReadyCancelled, Sup!ReadyTimeout, Sup!StopLock, Sup!StopSignal,
         Sup!StopReceive, Sup!StopTimeout, Sup!StopKill, Sup!Goto, Sup!Return
    <3>3. CASE apc # "starting"
      BY <2>1, <3>2, <3>3
    <3>4. QED
      BY <2>2, <3>3
  <2>4. QED
    BY <2>1, <2>2, <2>3
<1>9. CASE Main \/ ServerFails \/ ServerCancels \/ Signal \/ TunnelChanges \/ Exited \/ UNCHANGED vars
  BY <1>1, <1>9 DEF Main, MainSelect, MainWaitApp, MainShutdown, ServerFails, ServerCancels, Signal,
     CancelContext, Sup!Cancel, Sup!calls, TunnelChanges, Exited, vars, supVars, appVars
<1>10. ASSUME NEW c \in Cmds,
              ChildListens(c) \/ ChildExits(c) \/ CtxKill(c) \/ WaitSend(c) \/ SupervisorStep(c)
       PROVE  UNCHANGED <<apc, call, ret>>
  BY <1>10 DEF ChildListens, ChildExits, CtxKill, WaitSend, SupervisorStep, appVars,
     Sup!ChildListens, Sup!ChildExits, Sup!CtxKill, Sup!WaitSend, Sup!WaitReturns, Sup!WaitLock,
     Sup!WaitClose, Sup!calls
<1>11. QED
  BY <1>1, <1>2, <1>3, <1>4, <1>5, <1>6, <1>7, <1>8, <1>9, <1>10 DEF Next, App
-----------------------------------------------------------------------------
(* The errors of a run and of the process *)

LEMMA NextErrorsInOrder ==
    ASSUME RInv, [Next]_vars
    PROVE  ErrorsInOrder'
<1> USE DEF RInv, ErrorsInOrder, appVars, mainVars, history
<1>1. CASE App
  <2>1. /\ apc' \notin {"set_unready", "stop", "stopping", "cleanup"} => runErr' = "nil"
        /\ apc' # "cleanup" => stopErr' = "nil"
    BY <1>1, FailsTo DEF App, AppLoad, AppEnsure, AppSave, AppApply, AppWrite, AppStart, AppStarted,
       AppProbe, AppStop, AppStoppedProbe, AppCleanupProbe, AppSetReady, AppSelect, AppWakes,
       AppSetUnready, AppStopped, AppCleanup, Step, Quit
  <2>2. \A step : Fails(step) => UNCHANGED mainVars \/ AppReturns("err")
    BY DEF Fails, Quit
  <2>3. UNCHANGED mainVars \/ \E e \in {"nil", "err"} : AppReturns(e)
    BY <1>1, <2>2 DEF App, AppLoad, AppEnsure, AppSave, AppApply, AppWrite, AppStart, AppStarted,
       AppProbe, AppStop, AppStoppedProbe, AppCleanupProbe, AppSetReady, AppSelect, AppWakes,
       AppSetUnready, AppStopped, AppCleanup, Step, Quit
  <2>4. fault \subseteq fault'
    BY <1>1 DEF App, AppLoad, AppEnsure, AppSave, AppApply, AppWrite, AppStart, AppStarted,
       AppProbe, AppStop, AppStoppedProbe, AppCleanupProbe, AppSetReady, AppSelect, AppWakes,
       AppSetUnready, AppStopped, AppCleanup
  <2>5. /\ UNCHANGED <<serverErrCh, srv>>
        /\ UNCHANGED <<mpc, exit>> \/ mpc' = "shutdown"
    BY <2>3 DEF AppReturns
  <2>6. QED
    BY <2>1, <2>4, <2>5
<1>2. CASE Main
  BY <1>2 DEF Main, MainSelect, MainWaitApp, MainShutdown
<1>3. CASE ServerFails \/ ServerCancels \/ Signal \/ TunnelChanges
  BY <1>3 DEF ServerFails, ServerCancels, Signal, TunnelChanges
<1>4. CASE CallerStep \/ Exited \/ UNCHANGED vars
  BY <1>4 DEF CallerStep, Exited, vars
<1>5. ASSUME NEW c \in Cmds,
             ChildListens(c) \/ ChildExits(c) \/ CtxKill(c) \/ WaitSend(c) \/ SupervisorStep(c)
      PROVE  ErrorsInOrder'
  BY <1>5 DEF ChildListens, ChildExits, CtxKill, WaitSend, SupervisorStep
<1>6. QED
  BY <1>1, <1>2, <1>3, <1>4, <1>5 DEF Next

(* Once the context is done the app goes through its teardown: nothing but a
   Stop that fails brings up an error. *)
LEMMA TeardownSilent ==
    ASSUME RInv, App, OnTheWayOut, fault' = {}, fault = {},
           ~\E c \in Cmds : status[c] = "ctx", ~SignalCanFail
    PROVE  OnTheWayOut'
<1> USE DEF RInv, OnTheWayOut
<1>1. AppWakes \/ AppSetUnready \/ AppStop("stop", "stopping") \/ AppStopped \/ AppCleanup
  BY DEF App, AppLoad, AppEnsure, AppSave, AppApply, AppWrite, AppStart, AppStarted,
       AppProbe, AppStop, AppStoppedProbe, AppCleanupProbe, AppSetReady, AppSelect, Step
<1>2. CASE AppWakes
  BY <1>2 DEF AppWakes, Step, supVars, mainVars
<1>3. CASE AppSetUnready \/ AppStop("stop", "stopping")
  BY <1>3 DEF AppSetUnready, AppStop, Step, supVars, mainVars, Sup!CallStop
<1>4. CASE AppStopped
  <2>1. call = "idle" /\ op = "stop"
    BY <1>4 DEF AppStopped, Step, CallsMatch
  <2>2. ret = "ok"
    BY <2>1 DEF SupP!CallerInv, SupP!Returned, SupP!StopExplained
  <2>3. QED
    BY <1>4, <2>2 DEF AppStopped, Step, supVars, mainVars
<1>5. CASE AppCleanup
  <2>1. Quit("nil") /\ UNCHANGED supVars /\ runErr' = "nil" /\ stopErr' = "nil"
    BY <1>5 DEF AppCleanup
  <2>2. QED
    BY <2>1 DEF Quit, AppReturns, supVars
<1>6. QED
  BY <1>1, <1>2, <1>3, <1>4, <1>5

LEMMA NextParkedSoFar ==
    ASSUME RInv, [Next]_vars
    PROVE  ParkedSoFar'
<1> SUFFICES ASSUME ~SignalCanFail, graceful' = "parked", fault' = {},
                    ~\E c \in Cmds : status'[c] = "ctx"
             PROVE  OnTheWayOut'
  BY DEF ParkedSoFar
<1> USE DEF RInv
<1>1. fault = {}
  <2>1. fault \subseteq fault'
    BY DEF Next, vars, App, AppLoad, AppEnsure, AppSave, AppApply, AppWrite, AppStart, AppStarted,
       AppProbe, AppStop, AppStoppedProbe, AppCleanupProbe, AppSetReady, AppSelect, AppWakes,
       AppSetUnready, AppStopped, AppCleanup, Main, MainSelect, MainWaitApp, MainShutdown,
       ServerFails, ServerCancels, Signal, TunnelChanges, CallerStep, ChildListens, ChildExits,
       CtxKill, WaitSend, SupervisorStep, Exited, history
  <2>2. QED
    BY <2>1
<1>2. ~\E c \in Cmds : status[c] = "ctx"
  <2>1. [SupP!Next]_(SupP!vars)
    BY StepOfSup, SupNext
  <2>2. SupP!TypeOK /\ SupP!ContextError
    BY DEF SupP!CallerInv, SupP!IInv
  <2>3. QED
    BY <2>1, <2>2, SupP!ContextErrorStays, SupAssumption
<1>3. CASE Signal
  <2>1. apc = "parked" /\ wake = "none" /\ ~ctxDone
    BY <1>3 DEF Signal
  <2>2. ctxDone' /\ wake' = "ctx"
    BY <1>3, <2>1 DEF Signal, CancelContext, Sup!Cancel
  <2>3. /\ runErr = "nil" /\ stopErr = "nil" /\ appErrCh = "empty" /\ mpc \in {"select", "parked"}
    BY <1>1, <2>1 DEF ErrorsInOrder, ResultAfterReturn, TypeOK
  <2>4. exit = "nil"
    BY <2>3 DEF ErrorsInOrder
  <2>5. QED
    BY <1>3, <2>1, <2>2, <2>3, <2>4 DEF Signal, mainVars, OnTheWayOut
<1>4. ASSUME graceful = "parked" PROVE OnTheWayOut
  BY <1>1, <1>2, <1>4 DEF ParkedSoFar
<1>5. CASE App
  <2>1. graceful = "parked"
    BY <1>5 DEF App, AppLoad, AppEnsure, AppSave, AppApply, AppWrite, AppStart, AppStarted,
       AppProbe, AppStop, AppStoppedProbe, AppCleanupProbe, AppSetReady, AppSelect, AppWakes,
       AppSetUnready, AppStopped, AppCleanup, history
  <2>2. QED
    BY <1>1, <1>2, <1>4, <1>5, <2>1, TeardownSilent
<1> USE DEF OnTheWayOut, appVars, mainVars, history
<1>6. CASE Main
  <2>1. graceful = "parked" /\ serverErrCh = "empty"
    BY <1>1, <1>6 DEF Main, MainSelect, MainWaitApp, MainShutdown, ErrorsInOrder
  <2>2. QED
    BY <1>1, <1>4, <1>6, <2>1 DEF Main, MainSelect, MainWaitApp, MainShutdown, supVars
<1>7. CASE ServerFails \/ ServerCancels
  BY <1>1, <1>7 DEF ServerFails, ServerCancels, ErrorsInOrder
<1>8. CASE TunnelChanges \/ Exited \/ UNCHANGED vars
  BY <1>4, <1>8 DEF TunnelChanges, Exited, vars, supVars
<1>9. CASE CallerStep
  <2>1. UNCHANGED ctxDone
    BY <1>9 DEF CallerStep, Sup!Caller, Sup!StartLoad, Sup!StartLock, Sup!StartAlreadyRunning,
       Sup!StartExecFails, Sup!StartExec, Sup!ReadyDialed, Sup!ReadyExited, Sup!ReadyCancelled,
       Sup!ReadyTimeout, Sup!StopLock, Sup!StopSignal, Sup!StopReceive, Sup!StopTimeout,
       Sup!StopKill
  <2>2. QED
    BY <1>4, <1>9, <2>1 DEF CallerStep
<1>10. ASSUME NEW c \in Cmds,
             ChildListens(c) \/ ChildExits(c) \/ CtxKill(c) \/ WaitSend(c) \/ SupervisorStep(c)
      PROVE  OnTheWayOut'
  <2>1. UNCHANGED ctxDone
    BY <1>10 DEF ChildListens, ChildExits, CtxKill, WaitSend, SupervisorStep, Sup!ChildListens,
       Sup!ChildExits, Sup!CtxKill, Sup!WaitSend, Sup!WaitReturns, Sup!WaitLock, Sup!WaitClose
  <2>2. QED
    BY <1>4, <1>10, <2>1 DEF ChildListens, ChildExits, CtxKill, WaitSend, SupervisorStep
<1>11. QED
  BY <1>3, <1>5, <1>6, <1>7, <1>8, <1>9, <1>10 DEF Next
-----------------------------------------------------------------------------
LEMMA NextRInv == RInv /\ [Next]_vars => RInv'
<1> SUFFICES ASSUME RInv, [Next]_vars PROVE RInv'
  OBVIOUS
<1>1. SupP!CallerInv'
  BY NextSup DEF RInv
<1>2. QED
  BY <1>1, NextTypeOK, NextInstalledAndSaved, NextResultAfterReturn, NextCallsMatch,
     NextChildWhileStarted, NextLeftoverSoFar, NextErrorsInOrder, NextParkedSoFar DEF RInv

(* The inductive invariant holds in every reachable state of the process. *)
THEOREM RuntimeInductive == Spec => []RInv
BY InitRInv, NextRInv, PTL DEF Spec

(* Every variable of the process keeps its type: Run makes one retry at most. *)
THEOREM RuntimeTypeCorrect == Spec => []TypeOK
<1>1. RInv => TypeOK
  BY DEF RInv
<1>2. QED
  BY <1>1, RuntimeInductive, PTL

(* While /readyz answers ready, the tunnel is that of the device in use and in
   state.json. *)
THEOREM ReadyConsistentCorrect == Spec => []ReadyConsistent
<1>1. RInv => ReadyConsistent
  BY DEF RInv, InstalledAndSaved, BeforeWrite, ReadyConsistent, Devices
<1>2. QED
  BY <1>1, RuntimeInductive, PTL

(* If signals can be sent to the child, the process leaves none behind. *)
THEOREM ExitLeavesNoChildCorrect ==
    ASSUME ~SignalCanFail
    PROVE  Spec => []ExitLeavesNoChild
<1>1. RInv => ExitLeavesNoChild
  BY DEF RInv, ResultAfterReturn, ChildWhileStarted, WithChild, SupP!Childless, SupP!Unreaped,
     ExitLeavesNoChild, Sup!Unreaped
<1>2. QED
  BY <1>1, RuntimeInductive, PTL

(* App.Run leaves something installed only where the last runStartedRuntime called
   no Cleanup, or after a Cleanup that failed; never after a run that ended. *)
THEOREM LeftoverExplainedCorrect == Spec => []LeftoverExplained
<1>1. RInv => LeftoverExplained
  BY DEF RInv, LeftoverSoFar, LeftoverExplained
<1>2. QED
  BY <1>1, RuntimeInductive, PTL

(* A signal that finds the service waiting, with nothing else going wrong, ends
   in exit code 0 unless a child got the context's error. *)
THEOREM ParkedShutdownCleanCorrect ==
    ASSUME ~SignalCanFail
    PROVE  Spec => []ParkedShutdownClean
<1>1. RInv => ParkedShutdownClean
  BY DEF RInv, ParkedSoFar, OnTheWayOut, ParkedShutdownClean
<1>2. QED
  BY <1>1, RuntimeInductive, PTL
=============================================================================
