------------------------------- MODULE Runtime -------------------------------
(***************************************************************************)
(* The warp-socksd process: App.Run and runStartedRuntime                  *)
(* (internal/app/app.go), the main goroutine and the health server of      *)
(* runWithEnv (cmd/warp-socksd/main.go) and the readiness flag             *)
(* (internal/runtime/status.go), composed with the SOCKS5 supervisor.      *)
(*                                                                         *)
(* The goroutines are: the app, which runs the start-up sequence, waits    *)
(* and tears down; main, which waits for the app or the health server;     *)
(* the health server; and those of the supervisor.  They meet in the       *)
(* context, the two error channels and the supervisor's Done channel.      *)
(* The bootstrapper, the network manager, the prober and the file writers  *)
(* appear by their outcomes.                                               *)
(***************************************************************************)
EXTENDS Naturals

CONSTANTS
    Cmds, NoCmd, ExecCanFail, SignalCanFail,    \* those of Supervisor
    Faults      \* what may go wrong around the app, out of the five below

(* What Supervisor assumes of its constants. *)
ASSUME SupAssumption ==
    NoCmd \notin Cmds /\ ExecCanFail \in BOOLEAN /\ SignalCanFail \in BOOLEAN
ASSUME FaultsAssumption == Faults \subseteq {"child", "cleanup", "server", "shutdown", "tunnel"}

VARIABLES
    ctxDone, mu, cmd, done, stopped, chan, closed, proc, status, waiter,
    report, call, op, ret, local, aborting, stopReq

Sup == INSTANCE Supervisor

supVars == <<ctxDone, mu, cmd, done, stopped, chan, closed, proc, status, waiter,
             report, call, op, ret, local, aborting, stopReq>>

VARIABLES
    apc,        \* where App.Run is
    attempt,    \* 1, or 2 in the retry with a fresh registration
    loaded,     \* loadedState: the device StateLoader returned
    dev,        \* currentState or freshState: the device in use
    outcome,    \* of the last runStartedRuntime: where it failed, or "ended"; "none" before
    runErr,     \* what the select in runStartedRuntime recorded
    stopErr,    \* what Supervisor.Stop returned after the select
    wake,       \* the event that woke the app parked in its select
    disk,       \* the device in state.json
    net,        \* "clean", "dirty", "left" by a Cleanup that failed, or the device whose
                \* tunnel and routes are installed
    ready,      \* Status.ready, what /readyz answers
    tunnel,     \* the tunnel carries traffic (outside the program)
    mpc,        \* where runWithEnv is
    appErrCh,   \* the buffered result of App.Run
    serverErrCh,\* the buffered error of the health server
    srv,        \* the health server's goroutine
    exit,       \* the error runWithEnv returns
    sig,        \* history: SIGINT or SIGTERM arrived
    graceful,   \* history: where the app was, if it arrived while /readyz answered ready
    fault       \* history: what else than the signal went wrong

appVars == <<apc, attempt, loaded, dev, outcome, runErr, stopErr, wake>>
outside == <<disk, net, tunnel>>
mainVars == <<mpc, appErrCh, serverErrCh, srv, exit>>
history == <<sig, graceful, fault>>
vars == <<supVars, appVars, outside, ready, mainVars, history>>

(* The persisted device, and the ones registered by attempt 1 and attempt 2. *)
Devices == {"persisted", "fresh1", "fresh2"}
Fresh == IF attempt = 1 THEN "fresh1" ELSE "fresh2"

(* Every variable has its type; in particular App.Run makes at most one retry. *)
TypeOK ==
    /\ Sup!TypeOK
    /\ apc \in {"load", "ensure", "save", "apply", "write", "start", "starting",
                "probe", "stop_probe", "stopping_probe", "cleanup_probe", "set_ready",
                "select", "parked", "set_unready", "stop", "stopping", "cleanup",
                "returned"}
    /\ attempt \in 1..2
    /\ {loaded, dev, disk} \subseteq Devices \cup {"none"}
    /\ outcome \in {"none", "apply", "write", "start", "probe", "exit", "stop", "cleanup", "ended"}
    /\ {runErr, stopErr, exit} \subseteq {"nil", "err"}
    /\ wake \in {"none", "ctx", "done"}
    /\ net \in Devices \cup {"clean", "dirty", "left"}
    /\ {ready, tunnel, sig} \subseteq BOOLEAN
    /\ graceful \in {"no", "ready", "parked"}
    /\ fault \subseteq Faults
    /\ mpc \in {"select", "parked", "wait_app", "shutdown", "exited"}
    /\ {appErrCh, serverErrCh} \subseteq {"empty", "nil", "err"}
    /\ srv \in {"serving", "cancel", "down"}

Init ==
    /\ Sup!Init
    /\ apc = "load" /\ attempt = 1 /\ loaded = "none" /\ dev = "none"
    /\ outcome = "none" /\ runErr = "nil" /\ stopErr = "nil" /\ wake = "none"
    /\ disk \in {"none", "persisted"}
    /\ net \in {"clean", "dirty"}   \* a killed predecessor may leave its link behind
    /\ ready = FALSE
    /\ tunnel = TRUE
    /\ mpc = "select" /\ appErrCh = "empty" /\ serverErrCh = "empty"
    /\ srv = "serving" /\ exit = "nil"
    /\ sig = FALSE /\ graceful = "no" /\ fault = {}
-----------------------------------------------------------------------------
(* App.Run: the start-up sequence *)

Step(from, to) == apc = from /\ apc' = to

(* The return of Run: the result goes into the one-element appErrCh, or
   straight to main if that waits for it. *)
AppReturns(e) ==
    /\ IF mpc \in {"parked", "wait_app"}
       THEN /\ mpc' = "shutdown"
            /\ exit' = IF mpc = "parked" THEN e ELSE exit
            /\ UNCHANGED appErrCh
       ELSE appErrCh' = e /\ UNCHANGED <<mpc, exit>>
    /\ UNCHANGED <<serverErrCh, srv>>

Quit(e) == apc' = "returned" /\ AppReturns(e)

(* ConfigLoader and StateLoader: either may fail. *)
AppLoad ==
    /\ \/ Step("load", "ensure") /\ loaded' = disk /\ UNCHANGED mainVars
       \/ apc = "load" /\ Quit("err") /\ UNCHANGED loaded
    /\ UNCHANGED <<supVars, attempt, dev, outcome, runErr, stopErr, wake, outside, ready, history>>

(* EnsureDevice returns the device it was given, refreshed or, without the
   API, as it is; or one newly registered, which needs the API. *)
EnsureDevice(current) ==
    ({current} \ {"none"}) \cup IF ctxDone THEN {} ELSE {Fresh}

(* Attempt 2 passes an empty state. *)
AppEnsure ==
    /\ \/ /\ Step("ensure", "save")
          /\ dev' \in EnsureDevice(IF attempt = 1 THEN loaded ELSE "none")
          /\ UNCHANGED mainVars
       \/ apc = "ensure" /\ Quit("err") /\ UNCHANGED dev
    /\ UNCHANGED <<supVars, attempt, loaded, outcome, runErr, stopErr, wake, outside, ready, history>>

(* What is in state.json after Store.Save failed, before or after its rename. *)
SaveFailed == {disk, dev}

(* Mutation: a save that failed is only logged. *)
AppSaveIgnored ==
    /\ Step("save", "apply")
    /\ disk' \in SaveFailed
    /\ UNCHANGED <<supVars, attempt, loaded, dev, outcome, runErr, stopErr, wake,
                   net, tunnel, ready, mainVars, history>>

(* StateSaver: its error ends the run, whatever reached the disk. *)
AppSave ==
    /\ \/ Step("save", "apply") /\ disk' = dev /\ UNCHANGED mainVars
       \/ apc = "save" /\ disk' \in SaveFailed /\ Quit("err")
    /\ UNCHANGED <<supVars, attempt, loaded, dev, outcome, runErr, stopErr, wake,
                   net, tunnel, ready, history>>

(* Mutation: the retry itself may be retried. *)
FailsUncapped(step) ==
    /\ outcome' = step
    /\ IF loaded # "none"
       THEN apc' = "ensure" /\ attempt' = attempt + 1 /\ UNCHANGED mainVars
       ELSE Quit("err") /\ UNCHANGED attempt

(* Mutation: the retry starts over from the loaded state, any number of times. *)
FailsRetriesForever(step) ==
    /\ outcome' = step
    /\ IF loaded # "none"
       THEN apc' = "ensure" /\ UNCHANGED <<attempt, mainVars>>
       ELSE Quit("err") /\ UNCHANGED attempt

(* Run after runStartedRuntime failed at this step: one retry if the loaded
   state had credentials. *)
Fails(step) ==
    /\ outcome' = step
    /\ IF attempt = 1 /\ loaded # "none"
       THEN apc' = "ensure" /\ attempt' = 2 /\ UNCHANGED mainVars
       ELSE Quit("err") /\ UNCHANGED attempt
-----------------------------------------------------------------------------
(* runStartedRuntime *)

(* NetworkManager.Apply: a failure may leave what was there, a part of the new
   configuration, or nothing.  Its commands run under the context. *)
AppApply ==
    /\ \/ /\ Step("apply", "write")
          /\ ~ctxDone
          /\ net' = dev
          /\ UNCHANGED <<attempt, outcome, mainVars>>
       \/ /\ apc = "apply"
          /\ net' \in {net, "dirty", "clean"}
          /\ Fails("apply")
    /\ UNCHANGED <<supVars, loaded, dev, runErr, stopErr, wake, disk, tunnel, ready, history>>

(* ProxyConfigWriter: on failure the network stays as it is. *)
AppWrite ==
    /\ \/ Step("write", "start") /\ UNCHANGED <<attempt, outcome, mainVars>>
       \/ apc = "write" /\ Fails("write")
    /\ UNCHANGED <<supVars, loaded, dev, runErr, stopErr, wake, outside, ready, history>>

AppStart ==
    /\ Step("start", "starting")
    /\ Sup!CallStart
    /\ UNCHANGED <<attempt, loaded, dev, outcome, runErr, stopErr, wake, outside,
                   ready, mainVars, history>>

(* Supervisor.Start returned: on failure the network stays as it is. *)
AppStarted ==
    /\ call = "idle"
    /\ \/ Step("starting", "probe") /\ ret = "ok" /\ UNCHANGED <<attempt, outcome, mainVars>>
       \/ apc = "starting" /\ ret = "err" /\ Fails("start")
    /\ UNCHANGED <<supVars, loaded, dev, runErr, stopErr, wake, outside, ready, history>>

(* httpProber.Check can succeed: it needs the proxy and the tunnel. *)
CheckPasses == ~ctxDone /\ tunnel /\ Sup!SomeoneListens

(* Mutation: a failed probe goes straight to the cleanup of the network. *)
AppProbeNoStop ==
    /\ \/ Step("probe", "set_ready") /\ CheckPasses
       \/ Step("probe", "cleanup_probe")
    /\ UNCHANGED <<supVars, attempt, loaded, dev, outcome, runErr, stopErr, wake,
                   outside, ready, mainVars, history>>

(* Prober.Check through the proxy: it may fail at any time, after its retries. *)
AppProbe ==
    /\ \/ Step("probe", "set_ready") /\ CheckPasses
       \/ Step("probe", "stop_probe")
    /\ UNCHANGED <<supVars, attempt, loaded, dev, outcome, runErr, stopErr, wake,
                   outside, ready, mainVars, history>>

AppStop(from, to) ==
    /\ Step(from, to)
    /\ Sup!CallStop
    /\ UNCHANGED <<attempt, loaded, dev, outcome, runErr, stopErr, wake, outside,
                   ready, mainVars, history>>

(* After a failed probe the results of Stop and Cleanup are dropped. *)
AppStoppedProbe ==
    /\ Step("stopping_probe", "cleanup_probe")
    /\ call = "idle"
    /\ UNCHANGED <<supVars, attempt, loaded, dev, outcome, runErr, stopErr, wake,
                   outside, ready, mainVars, history>>

(* NetworkManager.Cleanup under its own context: it works, or leaves a part. *)
AppCleanupProbe ==
    /\ apc = "cleanup_probe"
    /\ \/ net' = "clean" /\ UNCHANGED fault
       \/ "cleanup" \in Faults /\ net' = "left" /\ fault' = fault \cup {"cleanup"}
    /\ Fails("probe")
    /\ UNCHANGED <<supVars, loaded, dev, runErr, stopErr, wake, disk, tunnel, ready, sig, graceful>>

AppSetReady ==
    /\ Step("set_ready", "select")
    /\ ready' = TRUE
    /\ UNCHANGED <<supVars, attempt, loaded, dev, outcome, runErr, stopErr, wake,
                   outside, mainVars, history>>

(* Mutation: the select does not listen to Done(). *)
AppSelectCtxOnly ==
    /\ Step("select", "set_unready")
    /\ ctxDone
    /\ wake' = "ctx"
    /\ UNCHANGED <<supVars, attempt, loaded, dev, outcome, runErr, stopErr, outside,
                   ready, mainVars, history>>

(* The select on ctx.Done() and Done(): with both ready Go picks either; with
   none the goroutine parks and the first event to come decides. *)
AppSelect ==
    /\ apc = "select"
    /\ \/ ctxDone /\ wake' = "ctx" /\ apc' = "set_unready" /\ UNCHANGED <<supVars, runErr>>
       \/ /\ Sup!DoneReady
          /\ Sup!RecvDone
          /\ runErr' = IF Sup!DoneValue = "nil" THEN "nil" ELSE "err"
          /\ wake' = "done"
          /\ apc' = "set_unready"
       \/ ~ctxDone /\ ~Sup!DoneReady /\ apc' = "parked" /\ UNCHANGED <<supVars, runErr, wake>>
    /\ UNCHANGED <<attempt, loaded, dev, outcome, stopErr, outside, ready, mainVars, history>>

AppWakes ==
    /\ Step("parked", "set_unready")
    /\ \/ wake = "ctx" /\ UNCHANGED <<supVars, runErr>>
       \/ /\ wake = "done"
          /\ Sup!RecvDone
          /\ runErr' = IF Sup!DoneValue = "nil" THEN "nil" ELSE "err"
    /\ UNCHANGED <<attempt, loaded, dev, outcome, stopErr, wake, outside, ready, mainVars, history>>

AppSetUnready ==
    /\ Step("set_unready", "stop")
    /\ ready' = FALSE
    /\ UNCHANGED <<supVars, attempt, loaded, dev, outcome, runErr, stopErr, wake,
                   outside, mainVars, history>>

AppStopped ==
    /\ Step("stopping", "cleanup")
    /\ call = "idle"
    /\ stopErr' = IF ret = "ok" THEN "nil" ELSE "err"
    /\ UNCHANGED <<supVars, attempt, loaded, dev, outcome, runErr, wake, outside,
                   ready, mainVars, history>>

(* Mutation: after the stop the network is left as it is. *)
AppCleanupSkipped ==
    /\ apc = "cleanup"
    /\ IF {runErr, stopErr} = {"nil"}
       THEN Quit("nil") /\ outcome' = "ended" /\ UNCHANGED attempt
       ELSE Fails(IF runErr # "nil" THEN "exit" ELSE "stop")
    /\ runErr' = "nil" /\ stopErr' = "nil" /\ wake' = "none"
    /\ UNCHANGED <<supVars, loaded, dev, outside, ready, history>>

(* Cleanup, then the first of runErr, stopErr and cleanupErr is returned.  The
   select's own variables are per call of runStartedRuntime. *)
AppCleanup ==
    /\ apc = "cleanup"
    /\ \E cleanupErr \in {"nil"} \cup IF "cleanup" \in Faults THEN {"err"} ELSE {} :
          /\ net' = IF cleanupErr = "nil" THEN "clean" ELSE "left"
          /\ fault' = IF cleanupErr = "nil" THEN fault ELSE fault \cup {"cleanup"}
          /\ IF {runErr, stopErr, cleanupErr} = {"nil"}
             THEN Quit("nil") /\ outcome' = "ended" /\ UNCHANGED attempt
             ELSE Fails(IF runErr # "nil" THEN "exit"
                        ELSE IF stopErr # "nil" THEN "stop" ELSE "cleanup")
    /\ runErr' = "nil" /\ stopErr' = "nil" /\ wake' = "none"
    /\ UNCHANGED <<supVars, loaded, dev, disk, tunnel, ready, sig, graceful>>
-----------------------------------------------------------------------------
(* runWithEnv: main and the health server *)

(* The select on the two error channels. *)
MainSelect ==
    /\ mpc = "select"
    /\ \/ /\ appErrCh # "empty"
          /\ exit' = appErrCh /\ appErrCh' = "empty" /\ mpc' = "shutdown"
          /\ UNCHANGED serverErrCh
       \/ /\ serverErrCh # "empty"
          /\ exit' = serverErrCh /\ serverErrCh' = "empty" /\ mpc' = "wait_app"
          /\ UNCHANGED appErrCh
       \/ /\ appErrCh = "empty" /\ serverErrCh = "empty"
          /\ mpc' = "parked"
          /\ UNCHANGED <<appErrCh, serverErrCh, exit>>
    /\ UNCHANGED <<supVars, appVars, outside, ready, srv, history>>

(* After the health server's error: the app's result is awaited and dropped. *)
MainWaitApp ==
    /\ mpc = "wait_app"
    /\ appErrCh # "empty"
    /\ appErrCh' = "empty" /\ mpc' = "shutdown"
    /\ UNCHANGED <<supVars, appVars, outside, ready, serverErrCh, srv, exit, history>>

(* server.Shutdown, which a busy health connection can make fail after 3 s. *)
MainShutdown ==
    /\ mpc = "shutdown"
    /\ mpc' = "exited"
    /\ \/ UNCHANGED <<exit, fault>>
       \/ "shutdown" \in Faults /\ exit' = "err" /\ fault' = fault \cup {"shutdown"}
    /\ UNCHANGED <<supVars, appVars, outside, ready, appErrCh, serverErrCh, srv, sig, graceful>>

(* The context is cancelled; a parked app is woken by it. *)
CancelContext ==
    IF ctxDone THEN UNCHANGED <<supVars, wake>>
    ELSE Sup!Cancel /\ wake' = IF apc = "parked" /\ wake = "none" THEN "ctx" ELSE wake

(* ListenAndServe fails: the error is sent, or handed to the parked main. *)
ServerFails ==
    /\ mpc # "exited"
    /\ "server" \in Faults
    /\ srv = "serving"
    /\ srv' = "cancel"
    /\ IF mpc = "parked"
       THEN mpc' = "wait_app" /\ exit' = "err" /\ UNCHANGED serverErrCh
       ELSE serverErrCh' = "err" /\ UNCHANGED <<mpc, exit>>
    /\ fault' = fault \cup {"server"}
    /\ UNCHANGED <<supVars, appVars, outside, ready, appErrCh, sig, graceful>>

ServerCancels ==
    /\ mpc # "exited"
    /\ srv = "cancel"
    /\ srv' = "down"
    /\ CancelContext
    /\ UNCHANGED <<apc, attempt, loaded, dev, outcome, runErr, stopErr, outside, ready,
                   mpc, appErrCh, serverErrCh, exit, history>>
-----------------------------------------------------------------------------
(* The world: signals, the tunnel, the child and the supervisor's goroutines *)

Signal ==
    /\ mpc # "exited"
    /\ ~sig
    /\ sig' = TRUE
    /\ graceful' = IF ~ready \/ ctxDone THEN "no"
                   ELSE IF apc = "parked" /\ wake = "none" THEN "parked" ELSE "ready"
    /\ CancelContext
    /\ UNCHANGED <<apc, attempt, loaded, dev, outcome, runErr, stopErr, outside, ready,
                   mainVars, fault>>

TunnelChanges ==
    /\ mpc # "exited"
    /\ "tunnel" \in Faults
    /\ tunnel' = ~tunnel
    /\ UNCHANGED <<supVars, appVars, disk, net, ready, mainVars, history>>

(* A child that ends before anybody asked it to. *)
ChildExits(c) ==
    /\ mpc # "exited"
    /\ "child" \in Faults \/ c \in stopReq
    /\ Sup!ChildExits(c)
    /\ fault' = IF c \in stopReq THEN fault ELSE fault \cup {"child"}
    /\ UNCHANGED <<appVars, outside, ready, mainVars, sig, graceful>>

(* The send of the wait goroutine wakes a parked app. *)
WaitSend(c) ==
    /\ mpc # "exited"
    /\ Sup!WaitSend(c)
    /\ wake' = IF apc = "parked" /\ wake = "none" /\ c = done THEN "done" ELSE wake
    /\ UNCHANGED <<apc, attempt, loaded, dev, outcome, runErr, stopErr, outside, ready,
                   mainVars, history>>

SupervisorStep(c) ==
    /\ mpc # "exited"
    /\ Sup!WaitReturns(c) \/ Sup!WaitLock(c) \/ Sup!WaitClose(c)
    /\ UNCHANGED <<appVars, outside, ready, mainVars, history>>

CallerStep == Sup!Caller /\ UNCHANGED <<appVars, outside, ready, mainVars, history>>

ChildListens(c) ==
    /\ mpc # "exited"
    /\ Sup!ChildListens(c)
    /\ UNCHANGED <<appVars, outside, ready, mainVars, history>>

CtxKill(c) ==
    /\ mpc # "exited"
    /\ Sup!CtxKill(c)
    /\ UNCHANGED <<appVars, outside, ready, mainVars, history>>
-----------------------------------------------------------------------------
App ==
    \/ AppLoad \/ AppEnsure \/ AppSave \/ AppApply \/ AppWrite \/ AppStart \/ AppStarted
    \/ AppProbe \/ AppStop("stop_probe", "stopping_probe") \/ AppStoppedProbe \/ AppCleanupProbe
    \/ AppSetReady \/ AppSelect \/ AppWakes \/ AppSetUnready
    \/ AppStop("stop", "stopping") \/ AppStopped \/ AppCleanup

Main == MainSelect \/ MainWaitApp \/ MainShutdown

Exited == mpc = "exited" /\ UNCHANGED vars

Next ==
    \/ App \/ Main \/ ServerFails \/ ServerCancels \/ Signal \/ TunnelChanges \/ CallerStep
    \/ \E c \in Cmds : ChildListens(c) \/ ChildExits(c) \/ CtxKill(c) \/ WaitSend(c) \/ SupervisorStep(c)
    \/ Exited

Spec == Init /\ [][Next]_vars

(* Every goroutine that can run does, os/exec delivers its kill; the fallible
   calls (API, commands, probe) are bounded by their timeouts and return. *)
Fairness ==
    /\ WF_vars(App) /\ WF_vars(Main) /\ WF_vars(ServerCancels) /\ WF_vars(CallerStep)
    /\ \A c \in Cmds : WF_vars(CtxKill(c)) /\ WF_vars(WaitSend(c) \/ SupervisorStep(c))

FairSpec == Spec /\ Fairness
-----------------------------------------------------------------------------
(* While /readyz answers ready, the tunnel installed is the one of the device
   in use, and that device is the one a restart would load from state.json:
   also after a retry with a fresh registration. *)
ReadyConsistent == ready => dev # "none" /\ net = dev /\ disk = dev

(* When the process exits no child is left behind, whichever step of either
   attempt failed or was interrupted (as long as signals can be sent). *)
ExitLeavesNoChild == mpc = "exited" => \A c \in Cmds : proc[c] \notin Sup!Unreaped

(* App.Run returns with something of the tunnel still installed only if a
   Cleanup that was called failed, or if the last runStartedRuntime returned
   from one of the three places that do not call it: a failed Apply, a failed
   write of the proxy config, a failed Start.  Where none has returned yet,
   because a step before the first Apply failed, it is what an earlier process
   left.  A run that ended, well or not, after Start leaves nothing. *)
LeftoverExplained ==
    apc = "returned" /\ net \notin {"clean", "left"} =>
        outcome \in {"none", "apply", "write", "start"}

(* A signal that finds the app waiting in its select, with nothing else going
   wrong, ends in exit code 0: the kill by os/exec, the SIGTERM of Stop and the
   wait goroutine may come in any order.  The one exception is a child that
   exits with code 0 and is signalled by os/exec before it is reaped. *)
ParkedShutdownClean ==
    mpc = "exited" /\ graceful = "parked" /\ fault = {} =>
        exit = "nil" \/ \E c \in Cmds : status[c] = "ctx"

(* After a signal the process exits, whatever it was doing. *)
SignalTerminates == sig ~> mpc = "exited"

(* When the proxy process has died, /readyz stops answering ready. *)
ChildDeathNoticed ==
    (ready /\ done # NoCmd /\ proc[done] \notin {"running", "listening"}) ~> ~ready

(* What the tests of runWithEnv and App.Run expect: once the service is ready,
   cancelling the context ends it without an error. *)
CleanShutdown == mpc = "exited" /\ graceful # "no" /\ fault = {} => exit = "nil"
=============================================================================
