------------------------------ MODULE Supervisor ------------------------------
(***************************************************************************)
(* SOCKS5Supervisor (internal/process/socks5_supervisor.go): one object    *)
(* that starts, watches and stops the child process `warp-socksd           *)
(* serve-socks5`.                                                          *)
(*                                                                         *)
(* The threads that meet here:                                             *)
(*  - the caller, the one goroutine that calls Start, Stop and Done;       *)
(*  - one wait goroutine per child, blocked in cmd.Wait;                   *)
(*  - the goroutine of os/exec that kills the child once the context is    *)
(*    done (exec.CommandContext);                                          *)
(*  - the child process itself.                                            *)
(* They share the mutex s.mu, the fields cmd, done and stopped, and the    *)
(* one-element channel that Start makes for each child.                    *)
(***************************************************************************)
EXTENDS FiniteSets

CONSTANTS
    Cmds,           \* the *exec.Cmd values Start may create: bounds the number of starts
    NoCmd,          \* the nil pointer
    ExecCanFail,    \* cmd.Start may fail although the context is live (missing binary, fork limit)
    SignalCanFail   \* Process.Signal and Kill may fail with something else than ErrProcessDone

ASSUME CmdsAssumption == NoCmd \notin Cmds
ASSUME FaultAssumption == ExecCanFail \in BOOLEAN /\ SignalCanFail \in BOOLEAN

VARIABLES
    ctxDone,    \* the context passed to Start is cancelled
    mu,         \* "free" or "held": s.mu
    cmd,        \* s.cmd
    done,       \* s.done, named by the command it was made for
    stopped,    \* s.stopped
    chan,       \* chan[c]: the value buffered in the channel of c, or "empty"
    closed,     \* the channels that are closed
    proc,       \* proc[c]: the life of the process behind c
    status,     \* status[c]: what cmd.Wait will return, or returned, for c
    waiter,     \* waiter[c]: where the wait goroutine of c is
    report,     \* report[c]: the value the wait goroutine of c computed
    call,       \* where the caller is inside Start or Stop, "idle" outside
    op,         \* the method called last
    ret,        \* what it returned
    local,      \* the command the caller works on: `done` in Start, `cmd` and `done` in Stop
    aborting,   \* this Stop was called by Start, which then returns an error
    stopReq     \* history: the commands that some Stop found running

calls == <<call, op, ret, local, aborting>>
child == <<proc, status>>
goroutines == <<waiter, report>>
fields == <<mu, cmd, done, stopped>>
channels == <<chan, closed>>
vars == <<ctxDone, fields, channels, child, goroutines, calls, stopReq>>

(***************************************************************************)
(* A wait status is nil ("nil"), an *exec.ExitError ("exit": a non-zero    *)
(* exit code or death by a signal) or the context's error ("ctx": the      *)
(* child exited with code 0 but os/exec had signalled it first).           *)
(***************************************************************************)
Errors == {"nil", "exit", "ctx"}
Unreaped == {"running", "listening", "zombie"}
Alive(c) == proc[c] \in {"running", "listening"}

(* Mutation: the exit of a stopped process counts as an error too. *)
normalizeWaitErrorStrict(err, wasStopped) == err

(* normalizeWaitError: an ExitError of a process we stopped is no error. *)
normalizeWaitError(err, wasStopped) ==
    IF wasStopped /\ err = "exit" THEN "nil" ELSE err

Readable(c) == chan[c] # "empty" \/ c \in closed
Received(c) == IF chan[c] # "empty" THEN chan[c] ELSE "nil"
Receive(c) == chan' = [chan EXCEPT ![c] = "empty"]

(* Done() returns a closed channel while there is none. *)
DoneReady == done = NoCmd \/ Readable(done)
DoneValue == IF done = NoCmd THEN "nil" ELSE Received(done)

(* The steps of Start and Stop that use their local `cmd` or `done`. *)
Dereferences == {"start_ready", "stop_signal", "stop_wait", "stop_kill", "stop_drain"}

(* Every field, channel and program counter has its type, and the local cmd and
   done of Start and Stop are not nil where they are dereferenced. *)
TypeOK ==
    /\ ctxDone \in BOOLEAN
    /\ mu \in {"free", "held"}
    /\ cmd \in Cmds \cup {NoCmd}
    /\ done \in Cmds \cup {NoCmd}
    /\ stopped \in BOOLEAN
    /\ chan \in [Cmds -> Errors \cup {"empty"}]
    /\ closed \in SUBSET Cmds
    /\ proc \in [Cmds -> Unreaped \cup {"unborn", "reaped"}]
    /\ status \in [Cmds -> Errors]
    /\ waiter \in [Cmds -> {"none", "wait", "lock", "send", "close", "end"}]
    /\ report \in [Cmds -> Errors]
    /\ call \in Dereferences \cup {"idle", "start_load", "start_lock", "start_exec", "stop_lock"}
    /\ op \in {"none", "start", "stop"}
    /\ ret \in {"none", "ok", "err"}
    /\ local \in Cmds \cup {NoCmd}
    /\ call \in Dereferences => local \in Cmds
    /\ aborting \in BOOLEAN
    /\ stopReq \in SUBSET Cmds

Init ==
    /\ ctxDone = FALSE
    /\ mu = "free"
    /\ cmd = NoCmd
    /\ done = NoCmd
    /\ stopped = FALSE
    /\ chan = [c \in Cmds |-> "empty"]
    /\ closed = {}
    /\ proc = [c \in Cmds |-> "unborn"]
    /\ status = [c \in Cmds |-> "nil"]
    /\ waiter = [c \in Cmds |-> "none"]
    /\ report = [c \in Cmds |-> "nil"]
    /\ call = "idle"
    /\ op = "none"
    /\ ret = "none"
    /\ local = NoCmd
    /\ aborting = FALSE
    /\ stopReq = {}

(* The current method returns v; a Stop called by Start turns into Start's error. *)
Return(v) ==
    /\ call' = "idle"
    /\ ret' = IF aborting THEN "err" ELSE v
    /\ aborting' = FALSE
    /\ UNCHANGED <<op, local>>

Goto(step) ==
    /\ call' = step
    /\ UNCHANGED <<op, ret, local, aborting>>
-----------------------------------------------------------------------------
(* Start *)

CallStart ==
    /\ call = "idle"
    /\ \E c \in Cmds : proc[c] = "unborn"
    /\ call' = "start_load"
    /\ op' = "start"
    /\ ret' = "none"
    /\ UNCHANGED <<ctxDone, fields, channels, child, goroutines, local, aborting, stopReq>>

(* The checks before the lock: a missing path, or a config that cannot be read. *)
StartLoad ==
    /\ call = "start_load"
    /\ Goto("start_lock") \/ Return("err")
    /\ UNCHANGED <<ctxDone, fields, channels, child, goroutines, stopReq>>

StartLock ==
    /\ call = "start_lock"
    /\ mu = "free"
    /\ mu' = "held"
    /\ Goto("start_exec")
    /\ UNCHANGED <<ctxDone, cmd, done, stopped, channels, child, goroutines, stopReq>>

StartAlreadyRunning ==
    /\ call = "start_exec"
    /\ cmd # NoCmd
    /\ mu' = "free"
    /\ Return("err")
    /\ UNCHANGED <<ctxDone, cmd, done, stopped, channels, child, goroutines, stopReq>>

(* cmd.Start fails: with a done context it always does.  The method returns
   with s.mu still locked. *)
StartExecFails ==
    /\ call = "start_exec"
    /\ cmd = NoCmd
    /\ ExecCanFail \/ ctxDone
    /\ Return("err")
    /\ UNCHANGED <<ctxDone, fields, channels, child, goroutines, stopReq>>

(* Mutation: the test of s.cmd is dropped. *)
StartExecUnchecked(c) ==
    /\ call = "start_exec"
    /\ ~ctxDone
    /\ proc[c] = "unborn"
    /\ proc' = [proc EXCEPT ![c] = "running"]
    /\ waiter' = [waiter EXCEPT ![c] = "wait"]
    /\ cmd' = c
    /\ done' = c
    /\ stopped' = FALSE
    /\ mu' = "free"
    /\ call' = "start_ready"
    /\ local' = c
    /\ UNCHANGED <<ctxDone, channels, status, report, op, ret, aborting, stopReq>>

(* Mutation: s.stopped keeps the value the previous Stop gave it. *)
StartExecStaleStopped(c) ==
    /\ call = "start_exec"
    /\ cmd = NoCmd
    /\ ~ctxDone
    /\ proc[c] = "unborn"
    /\ proc' = [proc EXCEPT ![c] = "running"]
    /\ waiter' = [waiter EXCEPT ![c] = "wait"]
    /\ cmd' = c
    /\ done' = c
    /\ mu' = "free"
    /\ call' = "start_ready"
    /\ local' = c
    /\ UNCHANGED <<ctxDone, stopped, channels, status, report, op, ret, aborting, stopReq>>

(* cmd.Start succeeds: the fields are set, the lock is released and the wait
   goroutine is spawned. *)
StartExec(c) ==
    /\ call = "start_exec"
    /\ cmd = NoCmd
    /\ ~ctxDone
    /\ proc[c] = "unborn"
    /\ proc' = [proc EXCEPT ![c] = "running"]
    /\ waiter' = [waiter EXCEPT ![c] = "wait"]
    /\ cmd' = c
    /\ done' = c
    /\ stopped' = FALSE
    /\ mu' = "free"
    /\ call' = "start_ready"
    /\ local' = c
    /\ UNCHANGED <<ctxDone, channels, status, report, op, ret, aborting, stopReq>>

(* waitForTCPReady: the dial reaches whichever process listens on the port. *)
SomeoneListens == \E c \in Cmds : proc[c] = "listening"

ReadyDialed ==
    /\ call = "start_ready"
    /\ SomeoneListens
    /\ ~ctxDone
    /\ Return("ok")
    /\ UNCHANGED <<ctxDone, fields, channels, child, goroutines, stopReq>>

Abort ==
    /\ call' = "stop_lock"
    /\ aborting' = TRUE
    /\ UNCHANGED <<op, ret, local>>

(* The child's exit is received from its channel, which empties it. *)
ReadyExited ==
    /\ call = "start_ready"
    /\ Readable(local)
    /\ Receive(local)
    /\ Abort
    /\ UNCHANGED <<ctxDone, fields, closed, child, goroutines, stopReq>>

ReadyCancelled ==
    /\ call = "start_ready"
    /\ ctxDone
    /\ Abort
    /\ UNCHANGED <<ctxDone, fields, channels, child, goroutines, stopReq>>

(* The 5 s deadline passes after a dial that failed; what happens between that
   dial and the comparison with the clock is not looked at any more. *)
ReadyTimeout ==
    /\ call = "start_ready"
    /\ Abort
    /\ UNCHANGED <<ctxDone, fields, channels, child, goroutines, stopReq>>
-----------------------------------------------------------------------------
(* Stop *)

CallStop ==
    /\ call = "idle"
    /\ call' = "stop_lock"
    /\ op' = "stop"
    /\ ret' = "none"
    /\ UNCHANGED <<ctxDone, fields, channels, child, goroutines, local, aborting, stopReq>>

(* The fields are read and stopped is set under the lock; with no command
   there is nothing to stop. *)
StopLock ==
    /\ call = "stop_lock"
    /\ mu = "free"
    /\ stopped' = TRUE
    /\ IF cmd = NoCmd
       THEN Return("ok") /\ UNCHANGED stopReq
       ELSE /\ call' = "stop_signal"
            /\ local' = cmd
            /\ stopReq' = stopReq \cup {cmd}
            /\ UNCHANGED <<op, ret, aborting>>
    /\ UNCHANGED <<ctxDone, mu, cmd, done, channels, child, goroutines>>

(* SIGTERM: a process that is gone (ErrProcessDone) is not an error. *)
StopSignal ==
    /\ call = "stop_signal"
    /\ \/ Goto("stop_wait")
       \/ SignalCanFail /\ proc[local] # "reaped" /\ Return("err")
    /\ UNCHANGED <<ctxDone, fields, channels, child, goroutines, stopReq>>

(* The result Stop derives from what it received: normalizeWaitError(err, true). *)
StopResult == IF normalizeWaitError(Received(local), TRUE) = "nil" THEN "ok" ELSE "err"

StopReceive ==
    /\ call \in {"stop_wait", "stop_drain"}
    /\ Readable(local)
    /\ Receive(local)
    /\ Return(StopResult)
    /\ UNCHANGED <<ctxDone, fields, closed, child, goroutines, stopReq>>

(* Mutation: after the grace period Stop gives up instead of killing. *)
StopGivesUp ==
    /\ call = "stop_wait"
    /\ Return("ok")
    /\ UNCHANGED <<ctxDone, fields, channels, child, goroutines, stopReq>>

(* The 3 s grace period ends first. *)
StopTimeout ==
    /\ call = "stop_wait"
    /\ Goto("stop_kill")
    /\ UNCHANGED <<ctxDone, fields, channels, child, goroutines, stopReq>>

(* SIGKILL, with the same tolerance as SIGTERM. *)
StopKill ==
    /\ call = "stop_kill"
    /\ \/ /\ Alive(local)
          /\ proc' = [proc EXCEPT ![local] = "zombie"]
          /\ status' = [status EXCEPT ![local] = "exit"]
          /\ Goto("stop_drain")
       \/ ~Alive(local) /\ Goto("stop_drain") /\ UNCHANGED child
       \/ SignalCanFail /\ proc[local] # "reaped" /\ Return("err") /\ UNCHANGED child
    /\ UNCHANGED <<ctxDone, fields, channels, goroutines, stopReq>>
-----------------------------------------------------------------------------
(* The wait goroutine of c *)

(* cmd.Wait returns: the process is reaped. *)
WaitReturns(c) ==
    /\ waiter[c] = "wait"
    /\ proc[c] = "zombie"
    /\ proc' = [proc EXCEPT ![c] = "reaped"]
    /\ waiter' = [waiter EXCEPT ![c] = "lock"]
    /\ UNCHANGED <<ctxDone, fields, channels, status, report, calls, stopReq>>

(* Mutation: the goroutine of a stopped child ends without reporting. *)
WaitLockSilent(c) ==
    /\ waiter[c] = "lock"
    /\ mu = "free"
    /\ cmd' = IF cmd = c THEN NoCmd ELSE cmd
    /\ report' = [report EXCEPT ![c] = normalizeWaitError(status[c], stopped)]
    /\ waiter' = [waiter EXCEPT ![c] = IF stopped THEN "end" ELSE "send"]
    /\ UNCHANGED <<ctxDone, mu, done, stopped, channels, child, calls, stopReq>>

(* The critical section: read stopped, clear s.cmd if it is still this command. *)
WaitLock(c) ==
    /\ waiter[c] = "lock"
    /\ mu = "free"
    /\ cmd' = IF cmd = c THEN NoCmd ELSE cmd
    /\ report' = [report EXCEPT ![c] = normalizeWaitError(status[c], stopped)]
    /\ waiter' = [waiter EXCEPT ![c] = "send"]
    /\ UNCHANGED <<ctxDone, mu, done, stopped, channels, child, calls, stopReq>>

(* The only send on this one-element channel: it never blocks. *)
WaitSend(c) ==
    /\ waiter[c] = "send"
    /\ chan[c] = "empty"
    /\ chan' = [chan EXCEPT ![c] = report[c]]
    /\ waiter' = [waiter EXCEPT ![c] = "close"]
    /\ UNCHANGED <<ctxDone, fields, closed, child, report, calls, stopReq>>

WaitClose(c) ==
    /\ waiter[c] = "close"
    /\ closed' = closed \cup {c}
    /\ waiter' = [waiter EXCEPT ![c] = "end"]
    /\ UNCHANGED <<ctxDone, fields, chan, child, report, calls, stopReq>>
-----------------------------------------------------------------------------
(* The child process, os/exec and the context: outside src/internal/process *)

Cancel ==
    /\ ~ctxDone
    /\ ctxDone' = TRUE
    /\ UNCHANGED <<fields, channels, child, goroutines, calls, stopReq>>

ChildListens(c) ==
    /\ proc[c] = "running"
    /\ proc' = [proc EXCEPT ![c] = "listening"]
    /\ UNCHANGED <<ctxDone, fields, channels, status, goroutines, calls, stopReq>>

(* The child ends by itself: with code 0 after a signal it handles, otherwise
   with an error (the port is taken, a panic). *)
ChildExits(c) ==
    /\ Alive(c)
    /\ proc' = [proc EXCEPT ![c] = "zombie"]
    /\ \E s \in {"nil", "exit"} : status' = [status EXCEPT ![c] = s]
    /\ UNCHANGED <<ctxDone, fields, channels, goroutines, calls, stopReq>>

(* os/exec kills the child when the context is done.  A kill that reaches a
   child which has already exited with code 0 turns its status into the
   context's error, as long as it is not reaped. *)
CtxKill(c) ==
    /\ ctxDone
    /\ \/ /\ Alive(c)
          /\ proc' = [proc EXCEPT ![c] = "zombie"]
          /\ status' = [status EXCEPT ![c] = "exit"]
       \/ /\ proc[c] = "zombie" /\ status[c] = "nil"
          /\ status' = [status EXCEPT ![c] = "ctx"]
          /\ UNCHANGED proc
    /\ UNCHANGED <<ctxDone, fields, channels, goroutines, calls, stopReq>>

(* Between two calls the caller may receive from Done(). *)
RecvDone ==
    /\ call = "idle"
    /\ mu = "free"
    /\ done # NoCmd
    /\ Readable(done)
    /\ Receive(done)
    /\ UNCHANGED <<ctxDone, fields, closed, child, goroutines, calls, stopReq>>
-----------------------------------------------------------------------------
Caller ==
    \/ StartLoad \/ StartLock \/ StartAlreadyRunning \/ StartExecFails
    \/ \E c \in Cmds : StartExec(c)
    \/ ReadyDialed \/ ReadyExited \/ ReadyCancelled \/ ReadyTimeout
    \/ StopLock \/ StopSignal \/ StopReceive \/ StopTimeout \/ StopKill

Waiter(c) == WaitReturns(c) \/ WaitLock(c) \/ WaitSend(c) \/ WaitClose(c)

Environment == Cancel \/ \E c \in Cmds : ChildListens(c) \/ ChildExits(c) \/ CtxKill(c)

Next ==
    \/ CallStart \/ CallStop \/ RecvDone
    \/ Caller
    \/ \E c \in Cmds : Waiter(c)
    \/ Environment

Spec == Init /\ [][Next]_vars

(* Goroutines run, timers fire, os/exec delivers its kill and a killed child
   is reaped.  Nobody owes a call, a cancellation or a spontaneous exit. *)
Fairness ==
    /\ WF_vars(Caller)
    /\ \A c \in Cmds : WF_vars(Waiter(c)) /\ WF_vars(CtxKill(c))

FairSpec == Spec /\ Fairness
-----------------------------------------------------------------------------
(* Every child that is not reaped is the one s.cmd points to: no path of
   Start, Stop or wait loses track of a process, and there is at most one. *)
NoOrphan == \A c \in Cmds : proc[c] \in Unreaped => cmd = c

(* When Stop returns without an error no child is left, not even a zombie:
   the grace period, the kill and the exit of the child may interleave with
   the wait goroutine in any order. *)
StopLeavesNoChild ==
    (call = "idle" /\ op = "stop" /\ ret = "ok") =>
        \A c \in Cmds : proc[c] \notin Unreaped

(* A child that dies by itself is reported as an error: the report is nil only
   for exit code 0 or for a child that some Stop found running.  A stopped flag
   left over from an earlier run would break this. *)
CrashReported ==
    \A c \in Cmds :
        waiter[c] \in {"send", "close", "end"} /\ report[c] = "nil" =>
            status[c] = "nil" \/ c \in stopReq

(* Every call of Start or Stop returns, provided the mutex is never held
   forever: the exit of the child, the timers and the cancellation cannot
   leave the caller waiting. *)
CallReturns == []<>(mu = "free") => (call # "idle" ~> call = "idle")
=============================================================================
