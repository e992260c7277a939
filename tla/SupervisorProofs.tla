--------------------------- MODULE SupervisorProofs ---------------------------
(***************************************************************************)
(* Proofs about the supervisor, for any number of starts and with every    *)
(* fault enabled.                                                          *)
(***************************************************************************)
EXTENDS Supervisor, TLAPS

LEMMA ReceivedType ==
    ASSUME TypeOK, NEW c \in Cmds
    PROVE  normalizeWaitError(status[c], stopped) \in Errors
BY DEF TypeOK, normalizeWaitError, Errors

LEMMA InitType == Init => TypeOK
<1> SUFFICES ASSUME Init PROVE TypeOK
  OBVIOUS
<1>1. ctxDone \in BOOLEAN /\ stopped \in BOOLEAN /\ aborting \in BOOLEAN
  BY Zenon DEF Init
<1>2. QED
  BY <1>1, SMT DEF Init, TypeOK, Errors, Unreaped, Dereferences

(* A return leaves the caller outside Start and Stop, with a result. *)
LEMMA ReturnType ==
    ASSUME TypeOK, NEW v \in {"ok", "err"}, Return(v)
    PROVE  call' = "idle" /\ op' = op /\ local' = local /\ aborting' \in BOOLEAN
           /\ ret' \in {"ok", "err"}
<1>1. call' = "idle" /\ op' = op /\ local' = local /\ aborting' \in BOOLEAN
  BY Zenon DEF Return
<1>2. ret' \in {"ok", "err"}
  BY Zenon DEF Return
<1>3. QED
  BY <1>1, <1>2

(* Steps of Start and Stop. *)
LEMMA CallerType ==
    ASSUME TypeOK, CallStart \/ CallStop \/ Caller
    PROVE  TypeOK'
<1> USE DEF TypeOK, calls, child, goroutines, fields, channels, Errors, Unreaped, Dereferences
<1>1. CASE CallStart
  BY <1>1 DEF CallStart
<1>2. CASE CallStop
  BY <1>2 DEF CallStop
<1>3. CASE StartLoad
  <2>1. CASE Goto("start_lock")
    BY <1>3, <2>1 DEF StartLoad, Goto
  <2>2. CASE Return("err")
    BY <1>3, <2>2, ReturnType DEF StartLoad
  <2>3. QED
    BY <1>3, <2>1, <2>2 DEF StartLoad
<1>4. CASE StartLock
  BY <1>4 DEF StartLock, Goto
<1>5. CASE StartAlreadyRunning
  BY <1>5, ReturnType DEF StartAlreadyRunning
<1>6. CASE StartExecFails
  BY <1>6, ReturnType DEF StartExecFails
<1>7. ASSUME NEW c \in Cmds, StartExec(c) PROVE TypeOK'
  BY <1>7 DEF StartExec
<1>8. CASE ReadyDialed
  BY <1>8, ReturnType DEF ReadyDialed
<1>9. CASE ReadyExited
  BY <1>9 DEF ReadyExited, Abort, Receive
<1>10. CASE ReadyCancelled
  BY <1>10 DEF ReadyCancelled, Abort
<1>11. CASE ReadyTimeout
  BY <1>11 DEF ReadyTimeout, Abort
<1>12. CASE StopLock
  <2>1. CASE cmd = NoCmd
    BY <1>12, <2>1, ReturnType DEF StopLock
  <2>2. CASE cmd # NoCmd
    BY <1>12, <2>2 DEF StopLock
  <2>3. QED
    BY <2>1, <2>2
<1>13. CASE StopSignal
  <2>1. CASE Goto("stop_wait")
    BY <1>13, <2>1 DEF StopSignal, Goto
  <2>2. CASE Return("err")
    BY <1>13, <2>2, ReturnType DEF StopSignal
  <2>3. QED
    BY <1>13, <2>1, <2>2 DEF StopSignal
<1>14. CASE StopReceive
  <2>1. StopResult \in {"ok", "err"}
    BY DEF StopResult
  <2>2. QED
    BY <1>14, <2>1, ReturnType DEF StopReceive, Receive
<1>15. CASE StopTimeout
  BY <1>15 DEF StopTimeout, Goto
<1>16. CASE StopKill
  <2>1. UNCHANGED <<ctxDone, mu, cmd, done, stopped, chan, closed, waiter, report, stopReq>>
    BY <1>16 DEF StopKill
  <2>2. proc' \in [Cmds -> Unreaped \cup {"unborn", "reaped"}] /\ status' \in [Cmds -> Errors]
    BY <1>16 DEF StopKill
  <2>3. CASE Goto("stop_drain")
    BY <1>16, <2>1, <2>2, <2>3 DEF StopKill, Goto
  <2>4. CASE Return("err")
    BY <1>16, <2>1, <2>2, <2>4, ReturnType
  <2>5. QED
    BY <1>16, <2>3, <2>4 DEF StopKill
<1>17. QED
  BY <1>1, <1>2, <1>3, <1>4, <1>5, <1>6, <1>7, <1>8, <1>9, <1>10, <1>11, <1>12, <1>13,
     <1>14, <1>15, <1>16 DEF Caller

(* Steps of the wait goroutines, of the child and of os/exec. *)
LEMMA OthersType ==
    ASSUME TypeOK, RecvDone \/ Environment \/ \E c \in Cmds : Waiter(c)
    PROVE  TypeOK'
<1> USE DEF TypeOK, calls, child, goroutines, fields, channels, Errors, Unreaped, Dereferences
<1>1. CASE RecvDone
  BY <1>1 DEF RecvDone, Receive
<1>2. CASE Cancel
  BY <1>2 DEF Cancel
<1>3. ASSUME NEW c \in Cmds, WaitReturns(c) PROVE TypeOK'
  BY <1>3 DEF WaitReturns
<1>4. ASSUME NEW c \in Cmds, WaitLock(c) PROVE TypeOK'
  BY <1>4, ReceivedType DEF WaitLock
<1>5. ASSUME NEW c \in Cmds, WaitSend(c) PROVE TypeOK'
  BY <1>5 DEF WaitSend
<1>6. ASSUME NEW c \in Cmds, WaitClose(c) PROVE TypeOK'
  BY <1>6 DEF WaitClose
<1>7. ASSUME NEW c \in Cmds, ChildListens(c) PROVE TypeOK'
  BY <1>7 DEF ChildListens
<1>8. ASSUME NEW c \in Cmds, ChildExits(c) PROVE TypeOK'
  BY <1>8 DEF ChildExits
<1>9. ASSUME NEW c \in Cmds, CtxKill(c) PROVE TypeOK'
  BY <1>9 DEF CtxKill
<1>10. QED
  BY <1>1, <1>2, <1>3, <1>4, <1>5, <1>6, <1>7, <1>8, <1>9 DEF Environment, Waiter

LEMMA NextType == TypeOK /\ [Next]_vars => TypeOK'
<1> SUFFICES ASSUME TypeOK, [Next]_vars PROVE TypeOK'
  OBVIOUS
<1>1. CASE UNCHANGED vars
  BY <1>1 DEF vars, TypeOK, calls, child, goroutines, fields, channels
<1>2. QED
  BY <1>1, CallerType, OthersType DEF Next

(* Types are kept, and Start and Stop never use a nil command. *)
THEOREM TypeCorrect == Spec => []TypeOK
BY InitType, NextType, PTL DEF Spec
-----------------------------------------------------------------------------
(* The inductive invariant.  It follows a child through its wait goroutine:
   while a process exists its goroutine is in cmd.Wait, ... *)
Waited == \A c \in Cmds : proc[c] \in Unreaped => waiter[c] = "wait"

(* ... later the process is reaped, ... *)
Reaped == \A c \in Cmds : waiter[c] \in {"lock", "send", "close", "end"} => proc[c] = "reaped"

(* ... s.cmd names the command until the goroutine's critical section, ... *)
Tracked == \A c \in Cmds : waiter[c] \in {"wait", "lock"} => cmd = c

(* ... and only after it something can be received from the channel. *)
Reported ==
    \A c \in Cmds : /\ chan[c] # "empty" => waiter[c] \in {"close", "end"}
                    /\ c \in closed => waiter[c] = "end"

(* s.stopped is not left over from an earlier command. *)
StoppedFresh == \A c \in Cmds : stopped /\ waiter[c] \in {"wait", "lock"} => c \in stopReq

Children == Waited /\ Reaped /\ Tracked /\ Reported /\ StoppedFresh /\ CrashReported

(* While a Stop is under way no other command can become the current one. *)
Stopping ==
    call \in {"stop_signal", "stop_wait", "stop_kill", "stop_drain"} => cmd \in {local, NoCmd}

InStart == call \in {"start_load", "start_lock", "start_exec", "start_ready"} => op = "start"

IInv == TypeOK /\ Children /\ Stopping /\ InStart /\ StopLeavesNoChild

LEMMA NoOrphanFollows == Children => NoOrphan
BY DEF Children, Waited, Tracked, NoOrphan

(* What can be received was sent by the goroutine of a reaped child. *)
LEMMA ReadableReaped ==
    ASSUME Children, NEW c \in Cmds, Readable(c)
    PROVE  proc[c] = "reaped"
BY DEF Children, Reported, Reaped, Readable

LEMMA InitInv == Init => IInv
<1> SUFFICES ASSUME Init PROVE IInv
  OBVIOUS
<1>1. TypeOK
  BY InitType
<1>2. Children
  BY DEF Init, Children, Waited, Reaped, Tracked, Reported, StoppedFresh, CrashReported, Unreaped
<1>3. Stopping /\ InStart /\ StopLeavesNoChild
  BY DEF Init, Stopping, InStart, StopLeavesNoChild
<1>4. QED
  BY <1>1, <1>2, <1>3 DEF IInv
-----------------------------------------------------------------------------
(* Children, action by action *)

LEMMA ChildrenUnchanged ==
    ASSUME Children, UNCHANGED <<chan, closed, proc, status, waiter, report, cmd, stopped, stopReq>>
    PROVE  Children'
BY DEF Children, Waited, Reaped, Tracked, Reported, StoppedFresh, CrashReported

(* A receive empties a channel and touches nothing else of the children. *)
LEMMA ChildrenReceive ==
    ASSUME Children, TypeOK, NEW c \in Cmds, Receive(c),
           UNCHANGED <<closed, proc, status, waiter, report, cmd, stopped, stopReq>>
    PROVE  Children'
<1>1. \A d \in Cmds : chan'[d] # "empty" => chan[d] # "empty"
  BY DEF Receive, TypeOK
<1>2. Reported'
  BY <1>1 DEF Children, Reported
<1>3. QED
  BY <1>2 DEF Children, Waited, Reaped, Tracked, StoppedFresh, CrashReported

LEMMA ChildrenStartExec ==
    ASSUME Children, TypeOK, NEW c \in Cmds, StartExec(c)
    PROVE  Children'
<1>1. \A d \in Cmds : waiter[d] \notin {"wait", "lock"}
  BY CmdsAssumption DEF StartExec, Children, Tracked
<1>2. waiter[c] \notin {"send", "close", "end"} /\ chan[c] = "empty" /\ c \notin closed
  BY DEF StartExec, Children, Reaped, Reported
<1>3. waiter' = [waiter EXCEPT ![c] = "wait"] /\ proc' = [proc EXCEPT ![c] = "running"]
  BY DEF StartExec
<1>4. Waited' /\ Reaped'
  BY <1>1, <1>3 DEF TypeOK, Children, Waited, Reaped, Unreaped
<1>5. Tracked' /\ StoppedFresh'
  BY <1>1, <1>3 DEF StartExec, TypeOK, Tracked, StoppedFresh
<1>6. Reported'
  BY <1>2, <1>3 DEF StartExec, channels, TypeOK, Children, Reported
<1>7. CrashReported'
  BY <1>2, <1>3 DEF StartExec, TypeOK, Children, CrashReported
<1>8. QED
  BY <1>4, <1>5, <1>6, <1>7 DEF Children

(* StopLock sets stopped: the only command still tracked joins stopReq. *)
LEMMA ChildrenStopLock ==
    ASSUME Children, TypeOK, StopLock
    PROVE  Children'
<1>1. UNCHANGED <<chan, closed, proc, status, waiter, report, cmd>>
  BY DEF StopLock, channels, child, goroutines
<1>2. stopReq \subseteq stopReq' /\ (cmd # NoCmd => cmd \in stopReq')
  BY DEF StopLock
<1>3. StoppedFresh'
  BY <1>1, <1>2, CmdsAssumption DEF Children, Tracked, StoppedFresh
<1>4. CrashReported'
  BY <1>1, <1>2 DEF Children, CrashReported
<1>5. QED
  BY <1>1, <1>3, <1>4 DEF Children, Waited, Reaped, Tracked, Reported

(* A process that exists changes its stage or its status. *)
LEMMA ChildrenProcess ==
    ASSUME Children, TypeOK, NEW c \in Cmds, NEW p \in Unreaped, proc[c] \in Unreaped,
           proc' = [proc EXCEPT ![c] = p],
           \E e \in Errors : status' = [status EXCEPT ![c] = e],
           UNCHANGED <<chan, closed, waiter, report, cmd, stopped, stopReq>>
    PROVE  Children'
<1>1. waiter[c] = "wait"
  BY DEF Children, Waited
<1>2. Waited' /\ Reaped'
  BY <1>1 DEF TypeOK, Children, Waited, Reaped
<1>3. CrashReported'
  BY <1>1 DEF TypeOK, Children, CrashReported
<1>4. QED
  BY <1>2, <1>3 DEF Children, Tracked, Reported, StoppedFresh

(* cmd.Wait returns: the goroutine leaves "wait" and the process is reaped. *)
LEMMA ChildrenWaitReturns ==
    ASSUME Children, TypeOK, NEW c \in Cmds, WaitReturns(c)
    PROVE  Children'
<1>1. /\ waiter[c] = "wait" /\ proc' = [proc EXCEPT ![c] = "reaped"]
      /\ waiter' = [waiter EXCEPT ![c] = "lock"]
      /\ UNCHANGED <<chan, closed, status, report, cmd, stopped, stopReq>>
  BY DEF WaitReturns, fields, channels
<1>2. Waited' /\ Reaped'
  BY <1>1 DEF TypeOK, Children, Waited, Reaped, Unreaped
<1>3. Tracked' /\ StoppedFresh'
  BY <1>1 DEF TypeOK, Children, Tracked, StoppedFresh
<1>4. Reported'
  BY <1>1 DEF TypeOK, Children, Reported
<1>5. CrashReported'
  BY <1>1 DEF TypeOK, Children, CrashReported
<1>6. QED
  BY <1>2, <1>3, <1>4, <1>5 DEF Children

(* The critical section: the report is nil for a failed child only when
   stopped is set, and then a Stop has found this command. *)
LEMMA ChildrenWaitLock ==
    ASSUME Children, TypeOK, NEW c \in Cmds, WaitLock(c)
    PROVE  Children'
<1>1. /\ waiter[c] = "lock" /\ waiter' = [waiter EXCEPT ![c] = "send"]
      /\ report' = [report EXCEPT ![c] = normalizeWaitError(status[c], stopped)]
      /\ cmd' = IF cmd = c THEN NoCmd ELSE cmd
      /\ UNCHANGED <<chan, closed, proc, status, stopped, stopReq>>
  BY DEF WaitLock, channels, child
<1>2. Waited' /\ Reaped'
  BY <1>1 DEF TypeOK, Children, Waited, Reaped, Unreaped
<1>3. Tracked'
  BY <1>1 DEF TypeOK, Children, Tracked
<1>4. Reported' /\ StoppedFresh'
  BY <1>1 DEF TypeOK, Children, Reported, StoppedFresh
<1>5. normalizeWaitError(status[c], stopped) = "nil" => status[c] = "nil" \/ c \in stopReq
  BY <1>1 DEF normalizeWaitError, Children, StoppedFresh
<1>6. CrashReported'
  BY <1>1, <1>5 DEF TypeOK, Children, CrashReported
<1>7. QED
  BY <1>2, <1>3, <1>4, <1>6 DEF Children

LEMMA ChildrenWaitSend ==
    ASSUME Children, TypeOK, NEW c \in Cmds, WaitSend(c)
    PROVE  Children'
<1>1. /\ waiter[c] = "send" /\ waiter' = [waiter EXCEPT ![c] = "close"]
      /\ chan' = [chan EXCEPT ![c] = report[c]]
      /\ UNCHANGED <<closed, proc, status, report, cmd, stopped, stopReq>>
  BY DEF WaitSend, fields, child
<1>2. Waited' /\ Reaped' /\ Tracked'
  BY <1>1 DEF TypeOK, Children, Waited, Reaped, Tracked, Unreaped
<1>3. Reported' /\ StoppedFresh'
  BY <1>1 DEF TypeOK, Children, Reported, StoppedFresh
<1>4. CrashReported'
  BY <1>1 DEF TypeOK, Children, CrashReported
<1>5. QED
  BY <1>2, <1>3, <1>4 DEF Children

LEMMA ChildrenWaitClose ==
    ASSUME Children, TypeOK, NEW c \in Cmds, WaitClose(c)
    PROVE  Children'
<1>1. /\ waiter[c] = "close" /\ waiter' = [waiter EXCEPT ![c] = "end"]
      /\ closed' = closed \cup {c}
      /\ UNCHANGED <<chan, proc, status, report, cmd, stopped, stopReq>>
  BY DEF WaitClose, fields, child
<1>2. Waited' /\ Reaped' /\ Tracked'
  BY <1>1 DEF TypeOK, Children, Waited, Reaped, Tracked, Unreaped
<1>3. Reported' /\ StoppedFresh'
  BY <1>1 DEF TypeOK, Children, Reported, StoppedFresh
<1>4. CrashReported'
  BY <1>1 DEF TypeOK, Children, CrashReported
<1>5. QED
  BY <1>2, <1>3, <1>4 DEF Children

LEMMA ChildrenStopKill ==
    ASSUME Children, TypeOK, StopKill
    PROVE  Children'
<1>1. UNCHANGED <<chan, closed, waiter, report, cmd, stopped, stopReq>>
  BY DEF StopKill, fields, channels, goroutines
<1>2. CASE UNCHANGED child
  BY <1>1, <1>2, ChildrenUnchanged DEF child
<1>3. CASE /\ Alive(local)
           /\ proc' = [proc EXCEPT ![local] = "zombie"]
           /\ status' = [status EXCEPT ![local] = "exit"]
  <2>1. local \in Cmds /\ proc[local] \in Unreaped
    BY <1>3 DEF StopKill, TypeOK, Dereferences, Alive, Unreaped
  <2>2. "zombie" \in Unreaped /\ "exit" \in Errors
    BY DEF Unreaped, Errors
  <2>3. QED
    BY <1>1, <1>3, <2>1, <2>2, ChildrenProcess
<1>4. QED
  BY <1>2, <1>3 DEF StopKill

LEMMA ChildrenEnvironment ==
    ASSUME Children, TypeOK, Environment
    PROVE  Children'
<1> USE DEF fields, channels, goroutines
<1>1. "zombie" \in Unreaped /\ "listening" \in Unreaped /\ Errors = {"nil", "exit", "ctx"}
  BY DEF Unreaped, Errors
<1>2. CASE Cancel
  BY <1>2, ChildrenUnchanged DEF Cancel, child
<1>3. ASSUME NEW c \in Cmds, ChildListens(c) PROVE Children'
  <2>1. proc[c] \in Unreaped /\ status[c] \in Errors /\ status' = [status EXCEPT ![c] = status[c]]
    BY <1>3 DEF ChildListens, Unreaped, TypeOK
  <2>2. QED
    BY <1>1, <1>3, <2>1, ChildrenProcess DEF ChildListens
<1>4. ASSUME NEW c \in Cmds, ChildExits(c) PROVE Children'
  <2>1. proc[c] \in Unreaped
    BY <1>4 DEF ChildExits, Alive, Unreaped
  <2>2. QED
    BY <1>1, <1>4, <2>1, ChildrenProcess DEF ChildExits
<1>5. ASSUME NEW c \in Cmds, CtxKill(c) PROVE Children'
  <2>1. proc[c] \in Unreaped /\ proc' = [proc EXCEPT ![c] = "zombie"]
    BY <1>5 DEF CtxKill, Alive, Unreaped, TypeOK
  <2>2. QED
    BY <1>1, <1>5, <2>1, ChildrenProcess DEF CtxKill
<1>6. QED
  BY <1>2, <1>3, <1>4, <1>5 DEF Environment
-----------------------------------------------------------------------------
(* Every step keeps the invariant *)

LEMMA NextChildren ==
    ASSUME IInv, Next
    PROVE  Children'
<1> USE DEF IInv
<1>1. CASE CallStart \/ CallStop \/ StartLoad \/ StartLock \/ StartAlreadyRunning \/ StartExecFails
  BY <1>1, ChildrenUnchanged DEF CallStart, CallStop, StartLoad, StartLock, StartAlreadyRunning,
     StartExecFails, fields, channels, child, goroutines
<1>2. CASE ReadyDialed \/ ReadyCancelled \/ ReadyTimeout \/ StopSignal \/ StopTimeout
  BY <1>2, ChildrenUnchanged DEF ReadyDialed, ReadyCancelled, ReadyTimeout, StopSignal,
     StopTimeout, fields, channels, child, goroutines
<1>3. CASE ReadyExited \/ StopReceive
  <2>1. local \in Cmds
    BY <1>3 DEF ReadyExited, StopReceive, TypeOK, Dereferences
  <2>2. QED
    BY <1>3, <2>1, ChildrenReceive DEF ReadyExited, StopReceive, fields, child, goroutines
<1>4. CASE RecvDone
  <2>1. done \in Cmds
    BY <1>4 DEF RecvDone, TypeOK
  <2>2. QED
    BY <1>4, <2>1, ChildrenReceive DEF RecvDone, fields, child, goroutines
<1>5. CASE \E c \in Cmds : StartExec(c)
  BY <1>5, ChildrenStartExec
<1>6. CASE StopLock \/ StopKill
  BY <1>6, ChildrenStopLock, ChildrenStopKill
<1>7. CASE \E c \in Cmds : Waiter(c)
  BY <1>7, ChildrenWaitReturns, ChildrenWaitLock, ChildrenWaitSend, ChildrenWaitClose DEF Waiter
<1>8. CASE Environment
  BY <1>8, ChildrenEnvironment
<1>9. QED
  BY <1>1, <1>2, <1>3, <1>4, <1>5, <1>6, <1>7, <1>8 DEF Next, Caller

(* Only StopLock enters the steps of Stop, with local = cmd; afterwards s.cmd
   changes only to nil. *)
LEMMA NextStopping ==
    ASSUME IInv, Next
    PROVE  Stopping' /\ InStart'
<1> USE DEF IInv, Stopping, InStart, fields, calls
<1>1. CASE CallStart \/ CallStop \/ StartLoad \/ StartLock \/ StartAlreadyRunning \/ StartExecFails
  BY <1>1 DEF CallStart, CallStop, StartLoad, StartLock, StartAlreadyRunning, StartExecFails,
     Goto, Return
<1>2. CASE ReadyDialed \/ ReadyCancelled \/ ReadyTimeout \/ ReadyExited
  BY <1>2 DEF ReadyDialed, ReadyCancelled, ReadyTimeout, ReadyExited, Return, Abort
<1>3. CASE \E c \in Cmds : StartExec(c)
  BY <1>3 DEF StartExec
<1>4. CASE StopLock
  BY <1>4 DEF StopLock, Return
<1>5. CASE StopSignal \/ StopReceive \/ StopTimeout
  BY <1>5 DEF StopSignal, StopReceive, StopTimeout, Goto, Return
<1>6. CASE StopKill
  BY <1>6 DEF StopKill, Goto, Return
<1>7. CASE RecvDone \/ Environment
  BY <1>7 DEF RecvDone, Environment, Cancel, ChildListens, ChildExits, CtxKill
<1>8. CASE \E c \in Cmds : Waiter(c)
  BY <1>8 DEF Waiter, WaitReturns, WaitLock, WaitSend, WaitClose
<1>9. QED
  BY <1>1, <1>2, <1>3, <1>4, <1>5, <1>6, <1>7, <1>8 DEF Next, Caller

(* Stop returns without an error in two ways: there was no command, or the
   command's own exit was received. *)
LEMMA NextStopLeaves ==
    ASSUME IInv, Next
    PROVE  StopLeavesNoChild'
<1> USE DEF IInv, StopLeavesNoChild
<1>1. CASE CallStart \/ CallStop \/ StartLoad \/ StartLock \/ StartAlreadyRunning \/ StartExecFails
  BY <1>1 DEF CallStart, CallStop, StartLoad, StartLock, StartAlreadyRunning, StartExecFails,
     Goto, Return, InStart
<1>2. CASE ReadyDialed \/ ReadyCancelled \/ ReadyTimeout \/ ReadyExited
  BY <1>2 DEF ReadyDialed, ReadyCancelled, ReadyTimeout, ReadyExited, Return, Abort, InStart
<1>3. CASE \E c \in Cmds : StartExec(c)
  BY <1>3 DEF StartExec
<1>4. CASE StopLock
  <2>1. CASE cmd = NoCmd
    <3>1. \A c \in Cmds : proc[c] \notin Unreaped
      BY <2>1, NoOrphanFollows, CmdsAssumption DEF NoOrphan
    <3>2. QED
      BY <1>4, <3>1 DEF StopLock, child
  <2>2. CASE cmd # NoCmd
    BY <1>4, <2>2 DEF StopLock
  <2>3. QED
    BY <2>1, <2>2
<1>5. CASE StopReceive
  <2>1. local \in Cmds /\ cmd \in {local, NoCmd}
    BY <1>5 DEF StopReceive, TypeOK, Dereferences, Stopping
  <2>2. proc[local] = "reaped"
    BY <1>5, <2>1, ReadableReaped DEF StopReceive
  <2>3. \A c \in Cmds : proc[c] \notin Unreaped
    BY <2>1, <2>2, NoOrphanFollows, CmdsAssumption DEF NoOrphan, Unreaped
  <2>4. QED
    BY <1>5, <2>3 DEF StopReceive, child
<1>6. CASE StopSignal \/ StopTimeout
  BY <1>6 DEF StopSignal, StopTimeout, Goto, Return
<1>7. CASE StopKill
  BY <1>7 DEF StopKill, Goto, Return
<1>8. CASE RecvDone \/ Cancel
  BY <1>8 DEF RecvDone, Cancel, child, calls
<1>9. ASSUME NEW c \in Cmds, ChildListens(c) \/ ChildExits(c) \/ CtxKill(c)
      PROVE  StopLeavesNoChild'
  BY <1>9 DEF ChildListens, ChildExits, CtxKill, Alive, Unreaped, TypeOK, calls
<1>10. ASSUME NEW c \in Cmds, Waiter(c) PROVE StopLeavesNoChild'
  BY <1>10 DEF Waiter, WaitReturns, WaitLock, WaitSend, WaitClose, child, calls, Unreaped, TypeOK
<1>11. QED
  BY <1>1, <1>2, <1>3, <1>4, <1>5, <1>6, <1>7, <1>8, <1>9, <1>10 DEF Next, Caller, Environment

LEMMA StutterInv ==
    ASSUME IInv, UNCHANGED vars
    PROVE  IInv'
<1> USE DEF vars, fields, channels, child, goroutines, calls, IInv
<1>1. Children'
  BY ChildrenUnchanged
<1>2. Stopping' /\ InStart' /\ StopLeavesNoChild'
  BY DEF Stopping, InStart, StopLeavesNoChild
<1>3. QED
  BY <1>1, <1>2, NextType

LEMMA NextInv == IInv /\ [Next]_vars => IInv'
<1> SUFFICES ASSUME IInv, [Next]_vars PROVE IInv'
  OBVIOUS
<1>1. CASE Next
  BY <1>1, NextType, NextChildren, NextStopping, NextStopLeaves DEF IInv
<1>2. CASE UNCHANGED vars
  BY <1>2, StutterInv
<1>3. QED
  BY <1>1, <1>2

(* The inductive invariant holds in every reachable state. *)
THEOREM Inductive == Spec => []IInv
BY InitInv, NextInv, PTL DEF Spec

(* No path of Start, Stop or wait loses track of a process. *)
THEOREM NoOrphanCorrect == Spec => []NoOrphan
<1>1. IInv => NoOrphan
  BY NoOrphanFollows DEF IInv
<1>2. QED
  BY <1>1, Inductive, PTL

(* A Stop that returns without an error leaves no child behind. *)
THEOREM StopCorrect == Spec => []StopLeavesNoChild
<1>1. IInv => StopLeavesNoChild
  BY DEF IInv
<1>2. QED
  BY <1>1, Inductive, PTL

(* The report of a child that failed on its own is never nil. *)
THEOREM CrashReportedCorrect == Spec => []CrashReported
<1>1. IInv => CrashReported
  BY DEF IInv, Children
<1>2. QED
  BY <1>1, Inductive, PTL
-----------------------------------------------------------------------------
(* What the callers of Start and Stop may rely on when they return.         *)

Childless == \A c \in Cmds : proc[c] \notin Unreaped

StopSteps == {"stop_lock", "stop_signal", "stop_wait", "stop_kill", "stop_drain"}

(* A call that has returned has a result, and Start is marked as aborting only
   inside the Stop it called. *)
Returned ==
    /\ call = "idle" /\ op # "none" => ret \in {"ok", "err"}
    /\ aborting => op = "start" /\ call \in StopSteps

(* The context's error is received only from a child that got that status,
   which a live child does not have. *)
ContextError ==
    \A c \in Cmds :
        /\ "ctx" \in {chan[c], report[c]} => status[c] = "ctx"
        /\ status[c] = "ctx" => proc[c] \in {"zombie", "reaped"}

(* If signals can be sent, a Stop that has returned leaves no child, and its
   error is that of a child which exited with code 0 as the context ended. *)
StopExplained ==
    ~SignalCanFail /\ call = "idle" /\ op = "stop" =>
        Childless /\ (ret = "err" => \E c \in Cmds : status[c] = "ctx")

CallerInv == IInv /\ Returned /\ ContextError /\ StopExplained

LEMMA InitCaller == Init => CallerInv
<1> SUFFICES ASSUME Init PROVE CallerInv
  OBVIOUS
<1>1. Returned /\ ContextError /\ StopExplained
  BY DEF Init, Returned, ContextError, StopExplained
<1>2. QED
  BY <1>1, InitInv DEF CallerInv

(* Only StartExec creates a process. *)
LEMMA NoNewChild ==
    ASSUME TypeOK, Childless, [Next]_vars, ~\E c \in Cmds : StartExec(c)
    PROVE  Childless'
<1> USE DEF Childless, Unreaped, TypeOK, fields, channels, child, goroutines, calls
<1>1. CASE CallStart \/ CallStop \/ RecvDone
  BY <1>1 DEF CallStart, CallStop, RecvDone
<1>2. CASE Caller
  <2>1. CASE UNCHANGED proc
    BY <2>1
  <2>2. CASE StopKill /\ Alive(local)
    BY <2>2 DEF StopKill, Alive, Dereferences
  <2>3. QED
    BY <1>2, <2>1, <2>2 DEF Caller, StartLoad, StartLock, StartAlreadyRunning, StartExecFails,
       ReadyDialed, ReadyExited, ReadyCancelled, ReadyTimeout, StopLock, StopSignal,
       StopReceive, StopTimeout, StopKill
<1>3. ASSUME NEW c \in Cmds, Waiter(c) PROVE Childless'
  BY <1>3 DEF Waiter, WaitReturns, WaitLock, WaitSend, WaitClose
<1>4. CASE Environment
  BY <1>4 DEF Environment, Cancel, ChildListens, ChildExits, CtxKill, Alive
<1>5. CASE UNCHANGED vars
  BY <1>5 DEF vars
<1>6. QED
  BY <1>1, <1>2, <1>3, <1>4, <1>5 DEF Next

(* A child keeps the context's error once it has it. *)
LEMMA ContextErrorStays ==
    ASSUME TypeOK, ContextError, [Next]_vars, NEW c \in Cmds, status[c] = "ctx"
    PROVE  status'[c] = "ctx"
<1>1. proc[c] \in {"zombie", "reaped"}
  BY DEF ContextError
<1>2. \A d \in Cmds : Alive(d) => d # c
  BY <1>1 DEF Alive
<1> USE <1>1, <1>2 DEF TypeOK, fields, channels, child, goroutines, calls
<1>3. CASE CallStart \/ CallStop \/ RecvDone
  BY <1>3 DEF CallStart, CallStop, RecvDone
<1>4. CASE Caller
  BY <1>4 DEF Caller, StartLoad, StartLock, StartAlreadyRunning, StartExecFails, StartExec,
     ReadyDialed, ReadyExited, ReadyCancelled, ReadyTimeout, StopLock, StopSignal, StopReceive,
     StopTimeout, StopKill, Dereferences
<1>5. CASE \E d \in Cmds : Waiter(d)
  BY <1>5 DEF Waiter, WaitReturns, WaitLock, WaitSend, WaitClose
<1>6. CASE Environment
  BY <1>6 DEF Environment, Cancel, ChildListens, ChildExits, CtxKill
<1>7. CASE UNCHANGED vars
  BY <1>7 DEF vars
<1>8. QED
  BY <1>3, <1>4, <1>5, <1>6, <1>7 DEF Next

(* Stop returns: with nothing to stop, or with what it received from the
   reaped child; the third way, a signal that cannot be sent, is excluded. *)
LEMMA StopReturns ==
    ASSUME CallerInv, ~SignalCanFail, call' = "idle",
           StopLock \/ StopSignal \/ StopReceive \/ StopTimeout \/ StopKill
    PROVE  /\ Childless'
           /\ op' = "stop" /\ ret' = "err" => \E c \in Cmds : status'[c] = "ctx"
<1> USE DEF CallerInv, IInv
<1>1. CASE StopLock
  <2>1. cmd = NoCmd /\ UNCHANGED <<proc, status>> /\ Return("ok")
    BY <1>1 DEF StopLock, child
  <2>2. Childless
    BY <2>1, NoOrphanFollows, CmdsAssumption DEF NoOrphan, Childless
  <2>3. op' = "stop" => ret' = "ok"
    BY <2>1 DEF Return, Returned
  <2>4. QED
    BY <2>1, <2>2, <2>3 DEF Childless
<1>2. CASE StopReceive
  <2>1. local \in Cmds /\ cmd \in {local, NoCmd} /\ Readable(local) /\ UNCHANGED <<proc, status>>
    BY <1>2 DEF StopReceive, TypeOK, Dereferences, Stopping, child
  <2>2. Childless
    BY <2>1, ReadableReaped, NoOrphanFollows, CmdsAssumption DEF NoOrphan, Childless, Unreaped
  <2>3. ASSUME op' = "stop", ret' = "err" PROVE status[local] = "ctx"
    <3>1. StopResult = "err"
      BY <1>2, <2>3 DEF StopReceive, Return, Returned, StopResult
    <3>2. chan[local] = "ctx"
      BY <2>1, <3>1 DEF StopResult, normalizeWaitError, Received, TypeOK, Errors
    <3>3. QED
      BY <2>1, <3>2 DEF ContextError
  <2>4. QED
    BY <2>1, <2>2, <2>3 DEF Childless
<1>3. CASE StopSignal \/ StopTimeout \/ StopKill
  BY <1>3 DEF StopSignal, StopTimeout, StopKill, Goto
<1>4. QED
  BY <1>1, <1>2, <1>3

LEMMA NextReturned ==
    ASSUME CallerInv, [Next]_vars
    PROVE  Returned'
<1> USE DEF CallerInv, IInv, Returned, StopSteps, fields, calls, InStart
<1>1. CASE CallStart \/ CallStop \/ RecvDone
  BY <1>1 DEF CallStart, CallStop, RecvDone
<1>2. CASE StartLoad \/ StartLock \/ StartAlreadyRunning \/ StartExecFails
  BY <1>2 DEF StartLoad, StartLock, StartAlreadyRunning, StartExecFails, Goto, Return
<1>3. CASE \E c \in Cmds : StartExec(c)
  BY <1>3 DEF StartExec
<1>4. CASE ReadyDialed \/ ReadyExited \/ ReadyCancelled \/ ReadyTimeout
  BY <1>4 DEF ReadyDialed, ReadyExited, ReadyCancelled, ReadyTimeout, Return, Abort
<1>5. CASE StopLock \/ StopSignal \/ StopTimeout
  BY <1>5 DEF StopLock, StopSignal, StopTimeout, Goto, Return
<1>6. CASE StopReceive \/ StopKill
  <2>1. StopResult \in {"ok", "err"}
    BY DEF StopResult
  <2>2. QED
    BY <1>6, <2>1 DEF StopReceive, StopKill, Goto, Return
<1>7. CASE Environment
  BY <1>7 DEF Environment, Cancel, ChildListens, ChildExits, CtxKill
<1>8. CASE \E c \in Cmds : Waiter(c)
  BY <1>8 DEF Waiter, WaitReturns, WaitLock, WaitSend, WaitClose
<1>9. CASE UNCHANGED vars
  BY <1>9 DEF vars
<1>10. QED
  BY <1>1, <1>2, <1>3, <1>4, <1>5, <1>6, <1>7, <1>8, <1>9 DEF Next, Caller

LEMMA NextContextError ==
    ASSUME CallerInv, [Next]_vars
    PROVE  ContextError'
<1> USE DEF CallerInv, IInv, ContextError, TypeOK, fields, channels, child, goroutines, calls
<1>1. CASE UNCHANGED <<proc, status, report>> /\ \E c \in Cmds : Receive(c)
  BY <1>1 DEF Receive
<1>2. CASE UNCHANGED <<proc, status, report, chan>>
  BY <1>2
<1>3. CASE CallStart \/ CallStop \/ RecvDone
  BY <1>1, <1>2, <1>3 DEF CallStart, CallStop, RecvDone
<1>4. CASE Caller /\ UNCHANGED <<proc, status>>
  <2>1. UNCHANGED report /\ (UNCHANGED chan \/ \E c \in Cmds : Receive(c))
    BY <1>4 DEF Caller, StartLoad, StartLock, StartAlreadyRunning, StartExecFails, StartExec,
       ReadyDialed, ReadyExited, ReadyCancelled, ReadyTimeout, StopLock, StopSignal, StopReceive,
       StopTimeout, StopKill, Dereferences
  <2>2. QED
    BY <1>1, <1>2, <1>4, <2>1
<1>5. ASSUME NEW c \in Cmds, StartExec(c) PROVE ContextError'
  <2>1. \A d \in Cmds : status[d] = "ctx" => d # c
    BY <1>5 DEF StartExec
  <2>2. QED
    BY <1>5, <2>1 DEF StartExec
<1>6. CASE StopKill /\ Alive(local) /\ ~UNCHANGED <<proc, status>>
  BY <1>6 DEF StopKill, Alive, Dereferences
<1>7. CASE Environment
  BY <1>7 DEF Environment, Cancel, ChildListens, ChildExits, CtxKill, Alive
<1>8. ASSUME NEW c \in Cmds, Waiter(c) PROVE ContextError'
  <2>1. CASE WaitLock(c)
    BY <2>1 DEF WaitLock, normalizeWaitError
  <2>2. CASE WaitReturns(c) \/ WaitSend(c) \/ WaitClose(c)
    BY <2>2 DEF WaitReturns, WaitSend, WaitClose
  <2>3. QED
    BY <1>8, <2>1, <2>2 DEF Waiter
<1>9. CASE UNCHANGED vars
  BY <1>2, <1>9 DEF vars
<1>10. Caller => UNCHANGED <<proc, status>> \/ (\E c \in Cmds : StartExec(c)) \/ (StopKill /\ Alive(local))
  BY DEF Caller, StartLoad, StartLock, StartAlreadyRunning, StartExecFails,
     ReadyDialed, ReadyExited, ReadyCancelled, ReadyTimeout, StopLock, StopSignal, StopReceive,
     StopTimeout, StopKill
<1>11. QED
  BY <1>3, <1>4, <1>5, <1>6, <1>7, <1>8, <1>9, <1>10 DEF Next

LEMMA NextStopExplained ==
    ASSUME CallerInv, [Next]_vars
    PROVE  StopExplained'
<1> SUFFICES ASSUME ~SignalCanFail, call' = "idle", op' = "stop"
             PROVE  Childless' /\ (ret' = "err" => \E c \in Cmds : status'[c] = "ctx")
  BY DEF StopExplained
<1> USE DEF CallerInv, IInv
<1>1. CASE call = "idle"
  <2>1. UNCHANGED <<op, ret>>
    BY <1>1 DEF Next, vars, calls, CallStart, CallStop, RecvDone, Caller, StartLoad, StartLock,
       StartAlreadyRunning, StartExecFails, StartExec, ReadyDialed, ReadyExited, ReadyCancelled,
       ReadyTimeout, StopLock, StopSignal, StopReceive, StopTimeout, StopKill, Waiter, WaitReturns,
       WaitLock, WaitSend, WaitClose, Environment, Cancel, ChildListens, ChildExits, CtxKill
  <2>2. Childless /\ (ret = "err" => \E c \in Cmds : status[c] = "ctx")
    BY <1>1, <2>1 DEF StopExplained
  <2>3. QED
    BY <1>1, <2>1, <2>2, NoNewChild, ContextErrorStays DEF StartExec
<1>2. CASE call # "idle"
  <2>1. Caller
    BY <1>2 DEF Next, vars, calls, CallStart, CallStop, RecvDone, Waiter, WaitReturns,
       WaitLock, WaitSend, WaitClose, Environment, Cancel, ChildListens, ChildExits, CtxKill
  <2>2. op = "stop"
    BY <2>1 DEF Caller, StartLoad, StartLock, StartAlreadyRunning, StartExecFails, StartExec,
       ReadyDialed, ReadyExited, ReadyCancelled, ReadyTimeout, StopLock, StopSignal, StopReceive,
       StopTimeout, StopKill, Goto, Return, Abort
  <2>3. StopLock \/ StopSignal \/ StopReceive \/ StopTimeout \/ StopKill
    BY <2>1, <2>2 DEF InStart, Caller, StartLoad, StartLock, StartAlreadyRunning, StartExecFails,
       StartExec, ReadyDialed, ReadyExited, ReadyCancelled, ReadyTimeout
  <2>4. QED
    BY <2>3, StopReturns
<1>3. QED
  BY <1>1, <1>2

LEMMA NextCaller == CallerInv /\ [Next]_vars => CallerInv'
BY NextInv, NextReturned, NextContextError, NextStopExplained DEF CallerInv

(* A Stop that has returned leaves no child even if it returns an error, as
   long as signals can be sent; and the only error is the context's. *)
THEOREM StopErrorExplained == Spec => []StopExplained
<1>1. CallerInv => StopExplained
  BY DEF CallerInv
<1>2. QED
  BY <1>1, InitCaller, NextCaller, PTL DEF Spec
=============================================================================
