# TLA+ verification of cfwg

cfwg runs Cloudflare WARP as a SOCKS5 proxy: one Go program, `warp-socksd`,
registers a WARP device, brings up a WireGuard link, points the default routes at
it, starts itself again as `warp-socksd serve-socks5`, checks that traffic really
goes through the tunnel, and then waits for a signal or for the proxy to die.
This directory holds TLA+ models of the parts where the order of events, or the
agreement of two pieces of code about the same data, decides whether that works,
TLC configurations that check them on small instances, and TLAPS proofs of the
properties that matter most for every instance.

## 1. The system

| Component | Source | State | Operations | Hard because |
|---|---|---|---|---|
| Supervisor of the proxy process | `internal/process` | mutex, current command, channel of its result, stopped flag | Start, Stop, Done, wait goroutine | five actors (caller, wait goroutine, os/exec's kill, the child, timers) share one mutex and one channel per child |
| Application | `internal/app` | attempt, device in use, error of the run | Run, runStartedRuntime | sequence of fallible steps, partial undo, one retry with a new device, a select that races |
| Entry point | `cmd/warp-socksd/main.go` | two error channels, the context | runWithEnv, main | two goroutines whose results are collected by a third |
| Readiness | `internal/runtime`, `internal/health` | one flag | SetReady, `/readyz` | says something about the past |
| Network manager | `legacy_backend.go`, `internal/wgdev`, `internal/router` | kernel's link and routes; saved original routes and bypass routes | Apply, Cleanup | every step is a command that may fail half-way; the state that undoes it is in memory only |
| SOCKS5 server, UDP table | `internal/socks5/server.go` | map from client address to association | handleUDPAssociate, associationForSource, Close | one goroutine per connection and per datagram; entries change their key, and are read without the lock |
| SOCKS5 sessions | `internal/socks5` | per connection | negotiateAuth, readRequest, handleConnect, proxyCopy, parseUDPPacket, buildUDPReply, Dialer | messages without frames, one-byte lengths, half-closed relays |
| Bootstrap | `legacy_backend.go`, `internal/warpapi` | device at the API and in the state | EnsureDevice, refresh, register, applyLicense | a crash or a lost answer between a remote effect and the local save |
| State store | `internal/state` | `state.json`, its temporary file | Load, Save | crash atomicity, write-back |
| Endpoint selection | `legacy_backend.go`, `internal/wgdev`, `internal/router` | none | stateFromWarpDevice, selectPeerEndpoint, selectPeerEndpointAddress | three parsers of the same strings that must agree |
| Prober | `prober.go` | deadline | Check | retries over several targets in a window |
| Configuration | `internal/config`, `main.go`, `internal/socks5/config.go` | `socks5.json` | LoadFromEnv, WriteFileConfig, LoadFileConfig | two readers of one environment; a file that outlives the process |

How they interact: `runWithEnv` starts the health server and the application as
goroutines with one context.  The application calls the bootstrapper, the store, the
network manager, the supervisor and the prober in turn, sets readiness, and selects
on the context and on the supervisor's Done channel.  The child process is created
with `exec.CommandContext` on that same context, so a signal reaches it by two ways:
os/exec kills it, and the application, woken by the context, stops it.  The child gets
its configuration through a file and runs the SOCKS5 server; the prober is a SOCKS5
client of it.

What makes each part correct: the supervisor never loses a process, never hangs and
never mistakes a crash for a clean exit; the application leaves nothing behind and
is ready only with a consistent device; the network manager never routes the
tunnel's packets into the tunnel and gives back the routes it found; the UDP table
serves a client at its own address with its own association; both ends of a session agree
where each message ends; registrations are neither multiplied nor lost beyond what
failures explain; the state file is always one of the states saved.

## 2. The modules

`Supervisor.tla` follows `socks5_supervisor.go` step by step.  Each critical section
of `s.mu` is one action; between them every other actor may move.  `local` stands
for the variables `cmd` and `done` a method has read, `chan` and `closed` for the
one-element channels, `proc` and `status` for the process and what `cmd.Wait`
returns.  `StartExecFails` returns with the mutex held, as the code does.  `CtxKill`
is os/exec: it also reaches a child that has exited with code 0 and is not reaped,
whose Wait then returns the context's error.  `stopReq` and `op`/`ret` are history.

`Runtime.tla` composes the application, `main`, the health server and one `Supervisor`
(`Sup == INSTANCE Supervisor` on the same variables).  A call of Start or Stop is the
action `Sup!CallStart`/`Sup!CallStop`; the app goes on when `call` is idle again.  A
goroutine that finds no case of its select ready parks, and the first event to come
decides what it wakes with (`wake`); this is what separates the harmless shutdown from
the harmful one.  `outcome` is history: how far the last runStartedRuntime got, from
which follows whether it owed a Cleanup; `net` = "left" is a tunnel of which a Cleanup
that was called could not remove everything.  Bootstrap, store, network manager and
prober appear by their outcomes (`EnsureDevice`, `SaveFailed`, `net`, `CheckPasses`).

`UdpAssociations.tla` has one action per critical section of `s.mu` in the handling
of UDP: storing, the deferred removal under the address announced first, the three
stages of `associationForSource`, and `Close`.  `UdpRelay.tla` extends it with what
handlers do outside the lock: `Forward` to a target, wait, and `Reply` to the
association's address as it is then, or `GiveUp`; `alone` is history: the datagrams
whose association was at some time, since they were resolved to it, the only one stored.

`Network.tla` has one action per `ip` or `wg` command of Apply and Cleanup.  A
command works, or fails with its effect done or not.  The caller may apply again
without cleaning up, which is what App.Run does after a failed start, and the process
may be killed before any command.  `setConf` is what `wg setconf` makes of the endpoint:
the peer address it was given or, for an endpoint known by its host name only
(`NoPeer`), some address the name resolves to; `byName` remembers the latter.
`stranded` (history) says that it was killed
while a default route was replaced.  `NetworkRoutes.tla` adds the history of host
routes that an Apply drops from `bypassRoutes`.

`StateStore.tla` has one action per system call of Save, each of which may fail, and
Load.  A file is its data and whether they were synced; `onDisk` is the directory
entry that reached the disk last (`WriteBack`), what `MachineStops` goes back to, with
unsynced data torn or not.  `AtomicRegister.tla` is the abstract specification: a save
takes effect at one instant between call and return, or never.
`StateStore!Register` is the refinement mapping.

`Bootstrap.tla` follows EnsureDevice request by request within App.Run and across
restarts of the container, on an `INSTANCE` of StateStore.  A request fails before
or after its effect at the API.  A device state keeps its identity, its licence and
whether isReusableLegacyState accepts it.  `Run` is the rest of App.Run: it ends
well or with an error, which causes the retry.

`Socks5Bytes.tla` is the encoding of addresses that the client, the session and the
datagrams share; a byte is a number below 256 and a length or a port is written modulo
its width.  `Socks5Session.tla` lets `Dialer.DialContext` (the `Client...` actions) talk
to `handleConn` (`Server...`) over two byte streams; a `readExactly` is enabled once its
bytes are there.  Messages that the server gives up without an answer are `Misframed`: a
version byte other than that of the step (`server.go:192`, `:227`, `:518`) or an address
type it does not know (`:557`); the client checks version, status and address type of
the answers in turn.  Names and passwords are any sequences of bytes, so that what a
length byte cuts off is read as whatever it happens to be.  `Relay.tla` is handleConnect
after its reply with the two goroutines of proxyCopy, as counters of chunks; closing a
connection with unread data resets it.  `UdpPacket.tla` takes one datagram, whole, cut
at any byte, marked as a fragment or with an address type nobody knows (`Malformed`),
through parseUDPPacket, the exchange and buildUDPReply; a slice expression beyond the
end is an outcome of its own (`OutOfRange`), which DatagramsKept confines to cut
datagrams.

`TunnelPlan.tla` has the endpoint functions of `legacy_backend.go` as operators, and
two steps: the conversion of the API's answer and Apply up to its first command,
with a restart under another stack mode between them.  The API's `Endpoint.Host` is a
name there; an IP literal in that place, with no address of the family beside it, is
like a name to BuildPlan (see NetworkByName below).  `Configuration.tla` goes from
the environment through LoadFromEnv, the file and the child's LoadFileConfig, and
beside it to the credentials of the prober.  `Prober.tla` is Check in discrete time.

`MC*.tla` hold symmetry sets, and two of them are harnesses that check several parts
in one run: `MCSocks5` (session, relay, datagram) and `MCStartup` (configuration,
tunnel plan, probe).  The parts of a harness share no state, neither in the model nor
in the code; a behaviour is one of one part with the others at rest, so that their
states add up rather than multiply.

`*Proofs.tla` hold the theorems.  Definitions that say "Mutation" in their comment are
plausible bugs; putting one in place of the definition it mutates makes TLC report the
property it is paired with in `PROJECT.json`.

## 3. The runs

| Run | Instance | What it shows |
|---|---|---|
| Supervisor | 2 commands, all faults, fair | NoOrphan, StopLeavesNoChild, CrashReported over any sequence of calls; every call returns while the mutex keeps being released |
| RuntimeSafety | both attempts, all faults but failing signals | readiness is consistent; what may be left at exit; when a signal ends cleanly |
| RuntimeLive | exec works, the child may crash, fair | a signal ends the process; a dead proxy clears readiness |
| UdpRelay | 2 connections, 2 datagrams, a loopback and another IP, 2 ports | the table stays indexed by reply address; only the named losses and leaks; a datagram from a client's own address is served with its association, whatever falls between the three critical sections; an answer goes elsewhere than to its datagram's source only through the adoption of a sole association, or between loopback addresses |
| Network | 2 IPv4 peers, 1 IPv6 peer and a host name; all stack modes and uplinks; killed at any command | no routing loop for an endpoint given by its address; Cleanup restores; Apply establishes; the tunnel's route is never taken for the original; which host routes stay behind |
| Bootstrap | 3 devices, 2 licences, 2 incidents, fair | one registration per incident at most; what runs is what is saved; licences in step; the store implements the register; the service recovers |
| Socks5 | session: names and passwords of 255 and 511 bytes, among them one whose rest is a request; hosts of 1 and 255, ports 80 and 65616, commands 1 to 3; relay: 3 chunks, 2 buffered; datagram: hosts of 1, 2, 3 and 255, payloads of 0 to 5, every cut, fragments, unknown types; fair | both ends agree on targets and message ends; credentials decide; datagrams are kept; losses are explained; sessions end |
| Startup | environments of one word, "" and "unspecified"; 2 ports and every form of address; 2 targets, window 6, interval 2, timeout 2 | prober and child have the same credentials, of this environment; endpoint, bypass and routes fit; the probe ends in time and misses no tunnel |
| RuntimeMutexHang | exec may fail, fair | **violated**: see below |
| RuntimeCleanShutdown | no fault at all | **violated** |
| UdpSoleClient | 2 connections, 1 datagram | **violated** |
| NetworkByName | as Network | **violated** |

### What the violated runs show

* *RuntimeMutexHang*: when `cmd.Start` fails, `Start` returns without unlocking
  `s.mu`.  With a persisted device App.Run retries, the second `Start` blocks for
  ever, and SIGTERM does not end the process.  With working exec the same property
  holds (RuntimeLive).
* *RuntimeCleanShutdown*: a signal that arrives after readiness is set and before the
  app is parked in its select can be answered by the child's death, which os/exec
  brings about on the same context; the exit code is then 1, or a new device is
  registered.  The other way to an error is a child that exits with code 0 and is
  signalled by os/exec before it is reaped.  ParkedShutdownClean states exactly what
  remains true.
* *UdpSoleClient*: the deferred removal works on the address announced first.  It can
  remove another connection's live entry, or leave an adopted one behind; then the only
  client connected is not the sole association and is not served after a change of
  its source address.
* *NetworkByName*: where the state has no address of a family that the stack mode
  allows, selectPeerEndpoint falls back to the host name (`legacy_backend.go:478`).  `wg
  setconf` resolves it, but BuildPlan plans host routes for addresses only
  (`router.go:47`): Apply reports success, and the default route takes the tunnel's own
  packets into the tunnel.  The same holds for an IP literal that is known only as the
  peer endpoint.  `router_test.go:59` expects an "endpoint bypass route".  NoRoutingLoop
  names this case (`byName`) as an exception, next to the inside of a cleanup, a
  cleanup whose commands failed and the successor of a killed process.

Three things were met while modelling and have no run of their own.  Connectivity is
probed once, before readiness is set (`app.go:147`), so `/readyz` does not follow the
tunnel as "tunnel status" would have it (`src/README.md:139`).  A `PROXY_PUBLIC_HOST`
that is a host name is answered with 0.0.0.0 (`server.go:564`; the premise of
`PublicHostReturned`).  A `HEALTHCHECK_URL` without a port passes
`healthListenAddrFromURL` (`main.go:226`) and stops the daemon when the health server
listens (`Configuration!HealthServerFails`).

### Bounds

`Cmds` bounds the number of starts: App.Run starts at most two children, and a stale
flag or a late goroutine of one child meets the next; the proofs cover every number.
Two connections and two datagrams are the least with which registrations, removals
and adoptions can collide; a third adds no new pair of colliding steps, and the
proofs cover every number.  Two peers of one family and one of the other make a change
of peer, a change of family and a peer without address happen.  `attempt` is bounded
by the code itself.  `MaxIncidents` = 2 lets a failure hit the recovery from a
failure; three devices are what two incidents can make the program register.  Lengths
and ports sit on both sides of the width they are written in.  `MaxChunks` exceeds
`Capacity`, so that a writer has to wait.  The window of the probe is longer than a
round of both targets, and not a multiple of round and interval.

### Fairness

Goroutines that can run do run, timers fire (3 s and 5 s in the supervisor), os/exec
delivers its kill, a killed process is reaped.  In `Runtime` the calls that can fail
are bounded by timeouts in the code or by the context, and return.  Nothing is assumed
of the child: it need not listen, exit or react to SIGTERM.  No signal, call or fault
is owed.  `CallReturns` has the premise that the mutex is free again and again because
of the exec failure above.  In `Bootstrap` every request returns, as the client has a
timeout of 15 s (`legacy_backend.go:48`), and the container is started again
(`restart: unless-stopped`, `compose.yaml:5`).  In `Socks5Session` both ends
run, and the client's deadline passes; the server's own dial has no timeout and is
owed nothing, so SessionsEnd exempts it.  In `Relay` the goroutines run; nobody has to
send, read or finish, and a receiver that does not read is the exception the properties
name.  The prober's time passes without fairness: that Check ends in time is an
invariant on the clock, which cannot pass a step that is due.

Deadlock is not checked where the system really may stop: the supervisor behind its
leaked mutex, the UDP table after Close, and the parts of the harnesses, which end
(a closed session, a handled datagram, a finished relay, a refused tunnel, a probe that
returned).  It is checked for RuntimeSafety, RuntimeLive, Network and Bootstrap.

## 4. The proofs

Every invariant a passing run checks, OwnSourceServed and ImplementsRegister are theorems,
in eight modules.  They hold for every value of the constants that satisfies the
assumptions, all of which TLC evaluates in the runs:

* what stands for nothing is not something (`CmdsAssumption`, `NoneAssumption`,
  `PeersAssumption`, `StoreAssumption`, `NoAddrAssumption`, `DistinctAssumption`, and
  in `WordsAssumption` that no pair of words is `NoAuth`);
* sizes are natural numbers, positive where the code divides or waits by them
  (`RelayAssumption`, `TimesAssumption`, `PortsAssumption`, `SessionAssumption`);
* a datagram's host has 1 to 255 bytes and its port two (`PacketAssumption`: the client
  of the UDP codec is not part of cfwg, and an address that does not fit cannot be
  sent).  For the session nothing of the kind is assumed: the Dialer is handed names
  and passwords of any bytes, a host of any length and any port, and the properties say
  what becomes of them.

Two theorems have a premise of their own, `~SignalCanFail`: ExitLeavesNoChildCorrect and
ParkedShutdownCleanCorrect.  A Stop whose Signal or Kill fails returns the error
with the child still there (`socks5_supervisor.go`), and the application does not try
again; RuntimeSafety checks these two with the same premise.

*SupervisorProofs* proves TypeOK, NoOrphan, StopLeavesNoChild and CrashReported for
any number of children and with every fault.  None of the last three is inductive.
The invariant `IInv` follows a child through its wait goroutine: while its process
exists the goroutine is in `cmd.Wait` (Waited), afterwards it is reaped (Reaped);
`s.cmd` names it until the goroutine's critical section (Tracked); only then something
can be received from its channel (Reported); a stopped flag seen by the goroutine was
set by a Stop that found this command (StoppedFresh); and while a Stop is under way no
other command becomes current (Stopping).  NoOrphan is Waited and Tracked together.
StopLeavesNoChild follows at the two returns of Stop: with no command there is no process
by NoOrphan; with a value received the command's own process is reaped.  `CallerInv` adds
what a caller may rely on between calls (`Childless`), for the next module.

*RuntimeProofs* first shows that a step of the process is a step of its supervisor or
leaves it alone (UsesSupervisor), so that CallerInv holds there too.  `RInv` adds: from
which step on the device in use, the one in `state.json` and the one in the network are
the same (InstalledAndSaved, which gives ReadyConsistent at once); that main has a result
only from an App.Run that returned (ResultAfterReturn); that application and supervisor
are at matching points of one call (CallsMatch); at which steps there may be a child
(ChildWhileStarted, for ExitLeavesNoChild); how the last runStartedRuntime ended where
something is left of the tunnel, before the retry as well as at the return
(LeftoverSoFar); and that no error value is
set where the code has not got that far (ErrorsInOrder).  ParkedShutdownClean speaks of
the exit only; ParkedSoFar says what has to hold on the way there: the context is done,
the app is on the steps after its select, and every error so far is nil, unless a child
got the context's error.

*BootstrapProofs* takes the store's invariant from StateStoreProofs, as every step of the
bootstrap is one of the store or leaves it alone; StoreKeepsPromise says so of the whole
refinement.  RegistrationsPaidFor is not inductive: a bound on the number of
registrations says nothing of the next one.  PaidFor counts one less wherever a further
registration is still to come without a failure (NextIsFree: nothing to reuse, or what
was reused is useless), and every incident that leads back there pays for it.
OnlyRegistered, HasDevice, EnabledWhenAsked and LicenseSoFar follow a state from the API's
answer to the file.

*NetworkProofs* proves, with crashes at any command, TypeOK, ApplyEstablishes,
NeverCapturesTunnel, NoRoutingLoop and CleanupRestores.  NeverCapturesTunnel holds
because Apply deletes the link before it looks at the default routes, so none leads
into a tunnel at the discovery (NoTunnelDefault).  The last two need what the manager
remembers: a default route it has not saved it has not replaced (Known), and the host
route to the peer precedes the tunnel's default, unless the peer was found by its name
(Bypassed).  The successor of a process
killed while a default route was replaced knows nothing of either; `stranded` is that
case, and the premise both properties name.  RoutesRefine shows that NetworkRoutes only
watches the manager, so that all of this holds there; LeftoverRoutesForgotten follows
from it with KnownOrForgotten (a host route in the kernel is in `bypassRoutes` or was
dropped from it) and NoneKnown.

*UdpAssociationsProofs* proves TypeOK, IndexConsistent, LeakOnlyAdopted and
LostOnlyToSameAddress, and the action property OwnSourceServed, from an invariant that
adds: what is stored belongs to a connection that registered (OnlyRegistered), and it
is stored under the announced address until it is adopted (KeyUntilAdopted).
For OwnSourceServed the point is that a client who is at the datagram's source is indexed
there (LostOnlyToSameAddress): the look-up under the lock finds it even
if it came between the critical sections, so neither the match by port nor the adoption
of a sole association is reached.  Without that second look-up the property fails (its
mutant).  RelayRefines carries the theorems over to UdpRelay, where ReplyAddressExplained
is inductive beside them: an association changes its address only by an adoption, and
each kind of adoption is one of the property's alternatives.

*StateStoreProofs* proves that StateStore implements AtomicRegister for any set of
states, from one hypothesis on the constants (`Distinct`: the values that stand for
"none" and "torn" are no device states).  The invariant says that from the sync on
the temporary file holds the state being saved, and that what a Load or a power
failure can meet is whole and synced: it is where the order of Sync and Rename is used.

*StartupProofs* has one invariant for each part.  `ConfigInv`: what each reader of the
environment has read is a function of the environment of this run, and the file, once
written, is too; CredentialsAgree then is a lemma about two functions (ReadersAgree).
`TunnelInv`: the saved state is the conversion of the API's answer and the plan is
computed from it, so that EndpointFits is about operators again: what
joinEndpointHostAndPort writes, selectPeerEndpoint and the address parser read
(`Fitting`).  `ProbeInv`: when the step under way may have begun and how far the clock may
be (InTime, by multiplication with the index of the target); and for LateTunnelFound
NotMissed: a target that was asked earlier in the round and works now has worked no
longer than the requests since took.

*Socks5Proofs* is the longest, because its subject is bytes.  Its first part is about
messages: slices and concatenations of sequences of bytes, and that a header is read as
it was written (MessageRead), for every host of at most 255 bytes and every port of
two.  On it rest
* DatagramsKept (`PacketInv`): past each step of the handler, what has been parsed is what
  the client meant, whatever prefix of the datagram has arrived;
* CredentialsDecide (`SessionInv`): nothing but the greeting, and then the credentials,
  can be under way before the server has read them (ServerReads).  What it compares is,
  byte for byte, the beginning of what the client sent (CredentialsRead); as the length
  bytes stand in it, only one pair of name and password can be read there (OneReading),
  and two clients whose messages begin alike are the same if their credentials fit
  (SameBeginning);
* DialerAgrees (`PhaseInv`): for each state of the client, which answers it may find and
  what the server still has to read.  Its premise is that what the client sends fits
  the fields it is sent in (`Fits`).  It is needed: the server takes the rest of a
  password that is cut for the beginning of a request, and if those bytes are one, as in
  the password of the run, the client is told that it is connected to its target and is
  connected to theirs.  Any other rest is refused or closed without an answer
  (RejectPhases);
* LossExplained (`RelayInv`): a copy that ended well has passed on all it read before the
  other end's FIN, and the session is closed only after one copy ended.

Proving changed the models in three places.  AuthBeforeRequest used to say that nobody
is let in without the very credentials configured, which holds while credentials fit
their length bytes; a client whose password has 511 bytes announces 255, and is let in
if the first 255 are the ones configured.  The property says so now, as a statement on
prefixes, and the run has names and passwords for which this happens.  The arms of a
CASE in ServerGreet overlapped, which leaves the choice open; it is a disjunction with
exclusive guards now.  And Runtime and Bootstrap state as assumptions (`SupAssumption`,
`StoreAssumption`) what the modules they instantiate assume.

Only model-checked is liveness, as fairness and ENABLED are beyond the proof system:
CallReturns, SignalTerminates, ChildDeathNoticed, Recovers, OneWayArrives and
SessionsEnd.

## 5. Not modelled

* Log lines, the JSON and HTTP of the API client, TLS, file permissions: no property
  depends on them.  Of the API client the effect of its calls and the loss of their
  answers are in `Bootstrap`, hence "partly".
* The subcommand `healthcheck` (one GET request), `/healthz` and `/status`, which only
  render.
* Contents of datagrams and streams beyond their length and their end; resolution of
  names beyond its outcome; what kind of IP a target has beyond the address family.
* Several listeners or Servers in one process: `serve-socks5` starts one.
* The kernel: a route or a link is there or not; metrics, several default routes and
  addresses are left out.  A container that is recreated gets fresh routes; a process
  restarted in the same namespace after a kill finds the default route
  gone with the link, and Apply then fails for want of an original route.
* Temporary files that Save leaves behind when the process dies: each Save makes one
  with a name of its own, and nothing reads them.

## 6. Plan

1. Done: all components modelled, but for the API client, the entry point and the health
   endpoints in part; every safety property of the runs proved.
2. Supervisor: what the liveness of its calls rests on, as action properties that can be
   proved (a Stop past its signal is only ever waiting for a timer or the channel).
3. Prober and Configuration: a refinement of one-shot abstract specifications, if it
   says more than the invariants do.
