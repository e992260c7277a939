------------------------------- MODULE Prober -------------------------------
(***************************************************************************)
(* httpProber.Check (cmd/warp-socksd/prober.go): rounds of requests, one   *)
(* target after another, until one confirms the tunnel, the retry window   *)
(* is over or the context is cancelled.                                    *)
(*                                                                         *)
(* Time is counted in ticks; what the code does between two waits takes    *)
(* none.  A target works from some tick on and may stop working again.     *)
(***************************************************************************)
EXTENDS Naturals

CONSTANTS
    MaxTargets,     \* targets of newProberFunc: the URL and its fallbacks
    RetryWindow, RetryInterval,
    Timeout         \* of the HTTP client: the longest a request takes

VARIABLES
    n,          \* the number of targets
    now,
    pc,         \* "try", "wait", "done"
    target,     \* the target being asked
    since,      \* when the request, or the wait, was started
    working,    \* the targets that would confirm the tunnel
    workingAt,  \* workingAt[t]: when t last began to
    cancelledAt,\* when the context was cancelled
    result      \* what Check returned

clock == <<n, now>>
tunnel == <<working, workingAt>>
vars == <<clock, pc, target, since, tunnel, cancelledAt, result>>

Never == RetryWindow + RetryInterval + MaxTargets * Timeout + 1
Cancelled == cancelledAt # Never
Deadline == RetryWindow     \* Check is called at 0

(* Every variable has its type. *)
TypeOK ==
    /\ n \in 1..MaxTargets
    /\ {now, since, cancelledAt} \subseteq 0..Never
    /\ pc \in {"try", "wait", "done"}
    /\ target \in 1..n
    /\ working \subseteq 1..n
    /\ workingAt \in [1..MaxTargets -> 0..Never]
    /\ result \in {"none", "nil", "err", "cancelled"}

Init ==
    /\ n \in 1..MaxTargets
    /\ now = 0 /\ pc = "try" /\ target = 1 /\ since = 0
    /\ working \in SUBSET (1..n) /\ workingAt = [t \in 1..MaxTargets |-> 0]
    /\ cancelledAt = Never /\ result = "none"
-----------------------------------------------------------------------------
Returns(r) == pc' = "done" /\ result' = r /\ UNCHANGED <<target, since>>

Begins(what, t) == pc' = what /\ target' = t /\ since' = now /\ UNCHANGED result

(* The end of a round in which no target confirmed the tunnel. *)
RoundFailed == IF now > Deadline THEN Returns("err") ELSE Begins("wait", 1)

(* Mutation: the index runs past the last target. *)
TryFailsPast ==
    /\ pc = "try"
    /\ Cancelled \/ target \notin working \/ workingAt[target] > since
    /\ IF target <= n THEN Begins("try", target + 1) ELSE RoundFailed
    /\ UNCHANGED <<clock, tunnel, cancelledAt>>

(* Mutation: the last target is left out. *)
TryFailsEarly ==
    /\ pc = "try"
    /\ Cancelled \/ target \notin working \/ workingAt[target] > since
    /\ IF target + 1 < n THEN Begins("try", target + 1) ELSE RoundFailed
    /\ UNCHANGED <<clock, tunnel, cancelledAt>>

(* checkOnce fails: the target did not work all the time, or the request was
   cancelled; then checkTargets tries the next. *)
TryFails ==
    /\ pc = "try"
    /\ Cancelled \/ target \notin working \/ workingAt[target] > since
    /\ IF target < n THEN Begins("try", target + 1) ELSE RoundFailed
    /\ UNCHANGED <<clock, tunnel, cancelledAt>>

(* checkOnce: status 200 and warp=on in the body. *)
TryConfirms ==
    /\ pc = "try"
    /\ target \in working
    /\ Returns("nil")
    /\ UNCHANGED <<clock, tunnel, cancelledAt>>

(* The select of Check, either case of which may be taken when both are ready. *)
WaitOver ==
    /\ pc = "wait"
    /\ now = since + RetryInterval
    /\ Begins("try", 1)
    /\ UNCHANGED <<clock, tunnel, cancelledAt>>

(* Mutation: the wait is a sleep, and the context is looked at afterwards. *)
WaitHearsLate == now = since + RetryInterval /\ Cancelled

(* ctx.Done() is one of the cases the select waits for. *)
WaitHears == Cancelled

WaitCancelled ==
    /\ pc = "wait"
    /\ WaitHears
    /\ Returns("cancelled")
    /\ UNCHANGED <<clock, tunnel, cancelledAt>>
-----------------------------------------------------------------------------
(* The environment *)

(* client.Do ends with the context or the client's timeout. *)
RequestOver == Cancelled \/ now = since + Timeout

(* Something is to be done before time goes on. *)
Due ==
    \/ pc = "try" /\ RequestOver
    \/ pc = "wait" /\ (WaitHears \/ now = since + RetryInterval)

Tick ==
    /\ pc # "done" /\ ~Due /\ now < Never
    /\ now' = now + 1
    /\ UNCHANGED <<n, pc, target, since, tunnel, cancelledAt, result>>

Works(t) ==
    /\ pc # "done" /\ t \notin working
    /\ working' = working \cup {t} /\ workingAt' = [workingAt EXCEPT ![t] = now]
    /\ UNCHANGED <<clock, pc, target, since, cancelledAt, result>>

Breaks(t) ==
    /\ pc # "done" /\ t \in working
    /\ working' = working \ {t}
    /\ UNCHANGED <<clock, pc, target, since, workingAt, cancelledAt, result>>

Cancel ==
    /\ pc # "done" /\ ~Cancelled
    /\ cancelledAt' = now
    /\ UNCHANGED <<clock, pc, target, since, tunnel, result>>
-----------------------------------------------------------------------------
CheckStep == TryFails \/ TryConfirms \/ WaitOver \/ WaitCancelled

Next ==
    \/ CheckStep \/ Tick \/ Cancel
    \/ \E t \in 1..n : Works(t) \/ Breaks(t)

Spec == Init /\ [][Next]_vars
-----------------------------------------------------------------------------
(* Check gives up within the window, one interval and one round, although the
   window is only looked at between rounds. *)
GivesUpInTime == now <= Deadline + RetryInterval + n * Timeout

(* Check gives up only if no target, first or fallback, has worked since one
   round before the end of the window: a tunnel that comes up late, or for one
   address family only, is found. *)
LateTunnelFound ==
    result = "err" /\ ~Cancelled =>
        \A t \in working : workingAt[t] + n * Timeout > Deadline

(* Shutdown does not wait for the prober: no request and no interval is sat out
   once the context is cancelled. *)
CancelledAtOnce == Cancelled => now = cancelledAt

(* Check ends in time, by itself or with its context. *)
ProbeInTime == GivesUpInTime /\ CancelledAtOnce
=============================================================================
