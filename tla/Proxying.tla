------------------------------ MODULE Proxying ------------------------------
(***************************************************************************)
(* Requests that are sent to the endpoints of one upstream: the attempt    *)
(* loop of the proxy (proxy/mod.rs, outbound.rs, tunnel.rs, upgrade.rs),   *)
(* a directive's question (ask.rs), the retry budget (retry.rs), the       *)
(* balancer (selector.rs), and what probes and live traffic say about an   *)
(* endpoint (endpoint.rs, probe.rs, the probe loop of supervisor.rs).      *)
(*                                                                         *)
(* Time is abstract: a passive window is open or not (none, or past), an   *)
(* ejection "no", "yes" or "over".  A request is what decides how often it *)
(* may be sent: the retry mode it is under, whether its body can be        *)
(* reproduced, and whether it asks for an upgrade.  Reporting a failure    *)
(* takes three steps, because the window's lock is released before the     *)
(* failure is counted.                                                     *)
(***************************************************************************)
EXTENDS Integers, FiniteSets, Functions

CONSTANTS Backends,      \* endpoints, as numbers: their order is that of their ids
          Weight,        \* [Backends -> Nat]
          Priority,      \* [Backends -> Int]
          Score,         \* [Keys -> [Backends -> Int]], the rendezvous hash
          Keys,          \* what a hash strategy may find in a request
          NoKey,         \* it finds nothing
          Proxied,       \* requests
          Policies,      \* configurations to choose from: see Policy
          Attempts,      \* retry attempts
          Percent,       \* the retry budget
          RetryFloor,    \* retries allowed whatever the percentage
          CursorSpan,    \* the cursor wraps here, a multiple of every set's size
          MaxFails,      \* passive failures that eject
          Healthy, Unhealthy   \* thresholds of the active check

\* A request that may be proxied.
Kind == [mode : {"none", "safe", "replay", "ask"}, reproducible : BOOLEAN, upgrade : BOOLEAN]

\* The strategy, whether there is an active check, whether endpoints are taken
\* out, the requests that arrive and what they may be.
Policy == [balance : {"round-robin", "weighted-round-robin", "random", "two-random-choices",
                      "least-conn", "first", "hash"},
           probed : BOOLEAN, drains : BOOLEAN, requests : SUBSET Proxied, kinds : SUBSET Kind]

ASSUME ProxyingAssumption ==
  /\ Backends \subseteq Nat \ {0} /\ IsFiniteSet(Backends)
  /\ Policies \subseteq Policy
  /\ NoKey \notin Keys
  /\ Attempts \in Nat \ {0} /\ RetryFloor \in Nat /\ Percent \in Nat /\ CursorSpan \in Nat \ {0}
  /\ \A b \in Backends : Weight[b] \in Nat \ {0} /\ Priority[b] \in Int /\ \A k \in Keys : Score[k][b] \in Int

VARIABLES backend,   \* of each endpoint: health, streaks, passive failures, credit
          regime,    \* the configuration, which does not change
          cursor,    \* SelectorState.cursor
          exchange,  \* of each request: where it is in the attempt loop
          live       \* RetryBudget.live

proxyVars == <<backend, regime, cursor, exchange, live>>

NewBackend ==
  [health |-> IF regime.probed THEN "unknown" ELSE "healthy", ok |-> 0, fail |-> 0,
   passive |-> 0, window |-> "none", ejected |-> "no", inflight |-> 0, credit |-> 0]
NoExchange ==
  [pc |-> "none", kind |-> [mode |-> "none", reproducible |-> FALSE, upgrade |-> FALSE],
   key |-> NoKey, attempt |-> 0, at |-> 0, excluded |-> {}, permit |-> FALSE,
   allowed |-> 0, then |-> "none", sends |-> 0]

ProxyInit ==
  /\ regime \in Policies
  /\ backend = [b \in Backends |-> NewBackend]
  /\ cursor = 0
  /\ exchange = [r \in Proxied |-> NoExchange]
  /\ live = 0

-----------------------------------------------------------------------------
(* Health.                                                                 *)

\* Endpoint::is_eligible; a cooldown that is over is cleared by the first to
\* look.
IsEligible(b) ==
  /\ backend[b].health \in {"healthy", "unknown"}
  /\ backend[b].ejected # "yes"
AfterLook ==
  [b \in Backends |->
     IF backend[b].health \in {"healthy", "unknown"} /\ backend[b].ejected = "over"
     THEN [backend[b] EXCEPT !.ejected = "no", !.passive = 0] ELSE backend[b]]

\* EndpointSet::report_probe.
ProbeOk(b) ==
  LET e == backend[b]
      up == e.ok + 1 >= Healthy
  IN [e EXCEPT !.fail = 0,
               !.ok = IF @ < Healthy THEN @ + 1 ELSE @,
               !.health = IF up THEN "healthy" ELSE @,
               !.ejected = IF up THEN "no" ELSE @,
               !.passive = IF up THEN 0 ELSE @]
ProbeFails(b) ==
  [backend[b] EXCEPT !.ok = 0,
                     !.fail = IF @ < Unhealthy THEN @ + 1 ELSE @,
                     !.health = IF backend[b].fail + 1 >= Unhealthy THEN "unhealthy" ELSE @]

\* check: what one address does with a probe.  A TCP check is passed by a
\* connection, an HTTP check by the expected status only.
ProbeResult == {"refused", "late", "other status", "expected"}
ProbePasses(check, result) == result = "expected" \/ (check = "tcp" /\ result = "other status")

\* probe_any: one address that passes is enough, unless another before it used
\* up the budget; a name without addresses does not pass.
ProbeAny(check, results) ==
  \E i \in DOMAIN results :
    ProbePasses(check, results[i]) /\ \A j \in 1..(i - 1) : results[j] # "late"
ProbeOutcomes ==
  {ProbeAny(check, results) : check \in {"tcp", "http"}, results \in UNION {[1..n -> ProbeResult] : n \in 0..2}}

\* One endpoint's part of a round.  Streaks are capped at their threshold.
Probe(b) ==
  /\ regime.probed
  /\ \E passed \in ProbeOutcomes :
       backend' = [backend EXCEPT ![b] = IF passed THEN ProbeOk(b) ELSE ProbeFails(b)]
  /\ UNCHANGED <<regime, cursor, exchange, live>>

\* EndpointSet::drain and undrain.
DrainEndpoint(b) ==
  /\ regime.drains
  /\ backend' = [backend EXCEPT ![b].health = "draining"]
  /\ UNCHANGED <<regime, cursor, exchange, live>>
Undrain(b) ==
  /\ backend[b].health = "draining"
  /\ backend' = [backend EXCEPT ![b].health = NewBackend.health, ![b].ok = 0, ![b].fail = 0]
  /\ UNCHANGED <<regime, cursor, exchange, live>>

\* Time.
WindowPasses(b) ==
  /\ backend[b].window = "open"
  /\ backend' = [backend EXCEPT ![b].window = "none"]
  /\ UNCHANGED <<regime, cursor, exchange, live>>
CooldownPasses(b) ==
  /\ backend[b].ejected = "yes"
  /\ backend' = [backend EXCEPT ![b].ejected = "over"]
  /\ UNCHANGED <<regime, cursor, exchange, live>>

-----------------------------------------------------------------------------
(* The balancer: what select returns for an eligible set of several.       *)

\* The unique member of S that is best, ties broken on identity.
Best(S, Better(_, _)) == CHOOSE b \in S : \A c \in S \ {b} : Better(b, c)
Nth(S, n) == CHOOSE b \in S : Cardinality({c \in S : c < b}) = n

LeastConn(S) ==
  Best(S, LAMBDA b, c : \/ backend[b].inflight < backend[c].inflight
                        \/ backend[b].inflight = backend[c].inflight /\ b < c)
First(S) ==
  Best(S, LAMBDA b, c : Priority[b] < Priority[c] \/ (Priority[b] = Priority[c] /\ b < c))
Rendezvous(S, key) ==
  Best(S, LAMBDA b, c : Score[key][b] > Score[key][c] \/ (Score[key][b] = Score[key][c] /\ b > c))
RoundRobin(S) == Nth(S, cursor % Cardinality(S))

\* weighted_round_robin: every credit grows, the first highest one is paid.
Credited(S) == [b \in S |-> backend[b].credit + Weight[b]]
Highest(S) == Best(S, LAMBDA b, c : Credited(S)[b] > Credited(S)[c] \/ (Credited(S)[b] = Credited(S)[c] /\ b < c))
Total(S) == SumFunctionOnSet(Weight, S)
Paid(S) == [b \in S |-> IF b = Highest(S) THEN Credited(S)[b] - Total(S) ELSE Credited(S)[b]]

\* The endpoints the strategy may name; chance decides between several.
Named(S, key) ==
  CASE Cardinality(S) = 1 -> S
    [] Cardinality(S) > 1 /\ regime.balance = "round-robin" -> {RoundRobin(S)}
    [] Cardinality(S) > 1 /\ regime.balance = "weighted-round-robin" -> {Highest(S)}
    [] Cardinality(S) > 1 /\ regime.balance = "random" -> S
    [] Cardinality(S) > 1 /\ regime.balance = "two-random-choices" ->
         {b \in S : \E c \in S \ {b} : backend[b].inflight <= backend[c].inflight}
    [] Cardinality(S) > 1 /\ regime.balance = "least-conn" -> {LeastConn(S)}
    [] Cardinality(S) > 1 /\ regime.balance = "first" -> {First(S)}
    [] Cardinality(S) > 1 /\ regime.balance = "hash" ->
         {IF key = NoKey THEN RoundRobin(S) ELSE Rendezvous(S, key)}

\* What choosing b from S leaves behind: the cursor, and the credits.
MovedCursor(S, key) ==
  IF /\ Cardinality(S) > 1
     /\ regime.balance = "round-robin" \/ (regime.balance = "hash" /\ key = NoKey)
  THEN (cursor + 1) % CursorSpan ELSE cursor
Claimed(S, b) ==
  [e \in Backends |->
     LET looked == AfterLook[e]
         paid == IF Cardinality(S) > 1 /\ regime.balance = "weighted-round-robin" /\ e \in S
                 THEN [looked EXCEPT !.credit = Paid(S)[e]] ELSE looked
     IN IF e = b THEN [paid EXCEPT !.inflight = @ + 1] ELSE paid]

-----------------------------------------------------------------------------
(* Before the attempts.                                                    *)

Becomes(r, fields) == exchange' = [exchange EXCEPT ![r] = fields]
Retrying(k) == ~k.upgrade /\ k.mode # "none"
Allowed(k) == IF Retrying(k) THEN Attempts ELSE 1
MayReplay(k) == Retrying(k) /\ (k.mode = "ask" \/ (k.mode = "replay" /\ k.reproducible))

\* Only a hash strategy looks for a key.
KeysFound == IF regime.balance = "hash" THEN Keys \cup {NoKey} ELSE {NoKey}

\* An upgrade is never retried, and a body is buffered only to be replayed.
Arrive(r, k, key) ==
  /\ exchange[r].pc = "none"
  /\ Becomes(r, [NoExchange EXCEPT !.pc = "payload", !.kind = k, !.key = key])
  /\ UNCHANGED <<backend, regime, cursor, live>>

\* payload: reading a body that is to be buffered may fail.
Prepared(r) ==
  /\ exchange[r].pc = "payload"
  /\ Becomes(r, [exchange[r] EXCEPT !.pc = "select", !.attempt = 1])
  /\ UNCHANGED <<backend, regime, cursor, live>>

Done == [NoExchange EXCEPT !.pc = "answered"]

BadBody(r) ==
  /\ exchange[r].pc = "payload"
  /\ MayReplay(exchange[r].kind) /\ exchange[r].kind.mode = "replay"
  /\ Becomes(r, Done)
  /\ UNCHANGED <<backend, regime, cursor, live>>

-----------------------------------------------------------------------------
(* The retry budget: claimed first, checked after.                         *)

Larger(a, b) == IF a > b THEN a ELSE b
InFlight == SumFunction([b \in Backends |-> backend[b].inflight])
Budget == IF Percent = 0 THEN 0 ELSE Larger(RetryFloor, (InFlight * Percent) \div 100)

TakeRetry(r) ==
  /\ exchange[r].pc = "retry"
  /\ live' = live + 1
  /\ Becomes(r, [exchange[r] EXCEPT !.pc = "budget", !.allowed = Budget])
  /\ UNCHANGED <<backend, regime, cursor>>

\* The claim is counted in what it is compared with.
MayRetryOne(r) == live - 1 <= exchange[r].allowed  \* mutant: the count before the claim
MayRetry(r) == live <= exchange[r].allowed

RetryGranted(r) ==
  /\ exchange[r].pc = "budget"
  /\ MayRetry(r)
  /\ Becomes(r, [exchange[r] EXCEPT !.pc = "select", !.permit = TRUE])
  /\ UNCHANGED <<backend, regime, cursor, live>>

RetryRefused(r) ==
  /\ exchange[r].pc = "budget"
  /\ ~MayRetry(r)
  /\ live' = live - 1
  /\ Becomes(r, Done)
  /\ UNCHANGED <<backend, regime, cursor>>

-----------------------------------------------------------------------------
(* One attempt.                                                            *)

Candidates(r) == {b \in Backends : IsEligible(b)} \ exchange[r].excluded

SelectEndpoint(r) ==
  \E b \in Named(Candidates(r), exchange[r].key) :
    /\ backend' = Claimed(Candidates(r), b)
    /\ cursor' = MovedCursor(Candidates(r), exchange[r].key)
    /\ Becomes(r, [exchange[r] EXCEPT !.pc = "checkout", !.at = b])

Select(r) ==
  /\ exchange[r].pc = "select"
  /\ Candidates(r) # {}
  /\ SelectEndpoint(r)
  /\ UNCHANGED <<regime, live>>

\* Leaves the loop and drops what this attempt holds.
Permits(r) == IF exchange[r].permit THEN 1 ELSE 0
NoneLeftWaits(r) ==  \* mutant: waits for one instead of answering
  /\ exchange[r].pc = "select"
  /\ Candidates(r) = {}
  /\ backend' = AfterLook
  /\ UNCHANGED <<regime, cursor, exchange, live>>

NoneLeft(r) ==
  /\ exchange[r].pc = "select"
  /\ Candidates(r) = {}
  /\ backend' = AfterLook
  /\ live' = live - Permits(r)
  /\ Becomes(r, Done)
  /\ UNCHANGED <<regime, cursor>>

CheckedOut(r) ==
  /\ exchange[r].pc = "checkout"
  /\ Becomes(r, [exchange[r] EXCEPT !.pc = "sent", !.sends = @ + 1])
  /\ UNCHANGED <<backend, regime, cursor, live>>

\* Nothing was sent yet: another endpoint may be tried whatever the method.
CheckoutFails(r) ==
  /\ exchange[r].pc = "checkout"
  /\ Becomes(r, [exchange[r] EXCEPT !.pc = "window", !.then = "next"])
  /\ UNCHANGED <<backend, regime, cursor, live>>

\* The attempt's slice of the time is used up, or all of it is.
CheckoutTimesOut(r) ==
  /\ exchange[r].pc = "checkout"
  /\ \E then \in IF exchange[r].kind.mode = "ask" THEN {"end"} ELSE {"next", "end"} :
       Becomes(r, [exchange[r] EXCEPT !.pc = then])
  /\ UNCHANGED <<backend, regime, cursor, live>>

\* The request was on the wire: only what can be reproduced is sent again, and
\* a question that timed out is not asked again.
AfterFailureSafe(k) == IF Retrying(k) THEN "next" ELSE "end"  \* mutant: any retry mode will do
AfterFailure(k) == IF MayReplay(k) THEN "next" ELSE "end"

SendFails(r) ==
  /\ exchange[r].pc = "sent"
  /\ Becomes(r, [exchange[r] EXCEPT !.pc = "window", !.then = AfterFailure(exchange[r].kind)])
  /\ UNCHANGED <<backend, regime, cursor, live>>

SendTimesOut(r) ==
  /\ exchange[r].pc = "sent"
  /\ \E then \in IF exchange[r].kind.mode = "ask" THEN {"end"}
                  ELSE {AfterFailure(exchange[r].kind), "end"} :
       Becomes(r, [exchange[r] EXCEPT !.pc = "window", !.then = then])
  /\ UNCHANGED <<backend, regime, cursor, live>>

\* A head arrives.  Its status may count as a failure of the endpoint.
Answered(r, failed) ==
  /\ exchange[r].pc = "sent"
  /\ Becomes(r, [exchange[r] EXCEPT !.pc = IF failed THEN "window" ELSE "body", !.then = "body"])
  /\ UNCHANGED <<backend, regime, cursor, live>>

\* 101: the connection leaves the pool, and the owner of the client's
\* connection gets the tunnel, which holds the endpoint's in-flight guard.  One
\* that cannot be handed over is dropped.
Switched(r) ==
  /\ exchange[r].pc = "sent"
  /\ exchange[r].kind.upgrade
  /\ \E then \in {"tunnel", "end"} :
       Becomes(r, [exchange[r] EXCEPT !.pc = then])
  /\ UNCHANGED <<backend, regime, cursor, live>>

-----------------------------------------------------------------------------
(* EndpointSet::report_traffic of a failure.                               *)

ReportWindow(r) ==
  LET b == exchange[r].at
  IN /\ exchange[r].pc = "window"
     /\ backend' = IF backend[b].window = "open" THEN backend
                   ELSE [backend EXCEPT ![b].window = "open", ![b].passive = 0]
     /\ Becomes(r, [exchange[r] EXCEPT !.pc = "count"])
     /\ UNCHANGED <<regime, cursor, live>>

ReportCount(r) ==
  LET b == exchange[r].at
      fails == backend[b].passive + 1
  IN /\ exchange[r].pc = "count"
     /\ backend' = [backend EXCEPT ![b].passive = IF @ < MaxFails THEN fails ELSE @]
     /\ Becomes(r, [exchange[r] EXCEPT !.pc = IF fails >= MaxFails THEN "eject" ELSE exchange[r].then,
                                       !.then = IF fails >= MaxFails THEN @ ELSE "none"])
     /\ UNCHANGED <<regime, cursor, live>>

ReportEject(r) ==
  LET b == exchange[r].at
  IN /\ exchange[r].pc = "eject"
     /\ backend' = [backend EXCEPT ![b].ejected = IF @ = "no" THEN "yes" ELSE @]
     /\ Becomes(r, [exchange[r] EXCEPT !.pc = exchange[r].then, !.then = "none"])
     /\ UNCHANGED <<regime, cursor, live>>

-----------------------------------------------------------------------------
(* The end of an attempt, of a response body and of a tunnel.              *)

Released(r) == [backend EXCEPT ![exchange[r].at].inflight = @ - 1]

\* A directive's question is asked again without the budget.
Again(k) == IF k.mode = "ask" THEN "select" ELSE "retry"

\* Both guards go with the attempt, before the next one begins.
NextAttemptKept(r) ==  \* mutant: the guard of a failed attempt is kept
  /\ exchange[r].pc = "next"
  /\ exchange[r].attempt < Allowed(exchange[r].kind)
  /\ live' = live - Permits(r)
  /\ Becomes(r, [exchange[r] EXCEPT !.pc = Again(exchange[r].kind), !.attempt = @ + 1, !.permit = FALSE,
                                    !.excluded = @ \cup {exchange[r].at}, !.at = 0])
  /\ UNCHANGED <<backend, regime, cursor>>

NextAttempt(r) ==
  /\ exchange[r].pc = "next"
  /\ exchange[r].attempt < Allowed(exchange[r].kind)
  /\ backend' = Released(r)
  /\ live' = live - Permits(r)
  /\ Becomes(r, [exchange[r] EXCEPT !.pc = Again(exchange[r].kind), !.attempt = @ + 1, !.permit = FALSE,
                                    !.excluded = @ \cup {exchange[r].at}, !.at = 0])
  /\ UNCHANGED <<regime, cursor>>

GivesUp(r) ==
  /\ \/ exchange[r].pc = "end"
     \/ exchange[r].pc = "next" /\ exchange[r].attempt = Allowed(exchange[r].kind)
  /\ backend' = Released(r)
  /\ live' = live - Permits(r)
  /\ Becomes(r, Done)
  /\ UNCHANGED <<regime, cursor>>

\* The body ends, fails, stalls longer than its gap or is dropped; the tunnel
\* is closed, idle, too old, or its connection ends.  The retry permit went
\* when the proxy returned.
Returns(r) ==
  /\ exchange[r].pc \in {"body", "tunnel"}
  /\ exchange[r].permit
  /\ live' = live - 1
  /\ Becomes(r, [exchange[r] EXCEPT !.permit = FALSE])
  /\ UNCHANGED <<backend, regime, cursor>>

Finishes(r) ==
  /\ exchange[r].pc \in {"body", "tunnel"}
  /\ ~exchange[r].permit
  /\ backend' = Released(r)
  /\ Becomes(r, Done)
  /\ UNCHANGED <<regime, cursor, live>>

\* The client goes away while the proxy awaits a checkout or a head.
Cancelled(r) ==
  /\ exchange[r].pc \in {"checkout", "sent"}
  /\ backend' = Released(r)
  /\ live' = live - Permits(r)
  /\ Becomes(r, Done)
  /\ UNCHANGED <<regime, cursor>>

-----------------------------------------------------------------------------
ProxyStep(r) ==
  \/ Prepared(r) \/ BadBody(r)
  \/ TakeRetry(r) \/ RetryGranted(r) \/ RetryRefused(r)
  \/ Select(r) \/ NoneLeft(r)
  \/ CheckedOut(r) \/ CheckoutFails(r) \/ CheckoutTimesOut(r)
  \/ SendFails(r) \/ SendTimesOut(r) \/ Switched(r)
  \/ \E failed \in BOOLEAN : Answered(r, failed)
  \/ ReportWindow(r) \/ ReportCount(r) \/ ReportEject(r)
  \/ NextAttempt(r) \/ GivesUp(r) \/ Returns(r) \/ Finishes(r)

ProxyNext ==
  \/ \E r \in regime.requests :
       \/ \E k \in regime.kinds, key \in KeysFound : Arrive(r, k, key)
       \/ ProxyStep(r) \/ Cancelled(r)
  \/ \E b \in Backends :
       Probe(b) \/ DrainEndpoint(b) \/ Undrain(b) \/ WindowPasses(b) \/ CooldownPasses(b)

ProxySpec == ProxyInit /\ [][ProxyNext]_proxyVars

\* Every await of an attempt is under a deadline, a body under its gap and a
\* tunnel under its lifetime.
ProxyFairness == \A r \in Proxied : WF_proxyVars(ProxyStep(r))

-----------------------------------------------------------------------------
Holding(b) == {r \in Proxied : exchange[r].at = b}

\* However attempts fail, race and are cancelled: an endpoint's in-flight count
\* is the number of requests that hold it, the budget's count the retries under
\* way, and the credits of the weighted rotation always add up to nothing.
ProxyAccounts ==
  /\ \A b \in Backends : backend[b].inflight = Cardinality(Holding(b))
  /\ live = Cardinality({r \in Proxied : exchange[r].permit \/ exchange[r].pc = "budget"})
  /\ SumFunction([b \in Backends |-> backend[b].credit]) = 0

\* What reached a backend is sent again only if it can be reproduced and its
\* configuration asked for that; an upgrade is sent once.
SentAgainOnlyIfReplayable ==
  \A r \in Proxied : exchange[r].sends > 1 => MayReplay(exchange[r].kind) /\ ~exchange[r].kind.upgrade

\* Requests that race for the last retry are not all given it.
RetriesWithinBudget ==
  [][\A r \in Proxied :
       ~exchange[r].permit /\ exchange'[r].permit =>
         Cardinality({s \in Proxied : exchange'[s].permit}) <= exchange[r].allowed]_proxyVars

\* Every request is answered, whatever the backends do.
ProxyAnswers ==
  \A r \in Proxied : exchange[r].pc # "none" ~> exchange[r].pc = "answered"

\* "Taken out deliberately. In-flight requests finish; no new ones start"
\* (Health::Draining, endpoint.rs).  It does not hold where the endpoint is also
\* probed: report_probe does not look whether it drains, and a streak of passed
\* probes makes it healthy again.
DrainingStaysOut ==
  [][\A b \in Backends :
       backend[b].health = "draining" /\ backend'[b].health # "draining" =>
         backend'[b].health = NewBackend.health /\ backend'[b].ok = 0]_proxyVars

\* What attempts that fail, race and are cancelled may not do between them:
\* lose count, or send twice what was to be sent once.
ProxySound == ProxyAccounts /\ SentAgainOnlyIfReplayable

=============================================================================
