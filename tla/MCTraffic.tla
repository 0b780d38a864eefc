----------------------------- MODULE MCTraffic -----------------------------
(***************************************************************************)
(* Model-checking instance of a request's way through the process: the     *)
(* connection it arrives on (Exchange), the choice of a backend and its    *)
(* retries (Proxying), and the pool of connections to that backend (Pool). *)
(* A behaviour is one of one of them.                                      *)
(***************************************************************************)
EXTENDS Exchange, Proxying, Pool

CONSTANTS r1, r2  \* requests

VARIABLE component  \* whose behaviour this is

trafficVars == <<component, linkVars, proxyVars, poolVars>>

\* A port behind a proxy with TLS, and a plain one where two requests meet.
Port(proxied, tls, slots) == [proxied |-> proxied, tls |-> tls, slots |-> slots]
MCPorts == {Port(TRUE, TRUE, {1}), Port(FALSE, FALSE, {1, 2})}

\* Every balancing policy; requests that race for a retry where endpoints have
\* credits, probes and drains where a single request meets them.
Message(mode, reproducible, upgrade) == [mode |-> mode, reproducible |-> reproducible, upgrade |-> upgrade]
Regime(balance, managed, requests, kinds) ==
  [balance |-> balance, probed |-> managed, drains |-> managed, requests |-> requests, kinds |-> kinds]
MCPolicies ==
  {Regime("round-robin", TRUE, {r1},
          {Message("safe", FALSE, TRUE), Message("ask", TRUE, FALSE)})}
  \cup {Regime(b, FALSE, {r1}, {Message("replay", FALSE, FALSE)})
     : b \in {"hash", "random", "first", "least-conn", "two-random-choices"}}
  \cup {Regime("weighted-round-robin", FALSE, {r1, r2}, {Message("replay", TRUE, FALSE)})}
MCWeight == [b \in Backends |-> b]
MCPriority == [b \in Backends |-> 1]
MCScore == [k \in Keys |-> [b \in Backends |-> IF k = "k" THEN b ELSE 0 - b]]

\* Limits that shrink below what is in use, that leave room, and that stop
\* parking; a name that moves from one address to another.
PoolLimits(max, idle, waiters, parks) == [max |-> max, idle |-> idle, waiters |-> waiters, parks |-> parks]
MCPoolFirst == PoolLimits(2, 2, 3, TRUE)
MCPoolConfigs == {MCPoolFirst, PoolLimits(1, 1, 2, TRUE), PoolLimits(1, 2, 3, FALSE)}
MCAnswers == {{"a"}, {"b"}}

TrafficInit ==
  /\ component \in {"link", "proxy", "pool"}
  /\ ExchangeInit /\ ProxyInit /\ PoolInit
  /\ component # "link" => link.port.slots = {1} /\ link.source = "far"
  /\ component # "proxy" => regime.balance = "hash"

TrafficNext ==
  /\ UNCHANGED component
  /\ \/ component = "link" /\ LinkNext /\ UNCHANGED <<proxyVars, poolVars>>
     \/ component = "proxy" /\ ProxyNext /\ UNCHANGED <<linkVars, poolVars>>
     \/ component = "pool" /\ PoolNext /\ UNCHANGED <<linkVars, proxyVars>>

\* The task of a connection runs, and its owner keeps the deadline it set (see
\* Server); no client has to send, read or leave.
LinkFairness == WF_linkVars(component = "link" /\ Begin) /\ WF_linkVars(NeverServed) /\ WF_linkVars(Aborted)

\* No other fair action is enabled in its component's first state, where the rest
\* of the behaviours leave it.
TrafficSpec ==
  /\ TrafficInit /\ [][TrafficNext]_trafficVars
  /\ LinkFairness /\ ProxyFairness /\ PoolFairness

\* A connection told to stop ends, a request is answered whatever the backends
\* do, and a caller queued for a pool's permit is given one.
TrafficProceeds == StopEnds /\ ProxyAnswers /\ PoolServesWaiters
=============================================================================
