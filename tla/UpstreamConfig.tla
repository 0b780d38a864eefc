--------------------------- MODULE UpstreamConfig ---------------------------
(***************************************************************************)
(* Decoding the body of an upstream (gatel-plan upstream/: shape.rs,       *)
(* decode.rs, target.rs, mod.rs).  Every policy is a child node of the     *)
(* body; BadUpstream says whether anything about the body is reported, and *)
(* UpstreamOf what an accepted body decodes to, defaults filled in.        *)
(***************************************************************************)
EXTENDS ConfigNodes, FiniteSets

CONSTANT BalanceDefault   \* the strategy of a body that names none

Strategies == {"round-robin", "weighted-round-robin", "random", "two-random-choices", "least-conn",
               "ip-hash", "uri-hash", "header-hash", "cookie-hash", "first"}

\* ---- the policies' shapes and defaults
DurationsOf(keys) == [k \in keys |-> "duration"]
TimeoutKeys == {"queue", "connect", "response-head", "body-idle", "overall", "upgrade-idle",
                "upgrade-duration"}
TimeoutsNode == Shape(<<>>, DurationsOf(TimeoutKeys), {})
DefaultTimeouts == [queue |-> 2000, connect |-> 5000, head |-> 10000, idle |-> 60000,
                    overall |-> 300000, upgradeIdle |-> 300000, upgrade |-> 86400000]
PoolNode == Shape(<<>>, [k \in {"max-per-endpoint", "max-idle-per-endpoint", "max-waiters",
                                "max-h2-streams-per-connection", "max-h2-streams-per-endpoint",
                                "idle-timeout", "max-lifetime"} |->
                          IF k \in {"idle-timeout", "max-lifetime"} THEN "duration" ELSE "u32"], {})
DefaultPool == [most |-> 32, idle |-> 8, waiters |-> 256, perConnection |-> 128, perEndpoint |-> 128,
                idleTimeout |-> 30000, lifetime |-> 300000]
RetryNode == Shape(<<>>, [k \in {"mode", "attempts", "per-try", "buffer", "budget-percent"} |->
                           CASE k = "mode" -> "string" [] k = "per-try" -> "duration"
                             [] k = "buffer" -> "size" [] OTHER -> "u32"], {})
HealthNode == Shape(<<"string">>,
                    [k \in {"path", "host", "status", "interval", "timeout", "jitter",
                            "healthy-threshold", "unhealthy-threshold"} |->
                      CASE k \in {"path", "host"} -> "string"
                        [] k \in {"interval", "timeout", "jitter"} -> "duration"
                        [] OTHER -> "u32"], {})
PassiveHealthNode == Shape(<<>>, [k \in {"max-fails", "window", "cooldown", "unhealthy-status"} |->
                                   CASE k = "max-fails" -> "u32" [] k = "unhealthy-status" -> "string"
                                     [] OTHER -> "duration"], {})
ResolveNode == Shape(<<>>, [k \in {"interval", "timeout", "family"} |->
                             IF k = "family" THEN "string" ELSE "duration"], {})
EndpointNode == Shape(<<"string">>, [k \in {"id", "weight", "priority"} |->
                                      CASE k = "id" -> "string" [] k = "weight" -> "u32"
                                        [] OTHER -> "i32"], {})

\* ---- shape.rs: the form of the body's children, before any is decoded
ShapeBad(n) ==
    \/ n.props # <<>>
    \/ \E i, j \in DOMAIN n.kids : i < j /\ n.kids[i].name = n.kids[j].name /\ n.kids[i].name # "endpoint"
    \/ \E i \in DOMAIN n.kids :
          LET k == n.kids[i] IN
          /\ k.name \in {"balance", "protocol", "tls"}
          /\ \/ Len(k.args) # IF k.name = "tls" THEN 0 ELSE 1
             \/ k.kids # <<>>
             \/ \E a, b \in DOMAIN k.props : a < b /\ k.props[a].name = k.props[b].name
             \/ k.name = "protocol" /\ k.props # <<>>
             \/ k.name = "tls" /\ \E s \in Prop(k, "server-name") : ~Given(AsStr(s))

\* ---- target.rs
CheckHost(v) == v.valid
\* What an address spells: a socket path, a numeric address, or a name to look up.
ParseTarget(v) ==
    CASE v.kind = "socket"  -> IF v.path # "" THEN {[to |-> "unix", at |-> v.path, port |-> 0]} ELSE {}
      [] v.kind = "address" ->
            IF v.numeric THEN {[to |-> "address", at |-> a.ip, port |-> a.port] : a \in ParseSocketAddr(v)}
            ELSE IF v.port # 0 /\ CheckHost(v) THEN {[to |-> "name", at |-> v.ip, port |-> v.port]} ELSE {}
      [] OTHER -> {}
Describe(target) == <<target.at, target.port>>
IsName(target) == target.to = "name"

EndpointId(k) == LET t == Read(ParseTarget(Read(ReadArg(EndpointNode, k, 1))))
                 IN  OrElse({<<v.w, 0>> : v \in ReadProp(EndpointNode, k, "id")}, Describe(t))
EndpointRefused(k) ==
    \/ Misread(EndpointNode, k)
    \/ ~Given(ParseTarget(Read(ReadArg(EndpointNode, k, 1))))
    \/ OrElse(ReadProp(EndpointNode, k, "weight"), 1) = 0
EndpointOf(k) == [id       |-> EndpointId(k),
                  target   |-> Read(ParseTarget(Read(ReadArg(EndpointNode, k, 1)))),
                  weight   |-> OrElse(ReadProp(EndpointNode, k, "weight"), 1),
                  priority |-> OrElse(ReadProp(EndpointNode, k, "priority"), 0)]
EndpointsBad(n) ==
    LET ks == ChildrenNamed(n, "endpoint") IN
    \/ ks = <<>>
    \/ \E i \in DOMAIN ks : EndpointRefused(ks[i])
    \/ \E i, j \in DOMAIN ks : i < j /\ EndpointId(ks[i]) = EndpointId(ks[j])
EndpointsOf(n) == LET ks == ChildrenNamed(n, "endpoint") IN [i \in DOMAIN ks |-> EndpointOf(ks[i])]
\* A certificate name is implied only when every backend is the same name.
SoleHost(n) ==
    LET es == EndpointsOf(n) IN
    IF \A i \in DOMAIN es : IsName(es[i].target) /\ es[i].target.at = es[1].target.at
    THEN {es[1].target.at} ELSE {}

\* ---- mod.rs: the policies
BalanceKey(k, key) == {v \in PropStr(k, key) : v.w # ""}
BalanceBad(k) ==
    \/ ~Given(ArgStr(k, 1))
    \/ \E v \in ArgStr(k, 1) :
          \/ v.w \notin Strategies
          \/ v.w = "header-hash" /\ (~Given(BalanceKey(k, "header")) \/ PropNames(k) # {"header"})
          \/ v.w = "cookie-hash" /\ (~Given(BalanceKey(k, "cookie")) \/ PropNames(k) # {"cookie"})
          \/ v.w \notin {"header-hash", "cookie-hash"} /\ k.props # <<>>
BalanceOf(k) == [strategy |-> Read(ArgStr(k, 1)).w,
                 key |-> BalanceKey(k, "header") \cup BalanceKey(k, "cookie")]

TimeoutsOf(k) ==
    LET d == DefaultTimeouts
        r(key, base) == OrElse(ReadProp(TimeoutsNode, k, key), base)
    IN  [queue |-> r("queue", d.queue), connect |-> r("connect", d.connect),
         head |-> r("response-head", d.head), idle |-> r("body-idle", d.idle),
         overall |-> r("overall", d.overall), upgradeIdle |-> r("upgrade-idle", d.upgradeIdle),
         upgrade |-> r("upgrade-duration", d.upgrade)]
TimeoutsConflict(t) == t.overall < t.queue + t.connect + t.head \/ t.upgrade < t.upgradeIdle
TimeoutsBad(k) == Misread(TimeoutsNode, k) \/ TimeoutsConflict(TimeoutsOf(k))

PoolOf(k) ==
    LET d == DefaultPool
        r(key, base) == OrElse(ReadProp(PoolNode, k, key), base)
    IN  [most |-> r("max-per-endpoint", d.most), idle |-> r("max-idle-per-endpoint", d.idle),
         waiters |-> r("max-waiters", d.waiters),
         perConnection |-> r("max-h2-streams-per-connection", d.perConnection),
         perEndpoint |-> r("max-h2-streams-per-endpoint", d.perEndpoint),
         idleTimeout |-> r("idle-timeout", d.idleTimeout), lifetime |-> r("max-lifetime", d.lifetime)]
PoolBad(k) ==
    \/ Misread(PoolNode, k)
    \/ LET p == PoolOf(k) IN p.most = 0 \/ p.idle > p.most \/ p.perConnection = 0 \/ p.perEndpoint = 0

RetryModes == {"safe", "replay"}
RetryMode(k) == OrElse({v.w : v \in ReadProp(RetryNode, k, "mode")}, "safe")
RetryOf(k) == [mode |-> RetryMode(k), attempts |-> OrElse(ReadProp(RetryNode, k, "attempts"), 2),
               perTry |-> OrElse(ReadProp(RetryNode, k, "per-try"), 5000),
               buffer |-> OrElse(ReadProp(RetryNode, k, "buffer"), 0),
               budget |-> OrElse(ReadProp(RetryNode, k, "budget-percent"), 20)]
RetryBad(k) ==
    \/ Misread(RetryNode, k)
    \/ RetryMode(k) \notin RetryModes
    \/ RetryMode(k) = "replay" /\ ~Given(ReadProp(RetryNode, k, "buffer"))
    \/ LET r == RetryOf(k) IN r.attempts \notin 1..5 \/ r.budget > 100 \/ r.perTry = 0

HealthKind(k) == Read(ReadArg(HealthNode, k, 1)).w
HealthOf(k) ==
    LET r(key, base) == OrElse(ReadProp(HealthNode, k, key), base) IN
    [kind |-> IF HealthKind(k) = "http" THEN "http" ELSE "tcp",
     interval |-> r("interval", 5000), timeout |-> r("timeout", 2000),
     healthy |-> r("healthy-threshold", 1), unhealthy |-> r("unhealthy-threshold", 2),
     status |-> r("status", 200), jitter |-> r("jitter", r("interval", 5000) \div 10)]
HealthBad(k) ==
    \/ Misread(HealthNode, k)
    \/ HealthKind(k) \notin {"tcp", "tcp-connect", "http"}
    \/ HealthKind(k) = "http" /\ ~\E v \in ReadProp(HealthNode, k, "path") : v.kind = "path" /\ v.rooted
    \/ HealthKind(k) # "http" /\ PropNames(k) \cap {"path", "status", "host"} # {}
    \/ LET h == HealthOf(k) IN
       \/ h.interval = 0 \/ h.timeout = 0 \/ h.healthy = 0 \/ h.unhealthy = 0
       \/ h.status \notin 100..599 \/ h.timeout > h.interval

PassiveOf(k) == [fails |-> OrElse(ReadProp(PassiveHealthNode, k, "max-fails"), 5),
                 window |-> OrElse(ReadProp(PassiveHealthNode, k, "window"), 30000),
                 cooldown |-> OrElse(ReadProp(PassiveHealthNode, k, "cooldown"), 60000),
                 statuses |-> OrElse({v.codes : v \in ReadProp(PassiveHealthNode, k, "unhealthy-status")},
                                     <<502, 503, 504>>)]
PassiveBad(k) ==
    \/ Misread(PassiveHealthNode, k)
    \/ PassiveOf(k).fails = 0
    \/ LET s == PassiveOf(k).statuses IN \E i \in DOMAIN s : s[i] \notin 100..599

ProtocolBad(k) == ~\E v \in ArgStr(k, 1) : v.w \in {"http1", "http2"}

Families == {"any", "ipv4", "ipv6"}
ResolveOf(k) == [interval |-> OrElse(ReadProp(ResolveNode, k, "interval"), 30000),
                 timeout |-> OrElse(ReadProp(ResolveNode, k, "timeout"), 5000),
                 family |-> OrElse({v.w : v \in ReadProp(ResolveNode, k, "family")}, "any")]
ResolveBad(n, k) ==
    \/ Misread(ResolveNode, k)
    \/ LET r == ResolveOf(k) IN
       r.family \notin Families \/ r.interval = 0 \/ r.timeout > r.interval
    \/ ~\E i \in DOMAIN EndpointsOf(n) : IsName(EndpointsOf(n)[i].target)

\* A property that is not a string is neither a reference nor an error.
SecretProperty(k, key) == UNION {ParseSecret(v) : v \in PropStr(k, key)}
SecretBad(k, key) == Given(PropStr(k, key)) /\ ~Given(SecretProperty(k, key))
ServerName(n, k) == IF Given(PropStr(k, "server-name"))
                    THEN {v.w : v \in PropStr(k, "server-name")} ELSE SoleHost(n)
TlsBad(n, k) ==
    \/ ~Given(ServerName(n, k))
    \/ PropNames(k) \ {"server-name", "ca", "client-cert", "client-key"} # {}
    \/ \E key \in {"ca", "client-cert", "client-key"} : SecretBad(k, key)
    \/ Given(SecretProperty(k, "client-cert")) # Given(SecretProperty(k, "client-key"))
UpstreamTls(n, k) == [name |-> Read(ServerName(n, k)), ca |-> SecretProperty(k, "ca"),
                      cert |-> SecretProperty(k, "client-cert"), key |-> SecretProperty(k, "client-key")]

\* ---- decode_upstream_body
UpstreamKnown == {"endpoint", "balance", "timeouts", "pool", "retry", "health", "passive-health",
                  "protocol", "resolve", "tls"}
BadUpstream(n) ==
    \/ ShapeBad(n)
    \/ EndpointsBad(n)
    \/ \E k \in Child(n, "balance") : BalanceBad(k)
    \/ \E k \in Child(n, "timeouts") : TimeoutsBad(k)
    \/ \E k \in Child(n, "pool") : PoolBad(k)
    \/ \E k \in Child(n, "retry") : RetryBad(k)
    \/ \E k \in Child(n, "health") : HealthBad(k)
    \/ \E k \in Child(n, "passive-health") : PassiveBad(k)
    \/ \E k \in Child(n, "protocol") : ProtocolBad(k)
    \/ \E k \in Child(n, "resolve") : ResolveBad(n, k)
    \/ \E k \in Child(n, "tls") : TlsBad(n, k)
    \/ KidNames(n) \ UpstreamKnown # {}
UpstreamOf(n, id, owner) ==
    [id |-> id, owner |-> owner, endpoints |-> EndpointsOf(n),
     balance  |-> OrElse({BalanceOf(k) : k \in Child(n, "balance")},
                         [strategy |-> BalanceDefault, key |-> {}]),
     timeouts |-> OrElse({TimeoutsOf(k) : k \in Child(n, "timeouts")}, DefaultTimeouts),
     pool     |-> OrElse({PoolOf(k) : k \in Child(n, "pool")}, DefaultPool),
     retry    |-> {RetryOf(k) : k \in Child(n, "retry")},
     health   |-> {HealthOf(k) : k \in Child(n, "health")},
     passive  |-> {PassiveOf(k) : k \in Child(n, "passive-health")},
     protocol |-> OrElse({Read(ArgStr(k, 1)).w : k \in Child(n, "protocol")}, "http1"),
     tls      |-> {UpstreamTls(n, k) : k \in Child(n, "tls")},
     resolve  |-> OrElse({ResolveOf(k) : k \in Child(n, "resolve")},
                         [interval |-> 30000, timeout |-> 5000, family |-> "any"])]

\* Upstream::hash_into: the order of the endpoints is not part of the identity.
EndpointsPrint(endpoints) == {endpoints[i] : i \in DOMAIN endpoints}
UpstreamPrint(u) == [u EXCEPT !.endpoints = EndpointsPrint(@)]
\* What a connection to the upstream depends on (collect_bindings).
TransportPrint(u) == [ends |-> {<<u.endpoints[i].id, Describe(u.endpoints[i].target)>> : i \in DOMAIN u.endpoints},
                      protocol |-> u.protocol, tls |-> u.tls]
=============================================================================
