----------------------------- MODULE Middleware -----------------------------
(***************************************************************************)
(* Requests walking a chain of standard directives and back                *)
(* (gatel-bundle-std): every handler's part before call_next and after it, *)
(* the terminals, and the state handlers share, the buckets of a rate      *)
(* limit and the files on the disk.                                        *)
(*                                                                         *)
(* FlowCtrl keeps a cursor.  call_next runs handlers from the cursor on    *)
(* until none is left, so a handler that answers must move the cursor to   *)
(* the end; skip_rest does.  A request holds the chain it started with,    *)
(* and stops wherever a handler awaits: there a timeout may drop the rest, *)
(* a file change, or the client leave.                                     *)
(***************************************************************************)
EXTENDS Files

CONSTANTS Callers,     \* requests
          Questions,   \* what they ask
          Configs,     \* configurations: sequences of [scope, node], the terminal last
          Replies,     \* what a backend answers
          Verdicts,    \* what an authorisation service answers
          Tree,        \* directories and links
          FirstDisk,   \* the files at the start
          Edited,      \* those somebody changes meanwhile
          Scale,       \* parts of a token
          MaxClock, MaxWrites, MaxReloads

ASSUME MiddlewareAssumption == Scale \in Nat \ {0} /\ {MaxClock, MaxWrites, MaxReloads} \subseteq Nat

VARIABLES run,       \* of each request: where it is, its chain and its answer
          serving,   \* the configuration in force
          quotas,    \* every Buckets object ever made
          granted,   \* history: requests each key of each Buckets was granted
          clock,
          disk,
          writes     \* changes of files so far

midVars == <<run, serving, quotas, granted, clock, disk, writes>>

-----------------------------------------------------------------------------
(* Building a chain.                                                       *)

DecodedDirective(e) ==
    [name |-> e.node.name, scope |-> e.scope, order |-> StdMeta[e.node.name].order,
     config |-> StdConfig(e.node)]
ConfigBad(config) ==
    \/ \E e \in Elements(config) : ~Allows(StdMeta[e.node.name], e.scope) \/ StdBad(e.node)
    \/ \E e \in Elements(config) : BuildBad(DecodedDirective(e))
ChainOf(config) ==
    LET all == [i \in DOMAIN config |-> DecodedDirective(config[i])]
    IN  Append(OrderedChain(Front(all)), Last(all))
\* The configurations that are accepted, and their chains.
Built == [config \in {c \in Configs : ~ConfigBad(c)} |-> ChainOf(config)]
LimitsIn(chain) == {i \in DOMAIN chain : chain[i].name = "rate-limit"}
\* The buckets a chain asks for: the rate limit it has (one at most in the chains here), with what
\* must not change.
Quota(chain) == {<<chain[i].scope, BucketsOf(chain[i].config)>> : i \in LimitsIn(chain)}
\* A chain ends with its terminal, and sizes are numbers.
ASSUME MiddlewareSizes ==
    /\ \A config \in DOMAIN Built :
          /\ Built[config] # <<>> /\ Built[config] \in Seq(Elements(Built[config]))
          /\ \A d \in Elements(Built[config]) : d.name = "body-limit" => d.config.max \in Nat
    /\ \A q \in Questions : {"frames", "headers", "path"} \subseteq DOMAIN q /\ q.frames \in Seq(Nat)
    /\ \A reply \in Replies : "of" \in DOMAIN reply.body /\ reply.body.of = "backend"
NewBuckets == [inner |-> <<>>, evicted |-> FALSE]

NoHeaders == <<>>
NoBody == [of |-> "none", coding |-> "identity", len |-> 0, stream |-> FALSE]
NoRun == [pc |-> "idle", chain |-> <<>>, quota |-> 0, at |-> 1, stack |-> <<>>,
          q |-> CHOOSE q \in Questions : TRUE,
          depot |-> [generated |-> FALSE, selected |-> FALSE, offers |-> <<>>, layers |-> <<>>, limits |-> {}],
          res |-> [status |-> 200, headers |-> NoHeaders, body |-> NoBody],
          file |-> [path |-> <<>>, source |-> <<>>, coding |-> {}, transform |-> FALSE,
                    opened |-> [len |-> 0, mtime |-> 0, ino |-> 0], want |-> WholeFile],
          refused |-> 0, timedOut |-> FALSE, received |-> -1, from |-> "none",
          started |-> {}, pending |-> {}, lines |-> <<>>]

MidInit ==
    /\ run = [c \in Callers |-> NoRun]
    /\ \E config \in DOMAIN Built : serving = [chain |-> Built[config], quota |-> 1, reloads |-> 0]
    /\ quotas = <<NewBuckets>>
    /\ granted = <<<<>>>>
    /\ clock = 0
    /\ disk = FirstDisk
    /\ writes = 0

\* A reload: a configuration that is refused changes nothing; one that is not keeps the
\* buckets when what they depend on is the same.
Installs(chain) ==
    LET keep == Quota(chain) = Quota(serving.chain)
    IN  /\ serving' = [chain |-> chain, quota |-> IF keep THEN serving.quota ELSE Len(quotas) + 1,
                       reloads |-> serving.reloads + 1]
        /\ quotas' = IF keep THEN quotas ELSE Append(quotas, NewBuckets)
        /\ granted' = IF keep THEN granted ELSE Append(granted, <<>>)
Reload(config) ==
    /\ serving.reloads < MaxReloads
    /\ \/ config \in DOMAIN Built /\ Installs(Built[config])
       \/ /\ config \notin DOMAIN Built
          /\ serving' = [serving EXCEPT !.reloads = @ + 1]
          /\ UNCHANGED <<quotas, granted>>
    /\ UNCHANGED <<run, clock, disk, writes>>

-----------------------------------------------------------------------------
(* FlowCtrl, and the ways a handler ends.                                  *)

InsertHeader(h, n, v) == [k \in DOMAIN h \cup {n} |-> IF k = n THEN {v} ELSE h[k]]
AppendHeader(h, n, v) ==
    [k \in DOMAIN h \cup {n} |-> IF k = n THEN {v} \cup (IF n \in DOMAIN h THEN h[n] ELSE {}) ELSE h[k]]
DropHeaders(h, names) == [k \in DOMAIN h \ names |-> h[k]]
HeaderOf(h, n) == IF n \in DOMAIN h THEN h[n] ELSE {}
WithHeader(r, n, v) == [r EXCEPT !.res.headers = InsertHeader(@, n, v)]
TextBody(of, len) == [of |-> of, coding |-> "identity", len |-> len, stream |-> FALSE]

Ended(r) == Len(r.chain) + 1
\* A handler returned: its caller's loop goes on from the cursor, or returns itself.
Returns(r) ==
    [r EXCEPT !.pc = IF r.at <= Len(r.chain) THEN "down" ELSE IF r.stack # <<>> THEN "up" ELSE "answered"]
\* What a handler keeps while the rest of the chain runs: the request and the depot as it found them,
\* and the tokens a rate limit left.
Frame(r) == [at |-> r.at, q |-> r.q, depot |-> r.depot, remaining |-> 0]
CallNext(frame, r) == Returns([r EXCEPT !.stack = Append(@, frame), !.at = @ + 1])
Passes(r) == CallNext(Frame(r), r)
\* The gateway answers, not a backend.
Generated(r) == [r EXCEPT !.depot.generated = TRUE]
RefusesOn(r, status) ==  \* mutant: skip_rest is forgotten
    Returns([Generated(r) EXCEPT !.at = @ + 1, !.res.status = status,
                      !.res.body = TextBody("refusal", 4), !.refused = status])
Refuses(r, status) ==
    Returns([Generated(r) EXCEPT !.at = Ended(r), !.res.status = status,
                      !.res.body = TextBody("refusal", 4), !.refused = status])
\* Answered in passing, with nothing wrong: a redirect, a preflight.
Diverts(r, status) == Returns([r EXCEPT !.at = Ended(r), !.res.status = status, !.refused = status])
Finishes(r, status, of, len) ==
    Returns([r EXCEPT !.at = Ended(r), !.res.status = status, !.res.body = TextBody(of, len), !.from = of])

-----------------------------------------------------------------------------
(* On the way in.                                                          *)

IpPermits(c, q) ==
    \E ip \in q.ip : /\ \A net \in c.deny : ~InNetwork(ip, net)
                     /\ c.allow = {} \/ \E net \in c.allow : InNetwork(ip, net)
IpFilterDown(r, c) == IF IpPermits(c, r.q) THEN Passes(r) ELSE Refuses(r, 403)

\* The limit is on record first; Content-Length is checked at once, what arrives is counted as it is read.
BodyLimitDown(r, c) ==
    LET installed == [r EXCEPT !.depot.limits = @ \cup {c.max}] IN
    IF \E n \in r.q.declared : n > c.max THEN Refuses(installed, 413) ELSE Passes(installed)
Size(frames, n) == SumFunctionOnSet(frames, 1..n)
LimitedPrefix(frames, max) ==
    CHOOSE n \in 0..Len(frames) :
        Size(frames, n) <= max /\ (n = Len(frames) \/ Size(frames, n + 1) > max)

\* trim_end_matches('/')
TrimEnd(path) ==
    SubSeq(path, 1, CHOOSE n \in 0..Len(path) :
                        (\A i \in (n + 1)..Len(path) : path[i] = "/") /\ (n = 0 \/ path[n] # "/"))
CanonicalPath(c, path) ==
    LET last == Last(Segments(path))
        file == last # <<>> /\ last[1] # "." /\ \E i \in DOMAIN last : last[i] = "."
    IN  CASE path \in {<<>>, <<"/">>} -> {}
          [] c.style = "add" /\ Last(path) # "/" /\ ~file -> {Append(path, "/")}
          [] c.style = "remove" /\ Last(path) = "/" -> {TrimEnd(path)}
          [] OTHER -> {}
\* local_redirect.rs: one slash in front, and no backslash a browser would take for one.
LocalLocation(path) ==
    LET rest == SubSeq(path, Cardinality(Slashes(path)) + 1, Len(path)) IN
    <<"/">> \o [i \in DOMAIN rest |-> IF rest[i] = "\\" THEN "%5C" ELSE rest[i]]
TrailingSlashDown(r, c) ==
    IF CanonicalPath(c, r.q.path) = {} THEN Passes(r)
    ELSE Diverts(WithHeader(r, "location", LocalLocation(Read(CanonicalPath(c, r.q.path)))), 308)
\* The host comes from the authority, without its port.
HttpsLocation(c, q) == <<"https", OrElse(c.port \ {443}, "no port")>> \o q.path
ForceHttpsDown(r, c) ==
    CASE r.q.tls -> Passes(r)
      [] ~r.q.tls /\ ~r.q.hasHost -> Refuses(r, 400)
      [] OTHER -> Diverts(WithHeader(r, "location", HttpsLocation(c, r.q)), c.status)

Origins(c, q) == {o \in q.origin : c.any \/ o \in c.exact}
AllowOrigin(r, q, c) ==
    LET o == Origins(c, q)
        allow == IF c.any /\ ~c.credentials THEN "*" ELSE Read(o)
        said == WithHeader(r, "access-control-allow-origin", allow)
    IN  CASE o = {} -> r
          [] o # {} /\ c.credentials -> WithHeader(said, "access-control-allow-credentials", "true")
          [] OTHER -> said
\* vary::append keeps what is there; a star stands for every name.
Varied(r, name) ==
    LET names == HeaderOf(r.res.headers, "vary") IN
    [r EXCEPT !.res.headers = [k \in DOMAIN @ \cup {"vary"} |->
        IF k # "vary" THEN @[k] ELSE IF "*" \in names THEN {"*"} ELSE names \cup {name}]]
\* A header that is written when there is something to write.
WithOptional(r, n, values) == IF values = {} THEN r ELSE WithHeader(r, n, Read(values))
Preflight(r, c) ==
    LET asked   == Varied(Varied(r, "access-control-request-method"), "access-control-request-headers")
        methods == WithHeader(AllowOrigin(asked, r.q, c), "access-control-allow-methods", OrElse(c.methods, "default"))
    IN  IF Origins(c, r.q) = {} THEN asked
        ELSE WithOptional(WithOptional(methods, "access-control-allow-headers", c.headers),
                          "access-control-max-age", c.max)
CorsDown(r, c) ==
    LET varied == Varied(r, "origin") IN
    IF r.q.method = "OPTIONS" /\ r.q.preflight THEN Diverts(Preflight(varied, c), 204) ELSE Passes(varied)

\* is_reasonable: "junk" is an id that is too long or has other characters.  Ids of ours are not told
\* apart.
RequestIdDown(r, c) ==
    LET theirs == IF c.trust THEN HeaderOf(r.q.headers, c.header) \ {"junk"} ELSE {}
        id == OrElse(theirs, "ours")
    IN  Passes([WithHeader(r, c.header, id) EXCEPT !.q.headers = InsertHeader(@, c.header, id)])
StripPrefix(path, prefix) ==
    IF IsPrefix(prefix, path)
    THEN LET rest == SubSeq(path, Len(prefix) + 1, Len(path)) IN
         IF rest # <<>> /\ rest[1] = "/" THEN rest ELSE <<"/">> \o rest
    ELSE path
RewritePath(c, path) ==
    LET stripped == IF Given(c["strip-prefix"]) THEN StripPrefix(path, Read(c["strip-prefix"])) ELSE path
    IN  CASE Given(c["to"]) -> Read(c["to"])
          [] ~Given(c["to"]) /\ Given(c["prefix"]) -> TrimEnd(Read(c["prefix"])) \o stripped
          [] OTHER -> stripped
RewriteDown(r, c) == Passes([r EXCEPT !.q.path = RewritePath(c, @)])

ApplyOps(ops, h) ==
    FoldLeft(LAMBDA to, o : CASE o.op = "set"    -> InsertHeader(to, o.name, Read(o.value))
                              [] o.op = "add"    -> AppendHeader(to, o.name, Read(o.value))
                              [] o.op = "remove" -> DropHeaders(to, {o.name}), h, ops)
HeadersDown(r, c) ==
    CallNext(Frame(r), [r EXCEPT !.q.headers = ApplyOps(c.request, @), !.depot.layers = Append(@, c.response)])
EncodeDown(r, c) ==
    CallNext(Frame(r), [r EXCEPT !.depot.offers =
                          [i \in DOMAIN c.codings |-> [coding |-> c.codings[i], min |-> c.min]] \o @])
AccessLogDown(r) == Passes([r EXCEPT !.started = @ \cup {r.at}])

\* Basic credentials that are not exactly one readable header are refused unverified.
BasicAuthDown(r) ==
    IF r.q.authorization \in {"good", "wrong"} THEN [r EXCEPT !.pc = "verify"]
    ELSE Refuses(WithHeader(r, "www-authenticate", "basic"), 401)

DownOf(r) ==
    LET d == r.chain[r.at] IN
    CASE d.name = "access-log"     -> AccessLogDown(r)
      [] d.name = "request-id"     -> RequestIdDown(r, d.config)
      [] d.name = "ip-filter"      -> IpFilterDown(r, d.config)
      [] d.name = "body-limit"     -> BodyLimitDown(r, d.config)
      [] d.name = "trailing-slash" -> TrailingSlashDown(r, d.config)
      [] d.name = "force-https"    -> ForceHttpsDown(r, d.config)
      [] d.name = "cors"           -> CorsDown(r, d.config)
      [] d.name = "basic-auth"     -> BasicAuthDown(r)
      [] d.name = "forward-auth"   -> [r EXCEPT !.pc = "ask"]
      [] d.name = "rewrite"        -> RewriteDown(r, d.config)
      [] d.name = "headers"        -> HeadersDown(r, d.config)
      [] d.name = "encode"         -> EncodeDown(r, d.config)
      [] OTHER                     -> Passes(r)

\* ---- rate_limit.rs: buckets are shared by the requests of every generation that kept them
KeyOf(key, q) ==
    CASE key.by = "ip"     -> q.ip
      [] key.by = "route"  -> {"every request"}
      [] key.by = "header" -> HeaderOf(q.headers, key.name)
      [] key.by = "cookie" -> HeaderOf(q.cookies, key.name)
Filled(b, c) ==
    LET capacity == c.max * Scale
        now == b.tokens + ((clock - b.last) * capacity) \div c.window
    IN  IF now < capacity THEN now ELSE capacity
RetainAny(inner, c) == <<>>  \* mutant: a bucket in use is forgotten with the full ones
\* A full table first forgets the buckets nobody draws from.
RetainPartial(inner, c) ==
    [k \in {k \in DOMAIN inner : Filled(inner[k], c) < c.max * Scale} |-> inner[k]]
RoomFor(b, key, c) ==
    LET kept == RetainPartial(b.inner, c) IN
    CASE key \in DOMAIN b.inner \/ Cardinality(DOMAIN b.inner) < c.keys -> b
      [] OTHER -> IF Cardinality(DOMAIN kept) < c.keys THEN [b EXCEPT !.inner = kept]
                  ELSE [inner |-> <<>>, evicted |-> TRUE]  \* evictions is a count; whether there were any
Takes(b, key, c) ==
    LET room   == RoomFor(b, key, c)
        known  == IF key \in DOMAIN room.inner THEN room.inner[key] ELSE [tokens |-> c.max * Scale, last |-> clock]
        tokens == Filled(known, c)
        left   == IF tokens >= Scale THEN tokens - Scale ELSE tokens
        wait   == ((Scale - tokens) * c.window + c.max * Scale - 1) \div (c.max * Scale)
    IN  [granted |-> tokens >= Scale, remaining |-> left \div Scale, wait |-> wait,
         buckets |-> [room EXCEPT !.inner = (key :> [tokens |-> left, last |-> clock]) @@ @]]

RateHeaders(r, c, remaining) ==
    WithHeader(WithHeader(r, "x-ratelimit-limit", c.max), "x-ratelimit-remaining", remaining)
Sets(c, r) == run' = [run EXCEPT ![c] = r]
RateLimits(c) ==
    LET r == run[c]
        limit == r.chain[r.at].config
        keys == KeyOf(limit.key, r.q)
        took == Takes(quotas[r.quota], Read(keys), limit)
        seconds == took.wait \div 1000
        told == RateHeaders(WithHeader(r, "retry-after", IF seconds > 1 THEN seconds ELSE 1), limit, 0)
    IN  /\ r.pc = "down" /\ r.chain[r.at].name = "rate-limit"
        /\ IF keys = {}
           THEN Sets(c, Refuses(r, 400)) /\ UNCHANGED <<quotas, granted>>
           ELSE /\ quotas' = [quotas EXCEPT ![r.quota] = took.buckets]
                /\ granted' = IF ~took.granted \/ took.buckets.evicted THEN granted
                              ELSE [granted EXCEPT ![r.quota] =
                                      (Read(keys) :> 1 + (IF Read(keys) \in DOMAIN @ THEN @[Read(keys)] ELSE 0)) @@ @]
                /\ Sets(c, IF took.granted THEN CallNext([Frame(r) EXCEPT !.remaining = took.remaining], r)
                           ELSE Refuses(told, 429))
        /\ UNCHANGED <<serving, clock, disk, writes>>

Start(c, q) ==
    /\ run[c].pc \in {"idle", "done", "gone"}
    /\ Sets(c, [NoRun EXCEPT !.pc = "down", !.chain = serving.chain, !.quota = serving.quota, !.q = q])
    /\ UNCHANGED <<serving, quotas, granted, clock, disk, writes>>
Descends(c) ==
    LET r == run[c] IN
    /\ r.pc = "down" /\ r.at < Len(r.chain) /\ r.chain[r.at].name # "rate-limit"
    /\ Sets(c, DownOf(r))
    /\ UNCHANGED <<serving, quotas, granted, clock, disk, writes>>

\* Passwords are hashed on a bounded pool, which may refuse.
Verified(c) ==
    LET r == run[c] IN
    /\ r.pc = "verify"
    /\ \/ Sets(c, IF r.q.authorization = "good" THEN Passes(r)
                  ELSE Refuses(WithHeader(r, "www-authenticate", "basic"), 401))
       \/ Sets(c, Refuses(r, 503))
    /\ UNCHANGED <<serving, quotas, granted, clock, disk, writes>>

\* ---- forward_auth.rs
NeverCopy == {"connection", "content-length", "content-type", "transfer-encoding", "keep-alive", "upgrade"}
Agreed(v) == v.status \div 100 = 2
AgreesTo(r, v) ==
    LET copy == r.chain[r.at].config.copy
        clean == DropHeaders(r.q.headers, copy)
        taken == copy \cap DOMAIN v.headers
    IN  Passes([r EXCEPT !.q.headers = [k \in DOMAIN clean \cup taken |->
                                          IF k \in taken THEN v.headers[k] ELSE clean[k]]])
Relay(r, v) ==
    LET shown == DOMAIN v.headers \ NeverCopy IN
    Refuses(WithOptional([r EXCEPT !.res.headers = [k \in DOMAIN @ \cup shown |->
                             HeaderOf(r.res.headers, k) \cup (IF k \in shown THEN v.headers[k] ELSE {})]],
                         "content-type", HeaderOf(v.headers, "content-type")), v.status)
Answered(c) ==
    LET r == run[c] IN
    /\ r.pc = "ask"
    /\ \/ \E v \in Verdicts : Sets(c, IF Agreed(v) THEN AgreesTo(r, v) ELSE Relay(r, v))
       \/ Sets(c, Refuses(r, 503))
    /\ UNCHANGED <<serving, quotas, granted, clock, disk, writes>>

-----------------------------------------------------------------------------
(* The terminals.                                                          *)

\* A terminal's own failure.
Fails(r, status) == Finishes(Generated(r), status, "error", 4)
NoStore(r) == WithHeader(WithHeader(r, "cache-control", "no-store"), "content-type", "text")
Unreadable(r) ==
    Fails(NoStore([r EXCEPT !.res.headers = DropHeaders(@, {"content-length", "content-range", "content-encoding",
                                                           "etag", "last-modified", "accept-ranges"})]), 500)
RespondHandler(r, c) ==
    Finishes(WithHeader(r, "content-type", "text"), c.status, "respond", IF r.q.method = "HEAD" THEN 0 ELSE c.len)
RedirectHandler(r, c) == Finishes(WithHeader(r, "location", c.to), c.status, "redirect", 0)
\* Whether the process is alive, or ready, is the telemetry's to say.
HealthHandler(r, c, well) ==
    Finishes(WithHeader(NoStore(r), "x-gatel-health", c.probe), IF well THEN 200 ELSE 503, "health", 6)
MetricsHandler(r) == Finishes(WithHeader(r, "content-type", "text"), 200, "metrics", 6)
GoesTo(r, c, target) ==
    CASE target.to = "nothing"  -> Fails(r, 404)
      [] target.to = "redirect" -> Finishes(WithHeader(r, "location", LocalLocation(target.path)), 301, "redirect", 0)
      [] target.to = "listing"  -> [r EXCEPT !.pc = "list", !.file.path = target.path, !.file.source = target.path]
      [] OTHER -> [r EXCEPT !.pc = "open", !.file.path = target.path, !.file.source = target.path]
FileServer(r, c) ==
    IF r.q.method \in {"GET", "HEAD"} THEN GoesTo(r, c, ServeFile(c, Tree, disk, r.q.path))
    ELSE Fails(NoStore(WithHeader(r, "allow", "GET, HEAD")), 405)

Arrives(c) ==
    LET r == run[c]
        d == r.chain[r.at]
    IN  /\ r.pc = "down" /\ r.at = Len(r.chain)
        /\ \/ d.name = "respond" /\ Sets(c, RespondHandler(r, d.config))
           \/ d.name = "redirect" /\ Sets(c, RedirectHandler(r, d.config))
           \/ d.name = "metrics" /\ Sets(c, MetricsHandler(r))
           \/ d.name = "health" /\ \E alive \in BOOLEAN : Sets(c, HealthHandler(r, d.config, alive))
           \/ d.name = "file-server" /\ Sets(c, FileServer(r, d.config))
           \/ d.name = "proxy" /\ Sets(c, [r EXCEPT !.pc = "backend"])
        /\ UNCHANGED <<serving, quotas, granted, clock, disk, writes>>

\* What the backend is sent stops at the smallest limit; beyond it the answer is 413.
Backend(c) ==
    LET r == run[c]
        sums == {LimitedPrefix(r.q.frames, max) : max \in r.depot.limits} \cup {Len(r.q.frames)}
        sent == CHOOSE n \in sums : \A m \in sums : n <= m
        got  == [r EXCEPT !.received = Size(r.q.frames, sent)]
        joined(h) == [k \in DOMAIN r.res.headers \cup DOMAIN h |->
                        HeaderOf(r.res.headers, k) \cup HeaderOf(h, k)]
    IN  /\ r.pc = "backend"
        /\ \/ sent < Len(r.q.frames) /\ Sets(c, Fails(got, 413))
           \/ /\ sent = Len(r.q.frames)
              /\ \E reply \in Replies :
                    Sets(c, Returns([got EXCEPT !.at = Ended(r), !.res = [status |-> reply.status,
                                       headers |-> joined(reply.headers), body |-> reply.body], !.from = "backend"]))
           \/ Sets(c, Fails(r, 502))
        /\ UNCHANGED <<serving, quotas, granted, clock, disk, writes>>

-----------------------------------------------------------------------------
(* A file on its way out: opened, perhaps opened again, described, read.   *)

NoTransform(h) == "no-transform" \in HeaderOf(h, "cache-control")
Compressible(h) == HeaderOf(h, "content-type") = {} \/ HeaderOf(h, "content-type") # {"binary"}
ContentType(path) == IF Last(Last(path)) = "png" THEN "binary" ELSE "text"
\* encode_metadata.rs transformed: what no longer holds of an encoded body.
Transformed(h) ==
    LET kept == DropHeaders(h, {"content-length", "accept-ranges", "content-md5", "digest", "content-digest",
                                "repr-digest"})
    IN  [k \in DOMAIN kept |-> IF k = "etag" THEN {[t EXCEPT !.weak = TRUE] : t \in kept[k]} ELSE kept[k]]

EtagOf(f) ==
    [weak |-> f.transform, of |-> <<IF f.transform THEN "" ELSE OrElse(f.coding, ""), f.opened.len, f.opened.mtime>>]
\* FileServer::handle from the tag on, and ranges.rs deliver up to its read.
Describes(r0) ==
    LET f == r0.file
        tag == EtagOf(f)
        named == WithHeader(WithHeader(WithHeader(r0, "etag", tag), "last-modified", f.opened.mtime),
                            "content-type", ContentType(f.path))
        r == IF Given(f.coding) THEN WithHeader(named, "content-encoding", Read(f.coding)) ELSE named
        stop == Precondition(r.q, {tag}, {f.opened.mtime})
        bare == NoStore([r EXCEPT !.res.headers = DropHeaders(@, {"content-encoding", "etag", "last-modified"})])
        want == IF Given(f.coding) THEN WholeFile ELSE WantedPart(r.q, f.opened.len, tag)
        sized(x, n) == WithHeader(WithHeader(x, "accept-ranges", "bytes"), "content-length", n)
        ranged == WithHeader(r, "content-range", <<want.start, want.end, f.opened.len>>)
        asked == stop = {} /\ r.q.method # "HEAD"
    IN  CASE stop = {304} -> Finishes(r, 304, "file", 0)
          [] stop # {} /\ stop # {304} -> Fails(bare, Read(stop))
          [] stop = {} /\ r.q.method = "HEAD" ->
                Finishes(IF f.transform THEN r ELSE sized(r, f.opened.len), 200, "file", 0)
          [] asked /\ ~PartFits(want, f.opened.len) -> Unreadable(r)
          [] asked /\ PartFits(want, f.opened.len) /\ want.part = "none" ->
                Finishes(WithHeader(ranged, "accept-ranges", "bytes"), 416, "file", 0)
          [] OTHER -> [sized(IF want.part = "part" THEN ranged ELSE r, PartLength(want, f.opened.len)) EXCEPT
                         !.pc = "read", !.file.want = want, !.res.status = IF want.part = "part" THEN 206 ELSE 200]

\* file_listing.rs: the directory may be gone by now, or fail to be read, or be too long.
FileLists(c) ==
    LET r == run[c] IN
    /\ r.pc = "list"
    /\ \/ \E status \in {404, 500} : Sets(c, Fails(NoStore(r), status))
       \/ Sets(c, IF ListingOf(r.chain[r.at].config, Tree, disk, r.file.path) = {} THEN Fails(NoStore(r), 503)
                  ELSE Finishes(WithHeader(r, "content-type", "text"), 200, "listing", 6))
    /\ UNCHANGED <<serving, quotas, granted, clock, disk, writes>>
FileOpens(c) ==
    LET r == run[c]
        server == r.chain[r.at].config
        path == r.file.path
        opened == disk[path]
        shown == Previewed(r.depot.layers, [k \in {"content-type"} |-> {ContentType(path)}], ApplyOps)
        allowed == ~NoTransform(r.q.headers) /\ ~NoTransform(shown) /\ Compressible(shown)
        variants == PrecompressedVariants(server, Tree, disk, path, opened)
        dynamic == DynamicCodings(r.depot.offers, opened.len, allowed)
        selection == SelectCoding(r.q.accept, variants \o dynamic)
        coding == CodingOf(selection)
        side == coding # {} /\ Read(coding) \in Elements(variants)
        chosen == [Varied(r, "accept-encoding") EXCEPT !.depot.selected = TRUE, !.file.opened = opened,
                     !.file.coding = coding, !.file.transform = Given(coding) /\ ~side]
    IN  /\ r.pc = "open"
        /\ CASE ~IsFile(disk, path) -> Sets(c, Unreadable(r))
             [] IsFile(disk, path) /\ selection = "not acceptable" ->
                   Sets(c, Finishes(WithHeader(WithHeader(Generated(chosen), "cache-control", "no-store"), "content-length", 0), 406, "error", 0))
             [] IsFile(disk, path) /\ side ->
                   Sets(c, [chosen EXCEPT !.pc = "reopen",
                              !.file.source = Read(ContainedFile(Tree, disk, server.root, Sidecar(path, Read(coding))))])
             [] OTHER -> Sets(c, Describes(chosen))
        /\ UNCHANGED <<serving, quotas, granted, clock, disk, writes>>
FileReopens(c) ==
    LET r == run[c] IN
    /\ r.pc = "reopen"
    /\ Sets(c, IF IsFile(disk, r.file.source) THEN Describes([r EXCEPT !.file.opened = disk[r.file.source]])
               ELSE Unreadable(r))
    /\ UNCHANGED <<serving, quotas, granted, clock, disk, writes>>
\* The file may have been cut short in place since it was opened; what replaced it is not read.
Readable(f) ==
    IF IsFile(disk, f.source) /\ disk[f.source].ino = f.opened.ino THEN disk[f.source].len ELSE f.opened.len
FileReads(c) ==
    LET r == run[c]
        f == r.file
        length == PartLength(f.want, f.opened.len)
        body == [of |-> "file", coding |-> OrElse(f.coding, "identity"), len |-> IF f.transform THEN -1 ELSE length,
                 stream |-> f.transform \/ length > InlineLimit]
    IN  /\ r.pc = "read"
        /\ Sets(c, IF length <= InlineLimit /\ f.want.start + length > Readable(f) THEN Unreadable(r)
                   ELSE Returns([r EXCEPT !.at = Ended(r), !.res.body = body, !.from = "file",
                                          !.res.headers = IF f.transform THEN Transformed(@) ELSE @]))
        /\ UNCHANGED <<serving, quotas, granted, clock, disk, writes>>

-----------------------------------------------------------------------------
(* On the way out.                                                         *)

ReplacesQuietly(r, body) ==  \* mutant: nothing is written when an observed body is dropped
    [r EXCEPT !.res.body = body, !.pending = {}]
\* A body that is dropped before its end writes the lines that waited for it.
Replaces(r, body) == [r EXCEPT !.res.body = body, !.lines = @ \o SetToSeq(r.pending), !.pending = {}]

AccessLogUp(r, i) ==
    IF r.res.body.stream THEN [r EXCEPT !.pending = @ \cup {i}] ELSE [r EXCEPT !.lines = Append(@, i)]
CorsUp(r, frame, c) ==
    IF Origins(c, frame.q) = {} THEN r
    ELSE WithOptional(AllowOrigin(r, frame.q, c), "access-control-expose-headers", c.expose)
HeadersUp(r, frame, c) ==
    [r EXCEPT !.depot.layers = frame.depot.layers, !.res.headers = ApplyOps(c.response, @)]
ShouldCompress(r, c) ==
    LET known == IF r.res.body.stream THEN HeaderOf(r.res.headers, "content-length") ELSE {r.res.body.len} IN
    /\ HeaderOf(r.res.headers, "content-range") = {} /\ ~NoTransform(r.res.headers)
    /\ HeaderOf(r.res.headers, "content-encoding") = {}
    /\ r.res.status \notin {204, 206, 304}
    /\ \A n \in known : n >= c.min
    /\ Compressible(r.res.headers)
\* The coding was chosen on the way in, for the request as it was then.
EncodeUp(r0, frame, c) ==
    LET r == Varied([r0 EXCEPT !.depot.offers = frame.depot.offers], "accept-encoding")
        chosen == CodingOf(SelectCoding(frame.q.accept, c.codings))
        encoded == [r EXCEPT !.res.headers = InsertHeader(Transformed(@), "content-encoding", Read(chosen)),
                             !.res.body = [@ EXCEPT !.coding = Read(chosen), !.len = -1, !.stream = TRUE]]
    IN  IF \/ r.depot.selected \/ chosen = {} \/ frame.q.method = "HEAD" \/ NoTransform(frame.q.headers)
           \/ ~ShouldCompress(r, c)
        THEN r ELSE encoded
PageLength == 6
PageHeadersKept(h) == h  \* mutant: the headers of the answer it replaces stay
PageHeaders(h) ==
    DropHeaders(h, {"content-length", "content-encoding", "content-range", "accept-ranges", "etag", "last-modified",
                    "content-md5", "digest", "content-digest", "repr-digest", "trailer", "transfer-encoding",
                    "content-location", "content-language", "content-disposition"})
PageCovers(c, r) == \E p \in Elements(c.pages) : Covers(p.match, r.res.status)
ErrorPagesAll(r, c) ==  \* mutant: a backend's own error is replaced too
    IF r.res.status < 400 \/ ~PageCovers(c, r) THEN r
    ELSE WithHeader(WithHeader([Replaces(r, TextBody("page", PageLength)) EXCEPT !.res.headers = PageHeaders(@)],
                               "content-type", "text"), "content-length", PageLength)
ErrorPagesUp(r, c) ==
    IF r.res.status < 400 \/ ~(c.all \/ r.depot.generated) \/ ~PageCovers(c, r) THEN r
    ELSE WithHeader(WithHeader([Replaces(r, TextBody("page", PageLength)) EXCEPT !.res.headers = PageHeaders(@)],
                               "content-type", "text"), "content-length", PageLength)

UpOf(r, frame) ==
    LET d == r.chain[frame.at] IN
    CASE d.name = "access-log"  -> AccessLogUp(r, frame.at)
      [] d.name = "rate-limit"  -> RateHeaders(r, d.config, frame.remaining)
      [] d.name = "cors"        -> CorsUp(r, frame, d.config)
      [] d.name = "headers"     -> HeadersUp(r, frame, d.config)
      [] d.name = "encode"      -> EncodeUp(r, frame, d.config)
      [] d.name = "error-pages" -> ErrorPagesUp(r, d.config)
      [] OTHER                  -> r
Ascends(c) ==
    LET r == run[c] IN
    /\ r.pc = "up"
    /\ Sets(c, Returns(UpOf([r EXCEPT !.stack = Front(@)], Last(r.stack))))
    /\ UNCHANGED <<serving, quotas, granted, clock, disk, writes>>

Awaiting == {"verify", "ask", "list", "open", "reopen", "read", "backend"}
\* timeout.rs: whatever waits inside is dropped; what it had written to the headers is there.
TimesOut(c) ==
    LET r == run[c] IN
    /\ r.pc \in Awaiting
    /\ \E k \in DOMAIN r.stack :
          LET d == r.chain[r.stack[k].at] IN
          /\ d.name = "timeout"
          /\ Sets(c, Returns([Generated(r) EXCEPT !.stack = SubSeq(@, 1, k - 1), !.at = Ended(r),
                                !.res.status = d.config.status, !.res.body = TextBody("timeout", 4),
                                !.timedOut = TRUE, !.started = {i \in @ : i < r.stack[k].at}]))
    /\ UNCHANGED <<serving, quotas, granted, clock, disk, writes>>
\* The client leaves: the whole chain is dropped where it waits.
ClientLeaves(c) ==
    /\ run[c].pc \in Awaiting
    /\ Sets(c, [NoRun EXCEPT !.pc = "gone"])
    /\ UNCHANGED <<serving, quotas, granted, clock, disk, writes>>
\* The body ends, fails or is dropped; the lines that waited are written.
BodyEnds(c) ==
    /\ run[c].pc = "answered"
    /\ LET over == Replaces(run[c], run[c].res.body) IN
       Sets(c, [NoRun EXCEPT !.pc = "done", !.lines = over.lines, !.started = over.started])
    /\ UNCHANGED <<serving, quotas, granted, clock, disk, writes>>

\* Only buckets read the clock.
Tick ==
    /\ clock < MaxClock /\ \E b \in DOMAIN quotas : quotas[b].inner # <<>>
    /\ clock' = clock + 1
    /\ UNCHANGED <<run, serving, quotas, granted, disk, writes>>
\* Somebody deploys: a file is replaced, cut short in place, or removed.  Only file servers look.
FileChanges(path) ==
    /\ writes < MaxWrites
    /\ \E chain \in {serving.chain} \cup {run[c].chain : c \in Callers} :
          chain # <<>> /\ Last(chain).name = "file-server"
    /\ writes' = writes + 1
    /\ \/ disk' = [disk EXCEPT ![path] = [len |-> @.len + 1, mtime |-> @.mtime + 1, ino |-> 0]]
       \/ disk' = [disk EXCEPT ![path].len = 1, ![path].mtime = @ + 1]
       \/ disk' = [p \in DOMAIN disk \ {path} |-> disk[p]]
    /\ UNCHANGED <<run, serving, quotas, granted, clock>>

MidNext ==
    \/ \E c \in Callers :
          \/ \E q \in Questions : Start(c, q)
          \/ Descends(c) \/ RateLimits(c) \/ Verified(c) \/ Answered(c)
          \/ Arrives(c) \/ Backend(c) \/ FileLists(c) \/ FileOpens(c) \/ FileReopens(c) \/ FileReads(c)
          \/ Ascends(c) \/ TimesOut(c) \/ ClientLeaves(c) \/ BodyEnds(c)
    \/ \E config \in Configs : Reload(config)
    \/ Tick
    \/ \E path \in DOMAIN disk \cap Edited : FileChanges(path)

MidSpec == MidInit /\ [][MidNext]_midVars

-----------------------------------------------------------------------------
(* Properties.                                                             *)

AnswerOut(r) == r.pc = "answered"
Ran(r, name) == \E i \in DOMAIN r.chain : r.chain[i].name = name

\* The headers that go out describe the body that goes out: a length that is said is the body's, a
\* coding that is said is the one it has, and an answer that depended on Accept-Encoding or Origin
\* says so.  Every handler on the way out may replace the body or the headers (encode, error pages, a
\* file that could not be read), each keeping the other in step; a timeout does not, see below.
AnswerDescribesBody ==
    \A c \in Callers : LET r == run[c] IN AnswerOut(r) /\ ~r.timedOut =>
        /\ r.res.body.coding # "identity" => HeaderOf(r.res.headers, "content-encoding") = {r.res.body.coding}
        /\ r.q.method # "HEAD" /\ r.res.status # 304 =>
              /\ HeaderOf(r.res.headers, "content-length") \subseteq {r.res.body.len}
              /\ HeaderOf(r.res.headers, "content-encoding") \subseteq {r.res.body.coding}
        /\ r.res.body.coding # "identity" /\ r.from = "file" =>
              "accept-encoding" \in HeaderOf(r.res.headers, "vary")
        /\ HeaderOf(r.res.headers, "access-control-allow-origin") \ {"*"} # {} =>
              "origin" \in HeaderOf(r.res.headers, "vary")

\* What a timeout answers says nothing about the answer it gave up on: "whatever the rest of the chain
\* had started to write is discarded ... a half-built one would be worse than none" (timeout.rs:109).
\* It does not hold: the body is, the headers a file server wrote before it waited for the disk are not.
HalfBuiltDiscarded ==
    \A c \in Callers : LET r == run[c] IN AnswerOut(r) /\ r.timedOut /\ r.res.body.of = "timeout" =>
        /\ HeaderOf(r.res.headers, "content-length") \subseteq {r.res.body.len}
        /\ HeaderOf(r.res.headers, "content-encoding") \subseteq {r.res.body.coding}

\* A guard that answered is the last to see the request: no terminal ran, no backend got a byte, and
\* the status it gave is the status that goes out, whatever the handlers around it do afterwards.
RefusalIsFinal ==
    \A c \in Callers : LET r == run[c] IN
        /\ r.refused # 0 => r.from = "none" /\ r.received = -1 /\ r.file.path = <<>>
        /\ AnswerOut(r) /\ r.refused # 0 => r.res.status = r.refused
        /\ \A i \in DOMAIN r.chain : r.chain[i].name = "body-limit" => r.received <= r.chain[i].config.max

\* A key is granted its allowance and what refills, never more, across reloads that keep the buckets
\* and as long as the table never overflowed: forgetting full buckets costs nothing.
QuotaKept ==
    \A b \in DOMAIN quotas : ~quotas[b].evicted =>
        \A key \in DOMAIN granted[b] :
            \E config \in Configs : \E i \in DOMAIN config :
                /\ config[i].node.name = "rate-limit" /\ ~StdBad(config[i].node)
                /\ LET c == StdConfig(config[i].node) IN
                   granted[b][key] * Scale <= c.max * Scale + (clock * c.max * Scale) \div c.window

\* An error a backend sent goes out as it was sent unless the pages were told to replace all.
OwnErrorsOnly ==
    \A c \in Callers : LET r == run[c] IN
        AnswerOut(r) /\ r.from = "backend" /\ ~r.timedOut
        /\ ~(\E i \in DOMAIN r.chain : r.chain[i].name = "error-pages" /\ r.chain[i].config.all) => r.res.body.of = "backend"

\* Every access log that a request passed writes one line for it and only one, when the body is over,
\* even when a page replaced the body it was waiting for.
LoggedOnce ==
    \A c \in Callers : LET r == run[c] IN
        /\ \A i, j \in DOMAIN r.lines : r.lines[i] = r.lines[j] => i = j
        /\ r.pc = "done" => Elements(r.lines) = r.started

\* A file that goes out lies under the root, by names that are not hidden, whatever the path and its
\* escapes say and wherever links lead, and also when the variant beside it is the one sent.
ServesPublicFiles ==
    \A c \in Callers : LET r == run[c] IN
        r.file.path # <<>> =>
            \A path \in {r.file.path, r.file.source} :
                LET root == r.chain[Len(r.chain)].config.root IN
                /\ IsPrefix(root, path)
                /\ \A k \in (Len(root) + 1)..Len(path) : Head(path[k]) # "."

\* What the handlers of a chain promise each other: whatever the others do before and after it, and
\* wherever a timeout or a client that leaves cuts the chain, a refusal stays one, a backend's answer is
\* its own, every log that was passed writes its line once, and only public files go out.
HandlersSound == RefusalIsFinal /\ OwnErrorsOnly /\ LoggedOnce /\ ServesPublicFiles

\* The answer that goes out, after every handler on the way out has had its turn at it, describes its
\* body, and the rate limiter grants no more than it was told to.
AnswersSound == AnswerDescribesBody /\ QuotaKept
=============================================================================
