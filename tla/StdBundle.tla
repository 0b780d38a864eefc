----------------------------- MODULE StdBundle -----------------------------
(***************************************************************************)
(* The standard directives of gatel-bundle-std: what each one reads from   *)
(* its node, what it refuses, and where it stands in a chain.              *)
(*                                                                         *)
(* As in Normalizer a directive is two operators, XBad and XOf; XNode is   *)
(* the shape its Fields struct derives.  BuildBad is what preparing the    *)
(* generation can still refuse: a secret, a page or a root that is not     *)
(* there.                                                                  *)
(***************************************************************************)
EXTENDS Normalizer
LOCAL INSTANCE SequencesExt

CONSTANT Missing   \* files and secrets that cannot be read when a chain is built

TypedProps(types) ==
    [k \in {t[1] : t \in types} |-> (CHOOSE t \in types : t[1] = k)[2]]
Fields(types, needed) == Shape(<<>>, TypedProps(types), needed)
Field(shape, n, key, base) == OrElse(ReadProp(shape, n, key), base)
\* An argument that may be left out is asked for all the same.
OptionalArg(shape, n, type) ==
    IF n.args = <<>> THEN shape ELSE [shape EXCEPT !.args = <<type>>]
Blank == [kind |-> "word", w |-> ""]
Rooted(v) == v.kind = "path" /\ v.rooted
Status(n) == n \in 100..599

\* ---- rate_limit.rs
RateLimitNode == Fields({<<"max", "u32">>, <<"window", "duration">>, <<"key", "string">>,
                         <<"max-keys", "u32">>}, {"max", "window"})
ParseKey(v) ==
    CASE v.kind = "word" /\ v.w \in {"ip", "route"} -> {[by |-> v.w, name |-> ""]}
      [] v.kind = "pair" /\ v.name \in {"header", "cookie"} /\ v.value # {} ->
            {[by |-> v.name, name |-> Read(v.value)]}
      [] OTHER -> {}
RateKey(n) == Field(RateLimitNode, n, "key", [kind |-> "word", w |-> "ip"])
RateLimitBad(n) ==
    \/ Misread(RateLimitNode, n)
    \/ Field(RateLimitNode, n, "max", 0) = 0
    \/ Field(RateLimitNode, n, "window", 0) = 0
    \/ Field(RateLimitNode, n, "max-keys", 1) = 0
    \/ ~Given(ParseKey(RateKey(n)))
RateLimitOf(n) ==
    [max |-> Field(RateLimitNode, n, "max", 0), window |-> Field(RateLimitNode, n, "window", 0),
     key |-> Read(ParseKey(RateKey(n))), keys |-> Field(RateLimitNode, n, "max-keys", 100000)]
\* The buckets outlive a reload that leaves these alone; the allowance is not among them.
BucketsOf(c) == <<c.key, c.window, c.keys>>

\* ---- ip_filter.rs: a network list is written with commas in one string
NetworksIn(p) == UNION {IF v.kind = "list" THEN Elements(v.of) ELSE {v} : v \in AsStr(p.value)}
IpFilterBad(n) ==
    \/ \E p \in Elements(n.props) :
          \/ p.name \notin {"allow", "deny"}
          \/ ~Given(AsStr(p.value))
          \/ \E v \in NetworksIn(p) : ~Given(ParseCidr(v))
    \/ n.props = <<>>
    \/ n.args # <<>>
IpFilterOf(n) ==
    LET nets(key) == UNION {UNION {ParseCidr(v) : v \in NetworksIn(p)} :
                              p \in {q \in Elements(n.props) : q.name = key}}
    IN  [allow |-> nets("allow"), deny |-> nets("deny")]

\* ---- basic_auth.rs
UserBad(k) ==
    \/ k.name # "user"
    \/ ~\E v \in ArgStr(k, 1) : v.kind = "word" /\ v.w # ""
    \/ ~\E v \in PropStr(k, "hash") : Given(ParseSecret(v))
UserName(k) == Read(ArgStr(k, 1)).w
BasicAuthBad(n) ==
    \/ Len(n.kids) \notin 1..1024
    \/ PropNames(n) \ {"realm"} # {}
    \/ \E s \in Prop(n, "realm") : ~\E v \in AsStr(s) : v.kind = "word"
    \/ \E k \in Elements(n.kids) : UserBad(k)
    \/ Repeats(n.kids, UserName)
BasicAuthOf(n) ==
    [realm |-> OrElse({v.w : v \in PropStr(n, "realm")}, "restricted"),
     users |-> [i \in DOMAIN n.kids |->
                  [name |-> UserName(n.kids[i]), hash |-> Read(ParseSecret(Read(PropStr(n.kids[i], "hash"))))]]]

\* ---- cors.rs
CorsNode == [Fields({<<"methods", "string">>, <<"headers", "string">>, <<"expose", "string">>,
                     <<"credentials", "bool">>, <<"max-age", "duration">>}, {}) EXCEPT !.passes = TRUE]
OriginNode == Shape(<<"string">>, <<>>, {})
OriginsIn(n) == ChildrenNamed(n, "origin")
OriginOf(k) == Read(ReadArg(OriginNode, k, 1))
AnyOrigin(k) == OriginOf(k) = [kind |-> "word", w |-> "*"]
CorsBad(n) ==
    \/ Misread(CorsNode, n)
    \/ KidNames(n) \ {"origin"} # {}
    \/ \E k \in Elements(n.kids) : Misread(OriginNode, k)
    \/ n.kids = <<>>
    \/ \E k \in Elements(n.kids) :
          IF AnyOrigin(k) THEN Len(n.kids) > 1 \/ Field(CorsNode, n, "credentials", FALSE)
          ELSE OriginOf(k).kind # "origin" \/ OriginOf(k).path
CorsOf(n) ==
    [any |-> \E k \in Elements(n.kids) : AnyOrigin(k),
     exact |-> {OriginOf(k).of : k \in {k \in Elements(n.kids) : ~AnyOrigin(k)}},
     credentials |-> Field(CorsNode, n, "credentials", FALSE),
     methods |-> ReadProp(CorsNode, n, "methods"), headers |-> ReadProp(CorsNode, n, "headers"),
     expose |-> ReadProp(CorsNode, n, "expose"), max |-> ReadProp(CorsNode, n, "max-age")]

\* ---- body_limit.rs, timeout.rs, trailing_slash.rs, force_https.rs, request_id.rs
BodyLimitNode == Shape(<<"size">>, <<>>, {})
BodyLimitBad(n) == Misread(BodyLimitNode, n) \/ Read(ReadArg(BodyLimitNode, n, 1)) = 0
BodyLimitOf(n) == [max |-> Read(ReadArg(BodyLimitNode, n, 1))]

TimeoutNode == Shape(<<"duration">>, TypedProps({<<"status", "u16">>}), {})
TimeoutBad(n) ==
    \/ Misread(TimeoutNode, n)
    \/ Read(ReadArg(TimeoutNode, n, 1)) = 0
    \/ Field(TimeoutNode, n, "status", 504) \notin 100..999
TimeoutOf(n) == [after |-> Read(ReadArg(TimeoutNode, n, 1)), status |-> Field(TimeoutNode, n, "status", 504)]

TrailingSlashNode(n) == OptionalArg(Shape(<<>>, <<>>, {}), n, "string")
TrailingSlashBad(n) ==
    \/ Misread(TrailingSlashNode(n), n)
    \/ ~\E v \in ArgStr(n, 1) : v.kind = "word" /\ v.w \in {"add", "remove"}
TrailingSlashOf(n) == [style |-> Read(ArgStr(n, 1)).w]

ForceHttpsNode == Fields({<<"port", "u16">>, <<"permanent", "bool">>}, {})
ForceHttpsBad(n) == Misread(ForceHttpsNode, n) \/ Field(ForceHttpsNode, n, "port", 443) = 0
ForceHttpsOf(n) ==
    [port |-> ReadProp(ForceHttpsNode, n, "port"),
     status |-> IF Field(ForceHttpsNode, n, "permanent", TRUE) THEN 308 ELSE 307]

RequestIdNode == Fields({<<"header", "string">>, <<"trust-client", "bool">>}, {})
RequestIdBad(n) == Misread(RequestIdNode, n)
RequestIdOf(n) ==
    [header |-> OrElse({v.w : v \in ReadProp(RequestIdNode, n, "header")}, "x-request-id"),
     trust |-> Field(RequestIdNode, n, "trust-client", FALSE)]

\* ---- rewrite.rs
RewriteNode == Fields({<<"strip-prefix", "string">>, <<"prefix", "string">>, <<"to", "string">>}, {})
RewriteBad(n) ==
    \/ Misread(RewriteNode, n)
    \/ "to" \in PropNames(n) /\ PropNames(n) # {"to"}
    \/ PropNames(n) = {}
    \/ \E key \in PropNames(n) : ~Rooted(Read(ReadProp(RewriteNode, n, key)))
RewriteOf(n) ==
    [key \in {"strip-prefix", "prefix", "to"} |-> {v.chars : v \in ReadProp(RewriteNode, n, key)}]

\* ---- headers.rs
Protected == {"connection", "content-length", "host", "keep-alive", "te", "trailer",
              "transfer-encoding", "upgrade"}
MaxOperations == 64
OperationBad(k) ==
    \/ \E s \in Elements(k.args) : ~Given(AsStr(s))
    \/ ~\E v \in ArgStr(k, 1) : v.kind = "header" /\ v.name \notin Protected
    \/ k.name \notin {"set", "add", "remove"}
    \/ Len(k.args) # (IF k.name = "remove" THEN 1 ELSE 2)
    \/ Len(k.args) = 2 /\ Read(ArgStr(k, 2)).kind # "value"
OperationOf(k) ==
    [op |-> k.name, name |-> Read(ArgStr(k, 1)).name,
     value |-> {v.of : v \in ArgStr(k, 2)}]
OperationsIn(n, side) ==
    LET blocks == ChildrenNamed(n, side) IN
    FoldLeft(LAMBDA ops, b : ops \o [i \in DOMAIN b.kids |-> OperationOf(b.kids[i])], <<>>, blocks)
HeadersBad(n) ==
    \/ KidNames(n) \ {"request", "response"} # {}
    \/ n.props # <<>>
    \/ \E b \in Elements(n.kids) : \E k \in Elements(b.kids) : OperationBad(k)
    \/ Len(OperationsIn(n, "request") \o OperationsIn(n, "response")) \notin 1..MaxOperations
HeadersOf(n) == [request |-> OperationsIn(n, "request"), response |-> OperationsIn(n, "response")]

\* ---- error_pages.rs
PageNode == [Fields({<<"file", "string">>, <<"body", "string">>, <<"content-type", "string">>}, {})
               EXCEPT !.args = <<"status">>]
ErrorPagesNode == [Fields({<<"all", "bool">>}, {}) EXCEPT !.passes = TRUE]
MatchOf(v) ==
    CASE v.kind = "class" /\ v.n \in 1..5 -> {[class |-> TRUE, n |-> v.n]}
      [] v.kind = "number" /\ Status(v.n) -> {[class |-> FALSE, n |-> v.n]}
      [] OTHER -> {}
PageStatus(k) == UNION {MatchOf(v) : v \in ReadArg(PageNode, k, 1)}
PageBad(k) ==
    \/ Misread(PageNode, k)
    \/ PageStatus(k) = {}
    \/ Given(ReadProp(PageNode, k, "file")) = Given(ReadProp(PageNode, k, "body"))
PageOf(k) ==
    [match |-> Read(PageStatus(k)), file |-> ReadProp(PageNode, k, "file"),
     body |-> ReadProp(PageNode, k, "body")]
ErrorPagesBad(n) ==
    \/ Misread(ErrorPagesNode, n)
    \/ KidNames(n) \ {"page"} # {}
    \/ n.kids = <<>>
    \/ \E k \in Elements(n.kids) : PageBad(k)
    \/ Repeats(n.kids, PageStatus)
Covers(match, status) == IF match.class THEN status \div 100 = match.n ELSE status = match.n
\* An exact page comes before a class.
PageRank(p) == IF p.match.class THEN 1 ELSE 0
ErrorPagesOf(n) ==
    [all |-> Field(ErrorPagesNode, n, "all", FALSE),
     pages |-> SortSeq([i \in DOMAIN n.kids |-> PageOf(n.kids[i])], LAMBDA a, b : PageRank(a) < PageRank(b))]

\* ---- encode.rs
Codings == [c \in {"zstd", "br", "brotli", "gzip", "deflate"} |-> IF c = "brotli" THEN "br" ELSE c]
EncodeNode == Fields({<<"min-size", "size">>}, {})
EncodeBad(n) ==
    \/ Misread(EncodeNode, n)
    \/ \E s \in Elements(n.args) : ~\E v \in AsStr(s) : v.kind = "word" /\ v.w \in DOMAIN Codings
    \/ Repeats(n.args, LAMBDA s : Codings[s.v.w])
EncodeOf(n) ==
    [codings |-> IF n.args = <<>> THEN <<"zstd", "br", "gzip">>
                 ELSE [i \in DOMAIN n.args |-> Codings[n.args[i].v.w]],
     min |-> Field(EncodeNode, n, "min-size", 1024)]

\* ---- access_log.rs
AccessLogNode == Fields({<<"format", "string">>, <<"query", "bool">>, <<"output", "string">>,
                         <<"rotate", "size">>, <<"keep", "u32">>}, {})
LogOutput(n) == Field(AccessLogNode, n, "output", [kind |-> "word", w |-> "stderr"])
AccessLogBad(n) ==
    \/ Misread(AccessLogNode, n)
    \/ \E v \in ReadProp(AccessLogNode, n, "format") : v.w \notin {"text", "json", "clf"}
    \/ IF LogOutput(n) = [kind |-> "word", w |-> "stderr"] THEN "rotate" \in PropNames(n)
       ELSE LogOutput(n).kind # "file"
AccessLogOf(n) ==
    [output |-> LogOutput(n),
     rotate |-> [size |-> Field(AccessLogNode, n, "rotate", 134217728),
                 keep |-> Field(AccessLogNode, n, "keep", 4)]]

\* ---- forward_auth.rs: what decides for us, what it is told and what is taken from it
ForwardAuthNode == [Fields({<<"upstream", "string">>, <<"path", "string">>}, {"upstream"})
                      EXCEPT !.kids = {"forward-headers", "copy-headers"}]
NameList(n, child, fallback) ==
    IF Given(Child(n, child)) THEN {s.v.w : s \in Elements(Read(Child(n, child)).args)} ELSE fallback
ForwardAuthBad(n) ==
    \/ Misread(ForwardAuthNode, n)
    \/ \E k \in Elements(n.kids) : \E s \in Elements(k.args) : ~Given(AsStr(s))
    \/ \E v \in ReadProp(ForwardAuthNode, n, "path") : ~Rooted(v)
ForwardAuthOf(n) ==
    [upstream |-> Field(ForwardAuthNode, n, "upstream", Blank),
     forward |-> NameList(n, "forward-headers", {"cookie", "authorization"}),
     copy |-> NameList(n, "copy-headers", {})]

\* ---- the terminals: respond.rs, redirect.rs, file_server.rs, observe.rs
RespondNode(n) == OptionalArg(Fields({<<"status", "u16">>, <<"content-type", "string">>}, {}), n, "string")
MaxRespond == 65536
RespondStatus(n) == Field(RespondNode(n), n, "status", 200)
RespondLength(n) == OrElse({v.len : v \in ArgStr(n, 1)}, 0)
RespondBad(n) ==
    \/ Misread(RespondNode(n), n)
    \/ ~Status(RespondStatus(n))
    \/ RespondLength(n) > MaxRespond
    \/ RespondLength(n) > 0 /\ RespondStatus(n) \in {204, 304}
RespondOf(n) == [status |-> RespondStatus(n), len |-> RespondLength(n)]

RedirectNode == [Fields({<<"permanent", "bool">>, <<"status", "u16">>}, {}) EXCEPT !.args = <<"string">>]
RedirectBad(n) ==
    \/ Misread(RedirectNode, n)
    \/ \E s \in ReadProp(RedirectNode, n, "status") : s \notin 300..399
    \/ Given(ReadProp(RedirectNode, n, "status")) /\ Field(RedirectNode, n, "permanent", FALSE)
    \/ Read(ReadArg(RedirectNode, n, 1)) = Blank
RedirectOf(n) ==
    [to |-> Read(ReadArg(RedirectNode, n, 1)),
     status |-> OrElse(ReadProp(RedirectNode, n, "status"),
                       IF Field(RedirectNode, n, "permanent", FALSE) THEN 308 ELSE 307)]

FileServerNode == Fields({<<"root", "string">>, <<"index", "string">>, <<"browse", "bool">>,
                          <<"precompressed", "bool">>, <<"fallback", "string">>}, {"root"})
FileServerBad(n) ==
    \/ Misread(FileServerNode, n)
    \/ Field(FileServerNode, n, "root", Blank) = Blank
    \/ Field(FileServerNode, n, "fallback", Blank) # Blank /\ ~Rooted(Field(FileServerNode, n, "fallback", Blank))
FileServerOf(n) ==
    [root |-> Field(FileServerNode, n, "root", Blank).chars,
     index |-> OrElse({v.w : v \in ReadProp(FileServerNode, n, "index")}, "index.html"),
     browse |-> Field(FileServerNode, n, "browse", FALSE),
     precompressed |-> Field(FileServerNode, n, "precompressed", FALSE),
     fallback |-> {v.chars : v \in ReadProp(FileServerNode, n, "fallback") \ {Blank}}]

HealthProbe(n) == OptionalArg(Shape(<<>>, <<>>, {}), n, "string")
HealthProbeBad(n) ==
    \/ Misread(HealthProbe(n), n)
    \/ ~\E v \in ArgStr(n, 1) : v.kind = "word" /\ v.w \in {"ready", "live"}
HealthProbeOf(n) == [probe |-> Read(ArgStr(n, 1)).w]
MetricsBad(n) == Leftovers(Shape(<<>>, <<>>, {}), n)

-----------------------------------------------------------------------------
(* The bundle.                                                             *)

Directive(phase, order, effects) ==
    [scopes |-> IF phase = "terminal" THEN {"route"} ELSE {"site", "route"}, phase |-> phase,
     order |-> order, effects |-> effects, before |-> {}, conflicts |-> {}]
StdMeta ==
    [name \in {"access-log", "basic-auth", "body-limit", "cors", "encode", "error-pages", "file-server",
               "force-https", "forward-auth", "headers", "health", "ip-filter", "metrics", "rate-limit",
               "redirect", "request-id", "respond", "rewrite", "timeout", "trailing-slash", "proxy"} |->
        CASE name \in {"access-log", "request-id"} -> Directive("observe", 0, {})
          [] name \in {"basic-auth", "cors", "force-https", "ip-filter", "trailing-slash"} ->
                Directive("guard", 0, {})
          [] name = "body-limit"   -> Directive("guard", 0, {"limit"})
          [] name = "rate-limit"   -> Directive("guard", 0, {"quota"})
          [] name = "forward-auth" -> Directive("guard", 50, {"upstream"})
          [] name = "timeout"      -> Directive("guard", -100, {})
          [] name = "rewrite"      -> Directive("request", 0, {})
          [] name \in {"encode", "error-pages", "headers"} -> Directive("response", 0, {})
          [] OTHER -> Directive("terminal", 0, {})]

\* Directive::decode of each: what is refused, and what the rest becomes.
StdBad(n) ==
    CASE n.name = "access-log"     -> AccessLogBad(n)
      [] n.name = "basic-auth"     -> BasicAuthBad(n)
      [] n.name = "body-limit"     -> BodyLimitBad(n)
      [] n.name = "cors"           -> CorsBad(n)
      [] n.name = "encode"         -> EncodeBad(n)
      [] n.name = "error-pages"    -> ErrorPagesBad(n)
      [] n.name = "file-server"    -> FileServerBad(n)
      [] n.name = "force-https"    -> ForceHttpsBad(n)
      [] n.name = "forward-auth"   -> ForwardAuthBad(n)
      [] n.name = "headers"        -> HeadersBad(n)
      [] n.name = "health"         -> HealthProbeBad(n)
      [] n.name = "ip-filter"      -> IpFilterBad(n)
      [] n.name = "metrics"        -> MetricsBad(n)
      [] n.name = "rate-limit"     -> RateLimitBad(n)
      [] n.name = "redirect"       -> RedirectBad(n)
      [] n.name = "request-id"     -> RequestIdBad(n)
      [] n.name = "respond"        -> RespondBad(n)
      [] n.name = "rewrite"        -> RewriteBad(n)
      [] n.name = "timeout"        -> TimeoutBad(n)
      [] n.name = "trailing-slash" -> TrailingSlashBad(n)
      [] n.name = "proxy"          -> FALSE
StdConfig(n) ==
    CASE n.name = "access-log"     -> AccessLogOf(n)
      [] n.name = "basic-auth"     -> BasicAuthOf(n)
      [] n.name = "body-limit"     -> BodyLimitOf(n)
      [] n.name = "cors"           -> CorsOf(n)
      [] n.name = "encode"         -> EncodeOf(n)
      [] n.name = "error-pages"    -> ErrorPagesOf(n)
      [] n.name = "file-server"    -> FileServerOf(n)
      [] n.name = "force-https"    -> ForceHttpsOf(n)
      [] n.name = "forward-auth"   -> ForwardAuthOf(n)
      [] n.name = "headers"        -> HeadersOf(n)
      [] n.name = "health"         -> HealthProbeOf(n)
      [] n.name = "ip-filter"      -> IpFilterOf(n)
      [] n.name = "rate-limit"     -> RateLimitOf(n)
      [] n.name = "redirect"       -> RedirectOf(n)
      [] n.name = "request-id"     -> RequestIdOf(n)
      [] n.name = "respond"        -> RespondOf(n)
      [] n.name = "rewrite"        -> RewriteOf(n)
      [] n.name = "timeout"        -> TimeoutOf(n)
      [] n.name = "trailing-slash" -> TrailingSlashOf(n)
      [] OTHER                     -> <<>>

\* DirectiveConfig::build: what has to be there by then.
BuildBad(d) ==
    CASE d.name = "basic-auth"  -> \E u \in Elements(d.config.users) : u.hash.name \in Missing
      [] d.name = "error-pages" -> \E p \in Elements(d.config.pages) : \E f \in p.file : f \in Missing
      [] d.name = "file-server" -> d.config.root \in Missing
      [] OTHER -> FALSE
=============================================================================
