----------------------------- MODULE MCContent -----------------------------
(***************************************************************************)
(* Model-checking instance of what answers are made of: the chain of       *)
(* handlers around a response and the files it comes from (Middleware,     *)
(* Files), the response cache (Cache), the budget of the blocking work     *)
(* handlers give away (Blocking), and the CGI terminal (Cgi).  A behaviour *)
(* is one of one of them.                                                  *)
(***************************************************************************)
EXTENDS Middleware, Cache, Blocking, Cgi, TLC

VARIABLE component  \* whose behaviour this is

contentVars == <<component, midVars, cacheVars, blockingVars, cgiVars>>

-----------------------------------------------------------------------------
(* The chains, the requests they are asked, the answers of a backend, and  *)
(* the files: one that was compressed beforehand, a hidden one, links that *)
(* lead outside the root and to the hidden one.                            *)

MCMillis == ("ms" :> 1) @@ ("s" :> 1000)
MCBytes == ("b" :> 1)
MCBefore(a, b) == a # b /\ (CHOOSE x \in {a, b} : TRUE) = a
MCWidth == ("v4" :> 1)

P(name, value) == [name |-> name, value |-> value]
Num(n) == [t |-> "int", v |-> n]
Flag(b) == [t |-> "bool", v |-> b]
Dur(n) == Text([kind |-> "duration", n |-> n, unit |-> "ms", w |-> ""])
Net(bit) == Text([kind |-> "cidr", family |-> "v4", bits |-> <<bit>>, length |-> 1])
Path(chars) == Text([kind |-> "path", rooted |-> TRUE, chars |-> chars])
Leaf(name, args, props) == Node(name, args, props, <<>>)
Header(n) == Text([kind |-> "header", name |-> n])
Value(v) == Text([kind |-> "value", of |-> v])
Page(status) == Leaf("page", <<status>>, <<P("body", Word("sorry"))>>)
Class(n) == Text([kind |-> "class", n |-> n])
AtSite(node) == [scope |-> "site", node |-> node]
AtRoute(node) == [scope |-> "route", node |-> node]

Log == Leaf("access-log", <<>>, <<>>)
After == Leaf("timeout", <<Dur(1)>>, <<>>)
Gzip == Leaf("encode", <<Word("gzip")>>, <<P("min-size", Num(2))>>)
Pages(all) == Node("error-pages", <<>>, <<P("all", Flag(all))>>, <<Page(Num(404)), Page(Class(5)), Page(Class(4))>>)
Rate(max, keys) == Leaf("rate-limit", <<>>, <<P("max", Num(max)), P("window", Dur(1)), P("max-keys", Num(keys))>>)
Stamp == Node("headers", <<>>, <<>>, <<Node("response", <<>>, <<>>, <<
             Leaf("set", <<Header("cache-control"), Value("no-transform")>>, <<>>),
             Leaf("add", <<Header("x-a"), Value("1")>>, <<>>), Leaf("remove", <<Header("server")>>, <<>>)>>)>>)
Cross(credentials) == Node("cors", <<>>, <<P("expose", Word("etag")), P("credentials", Flag(credentials))>>,
                           <<Leaf("origin", <<Text([kind |-> "origin", of |-> "o1", path |-> FALSE])>>, <<>>)>>)
Everyone == Node("cors", <<>>, <<>>, <<Leaf("origin", <<Word("*")>>, <<>>)>>)
Secret == Text([kind |-> "secret", named |-> TRUE, inline |-> FALSE, from |-> "env", name |-> "pw"])
Password(user) == Node("basic-auth", <<>>, <<>>, <<Leaf("user", <<Word(user)>>, <<P("hash", Secret)>>)>>)
Consults == Node("forward-auth", <<>>, <<P("upstream", Word("up"))>>, <<Leaf("copy-headers", <<Word("x-user")>>, <<>>)>>)
Serve(browse) == Leaf("file-server", <<>>, <<P("root", Path(<<<<"w">>>>)), P("browse", Flag(browse)),
                                              P("precompressed", Flag(TRUE)),
                                              P("fallback", Path(<<"/", "a">>))>>)
Proxy == Leaf("proxy", <<>>, <<>>)

MCConfigs == {
    <<AtSite(Log), AtSite(After), AtSite(Pages(FALSE)), AtRoute(Log), AtRoute(Gzip), AtRoute(Serve(TRUE))>>,
    <<AtSite(Log), AtRoute(Stamp), AtRoute(Gzip), AtRoute(Serve(FALSE))>>,
    <<AtSite(Log), AtSite(After), AtSite(Pages(FALSE)), AtRoute(Cross(TRUE)), AtRoute(Gzip),
      AtRoute(Leaf("body-limit", <<Num(3)>>, <<>>)), AtRoute(Proxy)>>,
    <<AtSite(Rate(1, 1)), AtRoute(Pages(TRUE)), AtRoute(Password("u")), AtRoute(Proxy)>>,
    <<AtSite(Rate(2, 1)), AtSite(Leaf("ip-filter", <<>>, <<P("deny", Net(1))>>)), AtRoute(Leaf("health", <<Word("live")>>, <<>>))>>,
    <<AtSite(Leaf("request-id", <<>>, <<>>)), AtSite(After), AtRoute(Consults), AtRoute(Pages(FALSE)), AtRoute(Proxy)>>,
    <<AtSite(Leaf("force-https", <<>>, <<>>)), AtSite(Leaf("trailing-slash", <<Word("add")>>, <<>>)), AtSite(Everyone),
      AtRoute(Leaf("rewrite", <<>>, <<P("prefix", Path(<<"/", "b">>))>>)), AtRoute(Gzip),
      AtRoute(Leaf("respond", <<Text([kind |-> "text", len |-> 5])>>, <<>>))>>,
    <<AtRoute(Leaf("redirect", <<Word("there")>>, <<>>))>>,
    <<AtRoute(Leaf("metrics", <<>>, <<>>))>>,
    <<AtRoute(Rate(0, 1)), AtRoute(Proxy)>> }

Offering(items) == [valid |-> TRUE, items |-> items]
Base == [method |-> "GET", path |-> <<"/", "a">>, ip |-> {[family |-> "v4", bits |-> <<0>>]}, declared |-> {},
         frames |-> <<>>, tls |-> TRUE, hasHost |-> TRUE, origin |-> {}, preflight |-> FALSE,
         headers |-> <<>>, cookies |-> <<>>, accept |-> Offering({}), authorization |-> "none",
         ifMatch |-> {}, ifNoneMatch |-> {}, ifUnmodified |-> {}, ifModified |-> {}, range |-> {}, ifRange |-> {}]
Zips == Offering({[coding |-> "gzip", q |-> 9]})
MCQuestions == {
    [Base EXCEPT !.accept = Zips, !.authorization = "good"],
    [Base EXCEPT !.accept = Offering({[coding |-> "br", q |-> 5], [coding |-> "gzip", q |-> 3]}), !.method = "HEAD",
                 !.authorization = "wrong", !.ip = {[family |-> "v4", bits |-> <<1>>]}],
    [Base EXCEPT !.accept = Offering({[coding |-> "*", q |-> 0]}), !.origin = {"o1"}, !.tls = FALSE],
    [Base EXCEPT !.range = {[valid |-> TRUE, first |-> {1}, last |-> {2}]}, !.origin = {"o2"}],
    [Base EXCEPT !.ifNoneMatch = {[valid |-> TRUE, star |-> FALSE, tags |-> {[weak |-> TRUE, of |-> <<"", 3, 1>>]}]}],
    [Base EXCEPT !.ifMatch = {[valid |-> TRUE, star |-> FALSE, tags |-> {}]}, !.method = "HEAD", !.hasHost = FALSE, !.tls = FALSE],
    [Base EXCEPT !.path = <<"/", "c", "/", "%2E", "%2E", "/", "%2E", "s">>, !.origin = {"o1"}, !.frames = <<2, 2>>, !.method = "POST"],
    [Base EXCEPT !.path = <<"/", "c", "/", "l">>, !.declared = {9}],
    [Base EXCEPT !.path = <<"/", "d">>, !.accept = Zips],
    [Base EXCEPT !.path = <<"/", "d", "/">>, !.method = "OPTIONS", !.preflight = TRUE, !.origin = {"o1"}],
    [Base EXCEPT !.path = <<"/", "d", "/">>, !.accept = Zips],
    [Base EXCEPT !.path = <<"/", "none">>, !.ip = {}]}

Whole(status, len, headers) ==
    [status |-> status, headers |-> headers, body |-> [of |-> "backend", coding |-> "identity", len |-> len, stream |-> TRUE]]
MCReplies == {Whole(200, 4, ("content-length" :> {4})), Whole(404, 4, ("content-length" :> {4}) @@ ("etag" :> {[weak |-> FALSE, of |-> "x"]})),
              [Whole(200, 4, ("content-encoding" :> {"gzip"})) EXCEPT !.body.coding = "gzip"]}
MCVerdicts == {[status |-> 200, headers |-> ("x-user" :> {"u"})], [status |-> 302, headers |-> ("location" :> {"login"}) @@ ("content-type" :> {"text"}) @@ ("content-length" :> {9})]}
Root == <<"w">>
Dir == [kind |-> "dir", to |-> <<>>]
MCTree == (<<Root>> :> Dir) @@ (<<Root, <<"d">>>> :> Dir) @@ (<<Root, <<"c">>>> :> Dir)
          @@ (<<Root, <<"c">>, <<"l">>>> :> [kind |-> "link", to |-> <<<<"out">>>>])
          @@ (<<Root, <<"c">>, <<"h">>>> :> [kind |-> "link", to |-> <<Root, <<".", "s">>>>])
FileMeta(len, mtime, ino) == [len |-> len, mtime |-> mtime, ino |-> ino]
MCDisk == (<<Root, <<"a">>>> :> FileMeta(3, 1, 1)) @@ (<<Root, <<"a", ".", "br">>>> :> FileMeta(2, 1, 2))
          @@ (<<<<"out">>>> :> FileMeta(3, 1, 3)) @@ (<<Root, <<".", "s">>>> :> FileMeta(3, 1, 4))
          @@ (<<Root, <<"d">>, <<"b", ".", "png">>>> :> FileMeta(3, 1, 5))
MCEdited == {<<Root, <<"a">>>>, <<Root, <<"a", ".", "br">>>>}

-----------------------------------------------------------------------------
(* Requests of two routes to one target: two values of what an answer may  *)
(* vary on, one with credentials, one that writes.                         *)

Asked(space, header, method, control, conditional, authorized) ==
    [target |-> "t", space |-> space, header |-> header, method |-> method, control |-> control,
     conditional |-> conditional, authorized |-> authorized]
MCFetches == {
    Asked("r1", "x", "safe", "none", "none", FALSE), Asked("r1", "y", "safe", "none", "none", TRUE),
    Asked("r2", "x", "safe", "no-cache", "none", FALSE), Asked("r1", "x", "unsafe", "none", "none", FALSE),
    Asked("r1", "x", "safe", "only-if-cached", "none", FALSE), Asked("r1", "x", "safe", "none", "range", FALSE)}
Offered(says, size, declared, vary, validator) ==
    [says |-> says, size |-> size, declared |-> declared, vary |-> vary, validator |-> validator]
MCOffers == {
    Offered("fresh", 2, TRUE, "none", TRUE), Offered("fresh", 1, FALSE, "header", FALSE),
    Offered("public", 2, FALSE, "header", TRUE), Offered("private", 1, TRUE, "none", FALSE)}

\* Clients run the same code, and so do visits.
ClientSymmetry == Permutations(Clients) \cup Permutations(Visits)

\* Limits that shrink below what is charged.
MCLimits == {[jobs |-> 1, memory |-> 2], [jobs |-> 3, memory |-> 4]}

-----------------------------------------------------------------------------
(* A script that answers with or without a length, more than it said, or   *)
(* with a head that is refused, asked by one visit of one generation over  *)
(* each protocol; and one that never writes, whose process two visits of   *)
(* two generations share one permit for.                                   *)

Speaks(kind) ==
    [kind |-> kind, concurrency |-> 1, maxBody |-> 2, maxBuffer |-> 1, bufferUnknown |-> FALSE,
     passAuthorization |-> FALSE, script |-> <<"talks">>, scriptName |-> <<"s">>, remoteRoot |-> {},
     processLimit |-> {}, serverName |-> "s", target |-> "file"]
MCCgiConfigs == {
    [Speaks("fastcgi") EXCEPT !.bufferUnknown = TRUE], Speaks("scgi"), Speaks("cgi"),
    [Speaks("cgi") EXCEPT !.script = <<"silent">>], [Speaks("cgi") EXCEPT !.remoteRoot = {<<"r">>}],
    [Speaks("scgi") EXCEPT !.processLimit = {1}], [Speaks("fastcgi") EXCEPT !.script = <<"..", "x">>]}
Visit ==
    [head |-> FALSE, garbled |-> FALSE, declared |-> {}, streamed |-> FALSE, body |-> 0, ends |-> "end",
     path |-> <<<<"s">>>>, headers |-> {[name |-> "host", fields |-> 1, text |-> TRUE, underscore |-> FALSE]}, nominated |-> {}]
MCCgiAsks == {
    Visit, [Visit EXCEPT !.head = TRUE], [Visit EXCEPT !.declared = {1}], [Visit EXCEPT !.streamed = TRUE, !.body = 1],
    [Visit EXCEPT !.path = <<<<"%2E", ".">>>>],
    [Visit EXCEPT !.headers = {[name |-> "host", fields |-> 2, text |-> TRUE, underscore |-> FALSE]}]}
Says(length) == [status |-> {}, location |-> "none", length |-> length, framing |-> FALSE, typed |-> TRUE]
MCScripts ==
    (<<"talks">> :> [heads |-> {Says({}), Says({1}), [Says({}) EXCEPT !.location = "local"]}, bytes |-> 2])
    @@ (<<"silent">> :> [heads |-> {}, bytes |-> 0])

\* Which of the two a behaviour is about.
CgiBounded ==
    IF directive.script = <<"talks">>
    THEN /\ Cardinality({v \in Visits : visitor'[v].at # "idle"}) =< 1
         /\ supervisor'[2] = supervisor[2] /\ \A v \in Visits : visitor'[v].gen = 1
    ELSE \A v \in Visits : transfer'[v].ask \subseteq {Visit} /\ visitor'[v].status \notin {400, 411}

-----------------------------------------------------------------------------
ContentInit ==
    /\ component \in {"middleware", "cache", "blocking", "cgi"}
    /\ MidInit /\ CacheInit /\ BlockingInit /\ CgiInit
    /\ component # "cgi" => directive = Speaks("scgi")
    /\ component # "blocking" => inForce.jobs = 1
    /\ component # "middleware" => Len(serving.chain) = 1 /\ serving.chain[1].name = "metrics"

ContentNext ==
    /\ UNCHANGED component
    /\ \/ component = "middleware" /\ MidNext /\ UNCHANGED <<cacheVars, blockingVars, cgiVars>>
       \/ component = "cache" /\ CacheNext /\ UNCHANGED <<midVars, blockingVars, cgiVars>>
       \/ component = "blocking" /\ BlockingNext /\ UNCHANGED <<midVars, cacheVars, cgiVars>>
       \/ component = "cgi" /\ CgiNext /\ CgiBounded /\ UNCHANGED <<midVars, cacheVars, blockingVars>>

ContentSpec == ContentInit /\ [][ContentNext]_contentVars
=============================================================================
