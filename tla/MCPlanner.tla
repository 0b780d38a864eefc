----------------------------- MODULE MCPlanner -----------------------------
(***************************************************************************)
(* Model-checking instance of the compiler: a document grows and shrinks   *)
(* entry by entry and is reloaded.  Its entries are sites with exact and   *)
(* wildcard hosts, routes that overlap, directives that constrain each     *)
(* other's order, a source that names what it does not own, and an         *)
(* upstream that is rewritten compatibly or moved.                         *)
(***************************************************************************)
EXTENDS Planner, TLC

MCMillis == ("ms" :> 1) @@ ("s" :> 1000) @@ ("m" :> 60000) @@ ("d" :> 86400000)
MCBytes == ("b" :> 1) @@ ("kib" :> 1024)
MCBefore(a, b) == a # b /\ (CHOOSE x \in {a, b} : TRUE) = a
MCWidth == ("v4" :> 4) @@ ("v6" :> 6)

-----------------------------------------------------------------------------
(* Nodes of the configuration language.                                    *)
Id(ns, w) == Text([kind |-> "word", w |-> w, ns |-> ns])
P(name, value) == [name |-> name, value |-> value]
Host(labels) == Text([kind |-> "host", labels |-> labels, port |-> FALSE])
Path(chars, star) == Text([kind |-> "path", rooted |-> TRUE, query |-> FALSE, star |-> star, chars |-> chars])
Addr(ip, port) == Text([kind |-> "address", numeric |-> TRUE, ip |-> ip, port |-> port, valid |-> TRUE])
Dur(n, unit) == Text([kind |-> "duration", n |-> n, unit |-> unit, w |-> ""])
Net(bits, length) == Text([kind |-> "cidr", family |-> "v4", bits |-> bits, length |-> length])
Pair(name, value) == Text([kind |-> "pair", name |-> name, value |-> value])
Num(n) == [t |-> "int", v |-> n]
Flag(b) == [t |-> "bool", v |-> b]
Leaf(name, args, props) == Node(name, args, props, <<>>)
Route(path, props, kids) == Node("route", <<path>>, props, kids)
File == [kind |-> "file"]
Admin == [kind |-> "runtime"]
Use(name) == Leaf("proxy", <<>>, <<P("upstream", Id("", name))>>)
Answers == Leaf("respond", <<>>, <<>>)

Plain(phase, effects, before) ==
    [scopes |-> {"site", "route"}, phase |-> phase, order |-> 0, effects |-> effects, before |-> before,
     conflicts |-> {}, shape |-> Shape(<<>>, <<>>, {}), state |-> FALSE, refers |-> ""]
MCDirectives ==
    ("limit" :> [Plain("guard", {"limit"}, {}) EXCEPT !.order = 5])
    @@ ("rate" :> [Plain("guard", {"quota"}, {}) EXCEPT !.state = TRUE, !.order = -10,
                        !.shape = Shape(<<>>, ("rps" :> "u32"), {"rps"})])
    @@ ("auth" :> [Plain("guard", {}, {"rate"}) EXCEPT !.refers = "to", !.order = 9,
                        !.shape = Shape(<<>>, ("to" :> "string"), {"to"})])
    @@ ("cache" :> Plain("request", {"lookup"}, {}))
    @@ ("log" :> Plain("observe", {}, {}))
    @@ ("respond" :> [Plain("terminal", {}, {}) EXCEPT !.scopes = {"route"}, !.conflicts = {"cache"}])

Global(kids) == [owner |-> File, node |-> Node("global", <<>>, <<>>, kids)]
Http == Leaf("http", <<Addr("any", 80)>>, <<>>)
Https == Leaf("https", <<Addr("any", 443)>>, <<>>)
Trust == Leaf("trusted-proxy", <<Net(<<1, 0, 0, 0>>, 1)>>, <<>>)
Site(owner, host, props, kids) == [owner |-> owner, node |-> Node("site", <<host>>, props, kids)]
Up(owner, ns, name, kids) == [owner |-> owner, node |-> Node("upstream", <<Id(ns, name)>>, <<>>, kids)]
End(ip) == Leaf("endpoint", <<Addr(ip, 9000)>>, <<>>)

MCEntries ==
    ("both" :> Global(<<Http, Https, Trust, Leaf("grace-period", <<Dur(5, "s")>>, <<>>)>>))
    @@ ("secure" :> Global(<<Https>>))
    @@ ("named" :> Site(File, Host(<<"a", "b">>), <<>>, <<
            Leaf("cache", <<>>, <<>>), Leaf("rate", <<>>, <<P("rps", Num(1))>>), Leaf("log", <<>>, <<>>),
            Route(Path(<<"/", "x", "/">>, TRUE), <<>>, <<Use("up"), Leaf("limit", <<>>, <<>>),
                  Leaf("auth", <<>>, <<P("to", Id("", "up"))>>)>>),
            Route(Path(<<"/">>, TRUE), <<P("id", Id("", "other"))>>, <<Use("up"),
                  Leaf("method", <<Word("GET")>>, <<>>)>>),
            Route(Path(<<"/">>, TRUE), <<>>, <<Use("up"),
                  Leaf("match", <<>>, <<P("client-ip", Net(<<0, 0, 0, 0>>, 1))>>)>>)>>))
    @@ ("wild" :> Site(File, Host(<<"*", "b">>), <<P("id", Id("", "wild"))>>, <<
            Leaf("rate", <<>>, <<P("rps", Num(2))>>),
            Route(Path(<<"/">>, TRUE), <<>>, <<Answers>>),
            Route(Path(<<"/", "x">>, FALSE), <<>>, <<Answers,
                  Leaf("match", <<>>, <<P("header", Pair("h", {}))>>)>>)>>))
    @@ ("local" :> Site(File, Host(<<"localhost">>), <<>>, <<
            Route(Path(<<"/">>, TRUE), <<>>, <<Leaf("proxy", <<Addr("e1", 9000)>>, <<>>)>>),
            Route(Path(<<"/", "x", "/">>, TRUE), <<>>, <<Leaf("proxy", <<Addr("e1", 9000)>>, <<>>)>>)>>))
    @@ ("theirs" :> Site(Admin, Host(<<"*">>), <<P("id", Id("runtime", "all")), P("listener", Word("http"))>>, <<
            Route(Path(<<"/">>, TRUE), <<>>, <<Answers>>)>>))
    @@ ("stolen" :> Site(Admin, Host(<<"*">>), <<P("id", Id("", "all"))>>, <<
            Route(Path(<<"/">>, TRUE), <<>>, <<Answers>>)>>))
    @@ ("twin" :> Site(File, Host(<<"*">>), <<>>, <<Route(Path(<<"/">>, TRUE), <<>>, <<Answers>>)>>))
    @@ ("up" :> Up(File, "", "up", <<End("e1"), End("e2")>>))
    @@ ("again" :> Up(File, "", "up", <<End("e2"), End("e1"), Leaf("balance", <<Word("first")>>, <<>>)>>))
    @@ ("moved" :> Up(File, "", "up", <<End("e3")>>))

Asks(host, path) == [host |-> host, method |-> "GET", path |-> path, headers |-> {}, query |-> {}, cookies |-> {},
                     ip |-> 0, peer |-> [family |-> "v4", bits |-> <<1, 1, 0, 0>>], forwarded |-> {}, tls |-> FALSE]
MCRequests ==
    LET hosts == {<<"a", "b">>, <<"c", "b">>, <<"localhost">>}
        paths == {<<"/", "x">>, <<"/", "x", "/", "y">>, <<"/", "z", "/", ".", ".", "/", "x", "/">>, <<"z">>}
        base == {Asks(h, p) : h \in hosts, p \in paths}
    IN  base \cup {[r EXCEPT !.method = "POST", !.headers = {<<"h", "v">>},
                               !.forwarded = {[family |-> "v4", bits |-> <<0, 0, 1, 1>>]}] : r \in base}
=============================================================================
