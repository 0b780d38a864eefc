----------------------------- MODULE Normalizer -----------------------------
(***************************************************************************)
(* From the merged nodes of every source to one specification (gatel-plan  *)
(* normalize/, ordering.rs, directive.rs, gatel-model id.rs).              *)
(*                                                                         *)
(* As in ConfigNodes a part is two operators: BadX says whether anything   *)
(* about it is reported, XOf what it decodes to.  A document is a sequence *)
(* of [owner, node].  A resource is <<namespace, kind, base>> when the     *)
(* text names it and <<namespace, kind, "@", parts>> when the compiler     *)
(* derives the name: a hash of the parts is the parts themselves.          *)
(***************************************************************************)
EXTENDS UpstreamConfig, Matching
LOCAL INSTANCE SequencesExt

CONSTANTS Directives,        \* a registered name |-> its DirectiveMeta and shape
          NameBefore(_, _),  \* the order of resource names
          DrainLimit         \* the longest reload-drain, in milliseconds

Elements(seq) == {seq[i] : i \in DOMAIN seq}
Repeats(seq, Key(_)) == \E i, j \in DOMAIN seq : i < j /\ Key(seq[i]) = Key(seq[j])

\* ---- id.rs: a file owns the root namespace, any other source its own
Namespace(owner) == IF owner.kind = "file" THEN "" ELSE owner.kind
OwnsAnything(owner, v) == TRUE
Owns(owner, v) == v.ns = Namespace(owner)
NewId(kind, v) == <<v.ns, kind, v.w>>
DerivedId(kind, ns, parts) == <<ns, kind, "@", parts>>
DerivedOwned(kind, owner, parts) == DerivedId(kind, Namespace(owner), parts)

\* ---- directive.rs
Meta(d) == Directives[d.name]
Allows(meta, scope) == scope \in meta.scopes
OrderProps(n) == SelectSeq(n.props, LAMBDA p : p.name = "order")
Stripped(n) == [n EXCEPT !.props = SelectSeq(n.props, LAMBDA p : p.name # "order")]
DirectiveBad(n, scope) ==
    \/ n.name \notin DOMAIN Directives
    \/ LET meta == Directives[n.name] IN
       \/ ~Allows(meta, scope)
       \/ Len(OrderProps(n)) > 1
       \/ \E s \in Prop(n, "order") : ~Given(FromValue("i32", s))
       \/ Misread(meta.shape, Stripped(n))
       \/ scope = "site" /\ meta.phase = "terminal"
DirectiveOf(n, scope, resource) ==
    LET meta == Directives[n.name] IN
    [name |-> n.name, scope |-> scope,
     order |-> OrElse(UNION {AsInt(s) : s \in Prop(n, "order")}, meta.order),
     config |-> [key \in DOMAIN meta.shape.props |-> ReadProp(meta.shape, n, key)],
     owner |-> DerivedId("directive", "", <<resource, n.name, scope>>)]
PhaseRank == [p \in {"observe", "guard", "request", "response", "terminal"} |->
                CASE p = "observe" -> 0 [] p = "guard" -> 1 [] p = "request" -> 2
                  [] p = "response" -> 3 [] p = "terminal" -> 255]
\* sort_key, as the relation it induces
KeyBefore(a, b) ==
    LET ka == <<IF a.scope = "site" THEN 0 ELSE 1, PhaseRank[Meta(a).phase], a.order>>
        kb == <<IF b.scope = "site" THEN 0 ELSE 1, PhaseRank[Meta(b).phase], b.order>>
    IN  Above(kb, ka) \/ (ka = kb /\ NameBefore(a.name, b.name))

\* ---- ordering.rs
MustPrecede(a, b) ==
    \/ a = "limit" /\ b \in {"read", "upstream", "quota", "transform"}
    \/ a = "transform" /\ b \in {"read", "upstream"}
EffectBefore(a, b) == \E x \in Meta(a).effects, y \in Meta(b).effects : MustPrecede(x, y)
PrecedesByPhase(a, b) == a.scope = b.scope /\ PhaseRank[Meta(a).phase] < PhaseRank[Meta(b).phase]
Precedes(a, b) ==
    \/ b.name \in Meta(a).before
    \/ a.scope = b.scope /\ PhaseRank[Meta(a).phase] < PhaseRank[Meta(b).phase]
    \/ EffectBefore(a, b)
    \/ Meta(a).phase = "guard" /\ "lookup" \in Meta(b).effects
\* The lowest directive nothing still waits for, until all are taken or all are blocked.
OrderedChain(directives) ==
    LET chain == SortSeq(directives, KeyBefore)
        Ready(done) == {j \in DOMAIN chain \ Elements(done) :
                          \A i \in DOMAIN chain \ (Elements(done) \cup {j}) : ~Precedes(chain[i], chain[j])}
        pick == FoldLeft(LAMBDA done, step : IF Ready(done) = {} THEN done
                                             ELSE Append(done, CHOOSE j \in Ready(done) : \A k \in Ready(done) : j <= k),
                         <<>>, chain)
    IN  [i \in DOMAIN pick |-> chain[pick[i]]]
ChainBad(directives) ==
    \/ \E i, j \in DOMAIN directives : i # j /\ directives[j].name \in Meta(directives[i]).conflicts
    \/ Len(OrderedChain(directives)) < Len(directives)
TerminalName(t) == IF t.to = "proxy" THEN "proxy" ELSE t.directive.name
RouteChainBad(directives, t) ==
    \/ \E i \in DOMAIN directives :
          LET d == directives[i] IN
          \/ TerminalName(t) \in Meta(d).conflicts
          \/ /\ t.to = "directive"
             /\ \/ d.name \in Meta(t.directive).conflicts
                \/ d.name \in Meta(t.directive).before
                \/ EffectBefore(t.directive, d)
    \/ ChainBad(directives)

\* ---- global.rs
ListenerName(n) == IF Len(n.args) = 1 THEN n.name ELSE Read(AsStr(n.args[1])).w
ListenerBad(n) ==
    \/ \E p \in Elements(n.props) : p.name # "proxy-protocol" \/ ~Given(AsBool(p.value))
    \/ Len(n.args) \notin 1..2
    \/ Len(n.args) = 2 /\ ~Given(AsStr(n.args[1]))
    \/ ~\E v \in AsStr(n.args[Len(n.args)]) : Given(ParseSocketAddr(v))
    \/ n.kids # <<>>
ListenerOf(n) ==
    [name |-> ListenerName(n), bind |-> Read(ParseSocketAddr(Read(AsStr(n.args[Len(n.args)])))),
     tls |-> n.name = "https",
     proxied |-> LET ps == n.props IN ps # <<>> /\ Read(AsBool(ps[Len(ps)].value))]

BlockingNode == Shape(<<>>, [k \in {"jobs", "memory"} |-> IF k = "jobs" THEN "u32" ELSE "size"], {})
BlockingBad(n) == \/ Misread(BlockingNode, n)
                  \/ OrElse(ReadProp(BlockingNode, n, "jobs"), 1) \notin 1..1024
                  \/ OrElse(ReadProp(BlockingNode, n, "memory"), 1) = 0
ReloadDrainNode == Shape(<<"duration">>, <<>>, {})
ReloadDrainBad(n) == Misread(ReloadDrainNode, n) \/ Read(ReadArg(ReloadDrainNode, n, 1)) > DrainLimit
LimitsNode == Shape(<<>>, [k \in {"header", "body", "handshake-timeout", "idle", "connections"} |->
                            CASE k \in {"header", "body"} -> "size" [] k = "connections" -> "u32"
                              [] OTHER -> "duration"], {})
DefaultLimits == [header |-> 65536, body |-> 16777216, handshake |-> 10000, idle |-> 60000,
                  connections |-> 10000]
LimitsOf(n) ==
    LET r(key, base) == OrElse(ReadProp(LimitsNode, n, key), base) IN
    [header |-> r("header", DefaultLimits.header), body |-> r("body", DefaultLimits.body),
     handshake |-> r("handshake-timeout", DefaultLimits.handshake), idle |-> r("idle", DefaultLimits.idle),
     connections |-> r("connections", DefaultLimits.connections)]
LogNode == Shape(<<>>, [k \in {"level", "format"} |-> "string"], {})
LogBad(n) == \/ Misread(LogNode, n)
             \/ \E v \in ReadProp(LogNode, n, "format") : v.w \notin {"text", "json", "clf"}
LogOf(n) == [level |-> OrElse({v.w : v \in ReadProp(LogNode, n, "level")}, "info"),
             format |-> OrElse({v.w : v \in ReadProp(LogNode, n, "format")}, "text")]
AcmeNode == Shape(<<>>, [k \in {"ca", "email", "agreed", "directory", "renew-before"} |->
                          CASE k = "agreed" -> "bool" [] k = "renew-before" -> "duration"
                            [] OTHER -> "string"], {})
AcmeBad(n) ==
    \/ Misread(AcmeNode, n)
    \/ ~\E v \in ReadProp(AcmeNode, n, "email") : v.kind = "email"
    \/ OrElse(ReadProp(AcmeNode, n, "agreed"), FALSE) = FALSE
    \/ \E v \in ReadProp(AcmeNode, n, "ca") : v.kind # "url"
    \/ OrElse(ReadProp(AcmeNode, n, "renew-before"), 1) = 0
AcmeOf(n) == [key \in {"ca", "email", "directory", "renew-before"} |-> ReadProp(AcmeNode, n, key)]
\* single_duration: an argument that is missing, or no string, is left out in silence.
GraceBad(n) == \E v \in ArgStr(n, 1) : ~Given(ParseDuration(v))
GraceOf(n) == UNION {ParseDuration(v) : v \in ArgStr(n, 1)}

\* This build has no administration API: after its own checks the node is refused.
AdminBad(n) == TRUE

GlobalChildBad(n) ==
    CASE n.name = "blocking"          -> BlockingBad(n)
      [] n.name \in {"http", "https"} -> ListenerBad(n)
      [] n.name = "grace-period"      -> GraceBad(n)
      [] n.name = "reload-drain"      -> ReloadDrainBad(n)
      [] n.name = "trusted-proxy"     -> \E s \in Elements(n.args) : ~\E v \in AsStr(s) : Given(ParseCidr(v))
      [] n.name = "limits"            -> Misread(LimitsNode, n)
      [] n.name = "log"               -> LogBad(n)
      [] n.name = "acme"              -> AcmeBad(n)
      [] n.name = "admin"             -> AdminBad(n)
      [] OTHER                        -> TRUE
ListenersIn(n) == LET ks == SelectSeq(n.kids, LAMBDA k : k.name \in {"http", "https"})
                  IN  [i \in DOMAIN ks |-> ListenerOf(ks[i])]
GlobalBad(n) ==
    \/ n.args # <<>> \/ n.props # <<>>
    \/ \E k \in Elements(n.kids) : GlobalChildBad(k)
    \/ \E name \in {"blocking", "reload-drain"} : Len(ChildrenNamed(n, name)) > 1
    \/ ListenersIn(n) = <<>>
\* Of the nodes that may be repeated the last one counts, and networks accumulate.
LastOf(seq) == IF seq = <<>> THEN {} ELSE {seq[Len(seq)]}
TrustedIn(n) == FlattenSeq([i \in DOMAIN ChildrenNamed(n, "trusted-proxy") |->
                    LET k == ChildrenNamed(n, "trusted-proxy")[i]
                    IN  [j \in DOMAIN k.args |-> Read(ParseCidr(Read(AsStr(k.args[j]))))]])
GlobalOf(n) ==
    LET graces == SelectSeq(n.kids, LAMBDA k : k.name = "grace-period" /\ Given(GraceOf(k))) IN
    [blocking |-> {[key \in {"jobs", "memory"} |-> ReadProp(BlockingNode, k, key)] : k \in Child(n, "blocking")},
     grace |-> OrElse(UNION {GraceOf(k) : k \in LastOf(graces)}, 30000),
     drain |-> UNION {ReadArg(ReloadDrainNode, k, 1) : k \in Child(n, "reload-drain")},
     limits |-> OrElse({LimitsOf(k) : k \in LastOf(ChildrenNamed(n, "limits"))}, DefaultLimits),
     log |-> OrElse({LogOf(k) : k \in LastOf(ChildrenNamed(n, "log"))}, [level |-> "info", format |-> "text"]),
     acme |-> {AcmeOf(k) : k \in LastOf(ChildrenNamed(n, "acme"))},
     trusted |-> TrustedIn(n)]

\* ---- tls.rs
SiteTlsBad(n) ==
    \/ \E v \in ArgStr(n, 1) : v.w \notin {"internal", "acme"}
    \/ ~Given(ArgStr(n, 1)) /\ \E key \in {"cert", "key"} : ~Given(SecretProperty(n, key))
    \/ \E k \in Child(n, "client-auth") : ~Given(SecretProperty(k, "ca"))
    \/ PropNames(n) \ {"cert", "key"} # {}
SiteTlsOf(n) ==
    [source |-> OrElse({v.w : v \in ArgStr(n, 1)}, "manual"),
     files |-> IF Given(ArgStr(n, 1)) THEN {} ELSE {<<SecretProperty(n, "cert"), SecretProperty(n, "key")>>},
     auth |-> {[required |-> OrElse({v.w = "required" : v \in ArgStr(k, 1)}, TRUE),
                ca |-> Read(SecretProperty(k, "ca"))] : k \in Child(n, "client-auth")},
     automatic |-> FALSE]

\* ---- proxy.rs
ProxyBody(n) == IF n.args = <<>> THEN n
                ELSE Node("proxy", <<>>, <<>>, <<Node("endpoint", <<n.args[1]>>, <<>>, <<>>)>>)
ProxyBad(n) ==
    \/ PropNames(n) \ {"upstream"} # {} \/ Len(n.props) > 1 \/ Len(n.args) > 1
    \/ n.props # <<>> /\ (n.args # <<>> \/ ~Given(PropStr(n, "upstream")) \/ n.kids # <<>>)
    \/ /\ n.props = <<>>
       /\ \/ n.args # <<>> /\ (~Given(AsStr(n.args[1])) \/ n.kids # <<>>)
          \/ n.args = <<>> /\ n.kids = <<>>
          \/ BadUpstream(ProxyBody(n))
\* The private upstream of an inline proxy is named by its site and its whole policy.
AnonymousUpstreamId(site, owner, endpoints) ==
    DerivedOwned("upstream", owner, <<site, {endpoints[i].target : i \in DOMAIN endpoints}>>)
NamedByContent(u, site, owner) == [u EXCEPT !.id = DerivedOwned("upstream", owner, <<site, UpstreamPrint(u)>>)]
InlineUpstream(n, site, owner) ==
    NamedByContent(UpstreamOf(ProxyBody(n), AnonymousUpstreamId(site, owner, EndpointsOf(ProxyBody(n))), owner),
                   site, owner)
ProxyTerminal(n, site, owner) ==
    [to |-> "proxy", upstream |-> IF n.props # <<>> THEN NewId("upstream", Read(PropStr(n, "upstream")))
                                  ELSE InlineUpstream(n, site, owner).id]

\* ---- route and site of mod.rs
Words(args) == UNION {AsStr(args[i]) : i \in DOMAIN args}
MethodBad(n) == \/ \E s \in Elements(n.args) : ~Given(AsStr(s))
                \/ ~Given(ParseMethods({v.w : v \in Words(n.args)}))
RouteKids(n) == SelectSeq(n.kids, LAMBDA k : k.name \notin {"method", "match", "proxy"})
IsTerminal(k) == k.name = "proxy" \/ (k.name \in DOMAIN Directives /\ Directives[k.name].phase = "terminal")
Terminals(n) == SelectSeq(n.kids, IsTerminal)
\* Of several `id' properties the last one names the resource.
ExplicitId(n) == UNION {AsStr(p.value) : p \in LastOf(SelectSeq(n.props, LAMBDA q : q.name = "id"))}
IdBad(n, owner) ==
    \/ \E p \in Elements(n.props) : p.name = "id" /\ ~Given(AsStr(p.value))
    \/ \E v \in ExplicitId(n) : ~Owns(owner, v)
RouteBad(n, owner) ==
    \/ ~\E v \in ArgStr(n, 1) : Given(ParsePath(v))
    \/ PropNames(n) \ {"id"} # {} \/ IdBad(n, owner)
    \/ Len(ChildrenNamed(n, "method")) > 1
    \/ \E k \in Child(n, "method") : MethodBad(k)
    \/ \E k \in Elements(ChildrenNamed(n, "match")) : MatchNodeBad(k)
    \/ \E k \in Elements(ChildrenNamed(n, "proxy")) : ProxyBad(k)
    \/ \E k \in Elements(RouteKids(n)) : DirectiveBad(k, "route")
    \/ Len(Terminals(n)) # 1
    \/ Repeats(SelectSeq(n.kids, LAMBDA k : k \in Elements(RouteKids(n)) /\ ~IsTerminal(k)), LAMBDA k : k.name)
RouteMatchers(n) ==
    LET ks == ChildrenNamed(n, "match") IN FlattenSeq([i \in DOMAIN ks |-> MatchersOf(ks[i])])
RouteOf(n, site, host, owner) ==
    LET path    == Read(ParsePath(Read(ArgStr(n, 1))))
        methods == OrElse(UNION {ParseMethods({v.w : v \in Words(k.args)}) : k \in Child(n, "method")}, {})
        id      == OrElse({NewId("route", v) : v \in ExplicitId(n)},
                          DerivedOwned("route", owner, <<site, host, methods, path, Elements(RouteMatchers(n))>>))
        kids    == SelectSeq(RouteKids(n), LAMBDA k : ~IsTerminal(k))
        last    == Terminals(n)[1]
    IN  [id |-> id, path |-> path, methods |-> methods, matchers |-> RouteMatchers(n),
         directives |-> SortSeq([i \in DOMAIN kids |-> DirectiveOf(kids[i], "route", id)], KeyBefore),
         terminal |-> IF last.name = "proxy" THEN ProxyTerminal(last, site, owner)
                      ELSE [to |-> "directive", directive |-> DirectiveOf(last, "route", id)]]

SiteHost(n) == Read(ParseHost(Read(ArgStr(n, 1))))
SiteListeners(n) == LET ps == SelectSeq(n.props, LAMBDA p : p.name = "listener")
                    IN  [i \in DOMAIN ps |-> Read(AsStr(ps[i].value)).w]
SiteId(n, owner) == OrElse({NewId("site", v) : v \in ExplicitId(n)},
                           DerivedOwned("site", owner, <<SiteHost(n), SiteListeners(n)>>))
SiteKids(n) == SelectSeq(n.kids, LAMBDA k : k.name \notin {"route", "tls"})
SiteBad(n, owner) ==
    \/ Len(n.args) # 1 \/ ~\E v \in ArgStr(n, 1) : Given(ParseHost(v))
    \/ PropNames(n) \ {"listener", "id"} # {} \/ IdBad(n, owner)
    \/ \E p \in Elements(n.props) : ~Given(AsStr(p.value))
    \/ Len(ChildrenNamed(n, "tls")) > 1
    \/ \E k \in Child(n, "tls") : SiteTlsBad(k)
    \/ ChildrenNamed(n, "route") = <<>>
    \/ \E k \in Elements(ChildrenNamed(n, "route")) : RouteBad(k, owner)
    \/ \E k \in Elements(SiteKids(n)) : DirectiveBad(k, "site")
    \/ Repeats(SiteKids(n), LAMBDA k : k.name)
SiteOf(n, owner) ==
    LET id == SiteId(n, owner)
        routes == ChildrenNamed(n, "route")
    IN  [id |-> id, owner |-> owner, host |-> SiteHost(n), listeners |-> SiteListeners(n),
         tls |-> {SiteTlsOf(k) : k \in Child(n, "tls")},
         directives |-> SortSeq([i \in DOMAIN SiteKids(n) |-> DirectiveOf(SiteKids(n)[i], "site", id)], KeyBefore),
         routes |-> [i \in DOMAIN routes |-> RouteOf(routes[i], id, SiteHost(n), owner)]]
NamedUpstreamBad(n, owner) ==
    \/ Len(n.args) # 1
    \/ ~\E v \in ArgStr(n, 1) : Owns(owner, v)
    \/ n.props # <<>>
    \/ BadUpstream(n)

\* ---- validate.rs
ListenersFor(spec, site) ==
    IF site.listeners = <<>> THEN {l \in Elements(spec.listeners) : l.tls = Given(site.tls)}
    ELSE {l \in Elements(spec.listeners) : l.name \in Elements(site.listeners)}
\* A site that only TLS listeners could serve, and that brought no certificate.
Uncertified(listeners, site) ==
    LET mine == {l \in Elements(listeners) : site.listeners = <<>> \/ l.name \in Elements(site.listeners)}
    IN  /\ \E l \in Elements(listeners) : l.tls
        /\ site.tls = {}
        /\ \A l \in mine : l.tls
        /\ site.listeners = <<>> \/ mine # {}
Automatic == [source |-> "internal", files |-> {}, auth |-> {}, automatic |-> TRUE]
WithAutomaticTls(listeners, site) ==
    IF Uncertified(listeners, site) /\ LocalName(site.host) THEN [site EXCEPT !.tls = {Automatic}] ELSE site
UniquenessBad(spec) ==
    LET allRoutes == FlattenSeq([i \in DOMAIN spec.sites |-> spec.sites[i].routes]) IN
    \/ Repeats(spec.sites, LAMBDA s : s.id)
    \/ Repeats(allRoutes, LAMBDA r : r.id)
    \/ Repeats(spec.listeners, LAMBDA l : l.name) \/ Repeats(spec.listeners, LAMBDA l : l.bind)
    \/ Repeats(spec.upstreams, LAMBDA u : u.id)
    \/ \E s \in Elements(spec.sites) : Repeats(s.routes, LAMBDA r : <<r.path, r.methods, r.matchers>>)
References(d) == {NewId("upstream", v) : v \in IF Meta(d).refers = "" THEN {} ELSE d.config[Meta(d).refers]}
ProxyProtocolBad(spec) == spec.global.trusted = <<>> /\ \E l \in Elements(spec.listeners) : l.proxied
AcmeMissing(spec) ==
    \E s \in Elements(spec.sites) : \E t \in s.tls :
        t.source = "acme" /\ (~Given(spec.global.acme) \/ s.host.match # "exact")
ReferencesBad(spec) ==
    LET known == {u.id : u \in Elements(spec.upstreams)} IN
    \/ AcmeMissing(spec)
    \/ ProxyProtocolBad(spec)
    \/ \E s \in Elements(spec.sites) :
       \/ \E name \in Elements(s.listeners) : ~\E l \in Elements(spec.listeners) : l.name = name
       \/ Given(s.tls) /\ \A l \in ListenersFor(spec, s) : ~l.tls
       \/ ListenersFor(spec, s) = {}
       \/ \E d \in Elements(s.directives) : References(d) \ known # {}
       \/ \E r \in Elements(s.routes) :
          \/ \E d \in Elements(r.directives) : References(d) \ known # {}
          \/ r.terminal.to = "proxy" /\ r.terminal.upstream \notin known
SortRoutesByName(site) ==
    [site EXCEPT !.routes = SortSeq(site.routes, LAMBDA a, b : NameBefore(a.id, b.id))]
SortRoutes(site) ==
    [site EXCEPT !.routes = SortSeq(site.routes, LAMBDA a, b :
        \/ Above(Claim(site.host, a), Claim(site.host, b))
        \/ Claim(site.host, a) = Claim(site.host, b) /\ NameBefore(a.id, b.id))]
BySpecificityOnly(sites) == SortSeq(sites, LAMBDA a, b : Above(HostSpecificity(a.host), HostSpecificity(b.host)))
BySpecificity(sites) == SortSeq(sites, LAMBDA a, b :
    \/ Above(HostSpecificity(a.host), HostSpecificity(b.host))
    \/ HostSpecificity(a.host) = HostSpecificity(b.host) /\ NameBefore(a.id, b.id))

\* ---- normalize
NodeBad(e) ==
    CASE e.node.name = "global"   -> e.owner.kind # "file" \/ GlobalBad(e.node)
      [] e.node.name = "site"     -> SiteBad(e.node, e.owner)
      [] e.node.name = "upstream" -> NamedUpstreamBad(e.node, e.owner)
      [] OTHER -> TRUE
\* The private upstreams of one document: the same policy in one site is one upstream.
InlineUpstreams(e) ==
    LET routes == ChildrenNamed(e.node, "route")
        of(r)  == LET t == Terminals(r)[1] IN
                  IF t.name = "proxy" /\ t.props = <<>> THEN {InlineUpstream(t, SiteId(e.node, e.owner), e.owner)} ELSE {}
    IN  UNION {of(r) : r \in Elements(routes)}
SpecOf(doc) ==
    LET pick(name) == SelectSeq(doc, LAMBDA e : e.node.name = name)
        g == pick("global")[1].node
        ls == ListenersIn(g)
        sites == [i \in DOMAIN pick("site") |->
                    LET e == pick("site")[i] IN SortRoutes(WithAutomaticTls(ls, SiteOf(e.node, e.owner)))]
        named == [i \in DOMAIN pick("upstream") |->
                    LET e == pick("upstream")[i] IN UpstreamOf(e.node, NewId("upstream", Read(ArgStr(e.node, 1))), e.owner)]
        inline == UNION {InlineUpstreams(e) : e \in Elements(pick("site"))}
    IN  [global |-> GlobalOf(g), listeners |-> SortSeq(ls, LAMBDA a, b : NameBefore(a.name, b.name)),
         sites |-> BySpecificity(sites),
         upstreams |-> SortSeq(named \o SetToSeq(inline), LAMBDA a, b : NameBefore(a.id, b.id))]
SpecBad(spec) ==
    \/ \E s \in Elements(spec.sites) : Uncertified(spec.listeners, s)
    \/ UniquenessBad(spec)
    \/ ReferencesBad(spec)
    \/ \E s \in Elements(spec.sites) :
          \/ ChainBad(s.directives)
          \/ \E r \in Elements(s.routes) : RouteChainBad(s.directives \o r.directives, r.terminal)
\* The specification a document means, or nothing when anything is reported.
Normalize(doc) ==
    IF \/ \E e \in Elements(doc) : NodeBad(e)
       \/ Len(SelectSeq(doc, LAMBDA e : e.node.name = "global")) # 1
    THEN {} ELSE {spec \in {SpecOf(doc)} : ~SpecBad(spec)}
=============================================================================
