------------------------------- MODULE Planner -------------------------------
(***************************************************************************)
(* The configuration compiler end to end: the sources' documents are       *)
(* normalized, compiled into a plan (gatel-plan plan.rs, spec.rs) and the  *)
(* plan replaces the one before it only when nothing was reported, its     *)
(* state bindings compared with the previous plan's.  Requests are then    *)
(* resolved against the plan that is in force.                             *)
(***************************************************************************)
EXTENDS Normalizer
LOCAL INSTANCE SequencesExt

CONSTANTS Entries,      \* an entry's name |-> what a source can declare, [owner, node]
          MaxEntries,   \* bound: the length of a document
          MaxReloads,   \* bound: how often a document takes effect
          Requests,     \* the requests asked of every plan
          BuildHash     \* Registry::build_hash, one value per build

VARIABLES document,     \* the names of the entries the sources hold
          plan,         \* the plan in force, or nothing
          changes,      \* what the last reload did with each binding
          reloads       \* how many documents took effect

planVars == <<document, plan, changes, reloads>>

\* ---- fingerprints: a hash of a value is the value, an unordered one its set
DirectivePrint(d) == [name |-> d.name, meta |-> Meta(d), scope |-> d.scope, order |-> d.order, config |-> d.config]
TerminalPrint(t) == IF t.to = "proxy" THEN t ELSE [t EXCEPT !.directive = DirectivePrint(@)]
TlsPrint(tls) == {<<t.source, t.files, t.auth>> : t \in tls}
RoutePrint(r) == [r EXCEPT !.directives = [i \in DOMAIN @ |-> DirectivePrint(@[i])],
                           !.terminal = TerminalPrint(@)]
SitePrint(s) == [s EXCEPT !.listeners = Elements(@), !.tls = TlsPrint(@),
                          !.directives = [i \in DOMAIN @ |-> DirectivePrint(@[i])],
                          !.routes = [i \in DOMAIN @ |-> RoutePrint(@[i])]]
GlobalPrint(g) == [g EXCEPT !.trusted = Elements(@)]
SpecPrint(spec) ==
    [global |-> GlobalPrint(spec.global), listeners |-> Elements(spec.listeners),
     sites |-> {SitePrint(s) : s \in Elements(spec.sites)},
     upstreams |-> {UpstreamPrint(u) : u \in Elements(spec.upstreams)}]

\* ---- collect_bindings
Binding(owner, kind, compatibility) == [owner |-> owner, kind |-> kind, compatibility |-> <<compatibility>>]
UpstreamBindings(u) ==
    LET transport == TransportPrint(u) IN
    {Binding(u.id, "endpoints", transport), Binding(u.id, "pool", transport),
     Binding(u.id, "selector", [balance |-> u.balance, transport |-> transport])}
    \cup IF Given(u.health) \/ Given(u.passive)
         THEN {Binding(u.id, "health", [health |-> u.health, passive |-> u.passive, transport |-> transport])}
         ELSE {}
DirectiveBindings(d) ==
    IF Meta(d).state THEN {Binding(d.owner, d.name, [config |-> d.config])} ELSE {}
RouteDirectives(r) == Elements(r.directives) \cup IF r.terminal.to = "directive" THEN {r.terminal.directive} ELSE {}
SiteBindings(s) ==
    UNION {DirectiveBindings(d) : d \in Elements(s.directives) \cup UNION {RouteDirectives(r) : r \in Elements(s.routes)}}
    \cup {Binding(s.id, "certificate", [tls |-> TlsPrint({t})]) : t \in s.tls}
CollectBindings(spec) ==
    UNION {UpstreamBindings(u) : u \in Elements(spec.upstreams)}
    \cup UNION {SiteBindings(s) : s \in Elements(spec.sites)}

\* ---- compile
CompileSite(s) ==
    [id |-> s.id, host |-> s.host, tls |-> s.tls,
     routes |-> [i \in DOMAIN s.routes |->
                   [id |-> s.routes[i].id, path |-> s.routes[i].path, methods |-> s.routes[i].methods,
                    matchers |-> s.routes[i].matchers, terminal |-> s.routes[i].terminal,
                    chain |-> OrderedChain(s.directives \o s.routes[i].directives)]],
     fallback |-> OrderedChain(s.directives)]
CompileListener(spec, l) ==
    LET mine == SelectSeq(spec.sites, LAMBDA s : l \in ListenersFor(spec, s)) IN
    [listener |-> l, sites |-> BySpecificity([i \in DOMAIN mine |-> CompileSite(mine[i])])]
Compiled(spec) ==
    [spec |-> spec, listeners |-> [i \in DOMAIN spec.listeners |-> CompileListener(spec, spec.listeners[i])],
     bindings |-> CollectBindings(spec), specHash |-> SpecPrint(spec),
     planHash |-> <<SpecPrint(spec), BuildHash, CollectBindings(spec)>>]

\* ---- diff_bindings
SameState(a, b) == a.owner = b.owner /\ a.kind = b.kind
Change(what, b) == [what |-> what, owner |-> b.owner, kind |-> b.kind]
FateByOwner(current, b) == IF \E c \in current : SameState(c, b) THEN Change("reuse", b) ELSE Change("create", b)
Fate(current, b) ==
    LET old == {c \in current : SameState(c, b)} IN
    CASE old = {} -> Change("create", b)
      [] \E c \in old : c.compatibility # b.compatibility -> Change("replace", b)
      [] OTHER -> Change("reuse", b)
DiffBindings(current, next) ==
    {Fate(current, b) : b \in next}
    \cup {Change("retire", c) : c \in {c \in current : ~\E b \in next : SameState(b, c)}}

\* ---- behaviour
DocumentOf(names) == [i \in DOMAIN names |-> Entries[names[i]]]
CurrentBindings == UNION {p.bindings : p \in plan}

PlannerInit == document = {} /\ plan = {} /\ changes = {} /\ reloads = 0

\* A source adds an entry, or takes one away.
Declare(name) ==
    /\ reloads < MaxReloads /\ Cardinality(document) < MaxEntries /\ name \notin document
    /\ document' = document \cup {name}
    /\ UNCHANGED <<plan, changes, reloads>>
Withdraw(name) ==
    /\ reloads < MaxReloads /\ name \in document
    /\ document' = document \ {name}
    /\ UNCHANGED <<plan, changes, reloads>>
\* The entries arrive in some order.  Whatever is reported leaves the plan in
\* force as it was.
Reload(names) ==
    /\ reloads < MaxReloads
    /\ \E spec \in Normalize(DocumentOf(names)) :
         /\ plan' = {Compiled(spec)}
         /\ changes' = DiffBindings(CurrentBindings, CollectBindings(spec))
    /\ reloads' = reloads + 1
    /\ UNCHANGED document

PlannerNext ==
    \/ \E name \in DOMAIN Entries : Declare(name) \/ Withdraw(name)
    \/ \E names \in SetToSeqs(document) : Reload(names)

PlannerSpec == PlannerInit /\ [][PlannerNext]_planVars

\* ---- properties
Answer(p, i, r) == Resolve(p.listeners[i].sites, p.spec.global.trusted, p.listeners[i].listener.tls, r)

\* A request is given to the most specific site that takes its host, and
\* within it to a route no other accepting route is more specific than; it is
\* turned away only when nothing accepts it.  The code sorts once, when it
\* normalizes, and takes the first that fits when a request arrives.
RoutesMostSpecific ==
    \A p \in plan : \A i \in DOMAIN p.listeners, r \in Requests :
        LET a     == Answer(p, i, r)
            l     == p.listeners[i]
            asked == [r EXCEPT !.ip = ClientIp(r, p.spec.global.trusted), !.tls = l.listener.tls]
            hosts == {s \in Elements(l.sites) : HostMatches(s.host, r.host)}
            takes(s) == {t \in Elements(s.routes) : \E path \in RoutingPath(r.path) : Accepts(t, asked, path)}
        IN  /\ a.answer = "no host" => hosts = {}
            /\ a.answer = "no route" => \E s \in hosts : s.id \in a.site /\ takes(s) = {}
            /\ a.answer # "no host" /\ a.answer # "bad path" =>
                  \E s \in hosts :
                     /\ a.site = {s.id}
                     /\ \A other \in hosts : ~Above(HostSpecificity(other.host), HostSpecificity(s.host))
                     /\ a.answer = "route" =>
                           \E t \in takes(s) :
                              /\ a.route = {t.id}
                              /\ \A other \in takes(s) : ~Above(Claim(s.host, other), Claim(s.host, t))

\* The order in which sources declare things decides nothing: a document that
\* takes effect in one order takes effect in every other, with the same
\* fingerprint, the same chains and the same answer to every request.
DeclarationOrderFree ==
    [][reloads' > reloads => \A p \in plan', names \in SetToSeqs(document) :
          \E spec \in Normalize(DocumentOf(names)) :
             /\ SpecPrint(spec) = p.specHash
             /\ Compiled(spec).listeners = p.listeners]_planVars

\* Every route of a plan runs each directive of its site and its own once, in
\* an order every declared constraint holds in: phases, `before' names, a
\* body limit before what reads the body, a guard before a cache lookup.
ChainRespectsConstraints ==
    \A p \in plan : \A s \in Elements(p.spec.sites), l \in Elements(p.listeners) :
        \A c \in {c \in Elements(l.sites) : c.id = s.id} : \A i \in DOMAIN c.routes :
            LET chain == c.routes[i].chain IN
            /\ Len(chain) = Len(s.directives) + Len(s.routes[i].directives)
            /\ Elements(chain) = Elements(s.directives) \cup Elements(s.routes[i].directives)
            /\ \A a, b \in DOMAIN chain : a < b =>
                  /\ chain[a].name \notin Meta(chain[b]).before
                  /\ ~(chain[a].scope = chain[b].scope
                       /\ PhaseRank[Meta(chain[b]).phase] < PhaseRank[Meta(chain[a]).phase])
                  /\ ~EffectBefore(chain[b], chain[a])
                  /\ ~(Meta(chain[b]).phase = "guard" /\ "lookup" \in Meta(chain[a]).effects)

\* A plan in force hangs together: every upstream a route or directive names
\* is in it, every site is served somewhere, one that only TLS listeners
\* serve has a certificate, two states never share an identity, and no source
\* names a resource outside its namespace.
PlanCloses ==
    \A p \in plan :
        LET known == {u.id : u \in Elements(p.spec.upstreams)}
            served(s) == {l \in Elements(p.listeners) : \E c \in Elements(l.sites) : c.id = s.id}
        IN  /\ \A s \in Elements(p.spec.sites) :
                  /\ served(s) # {}
                  /\ (\A l \in served(s) : l.listener.tls) => Given(s.tls)
                  /\ s.id[1] = Namespace(s.owner)
                  /\ \A r \in Elements(s.routes) :
                        /\ r.id[1] = Namespace(s.owner)
                        /\ r.terminal.to = "proxy" => r.terminal.upstream \in known
                        /\ \A d \in Elements(s.directives) \cup Elements(r.directives) : References(d) \subseteq known
            /\ \A u \in Elements(p.spec.upstreams) : u.id[1] = Namespace(u.owner)
            /\ \A a, b \in p.bindings : SameState(a, b) => a = b

\* A reload keeps the connections of an upstream exactly when its endpoints,
\* protocol and TLS stayed as they were, whatever else changed around it;
\* every state of the old plan is kept, replaced or retired, once.
ReloadKeepsCompatible ==
    [][reloads' > reloads => \A old \in plan, new \in plan' :
          /\ \A u \in Elements(new.spec.upstreams) :
                LET before == {v \in Elements(old.spec.upstreams) : v.id = u.id} IN
                (Change("reuse", [owner |-> u.id, kind |-> "pool"]) \in changes')
                    <=> (\E v \in before : TransportPrint(v) = TransportPrint(u))
          /\ \A b \in old.bindings : \E c \in changes' :
                SameState(c, b) /\ c.what \in {"reuse", "replace", "retire"}
          /\ \A c, d \in changes' : SameState(c, d) => c = d]_planVars

\* What is decided once, when a document is normalized, holds for every request:
\* the order of sites and routes and the order of every chain; and a plan that
\* was accepted hangs together.
RoutingSound == RoutesMostSpecific /\ ChainRespectsConstraints /\ PlanCloses

\* Neither the order of a document nor what else changed in it decides what a
\* reload does.
ReloadSound == DeclarationOrderFree /\ ReloadKeepsCompatible
=============================================================================
