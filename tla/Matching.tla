------------------------------ MODULE Matching ------------------------------
(***************************************************************************)
(* What a route claims and which requests it takes: hosts, canonical       *)
(* paths, methods and conditions (gatel-plan matcher.rs, request_path.rs), *)
(* and the choice of one site and one route for a request (gatel-http      *)
(* dispatch.rs).                                                           *)
(*                                                                         *)
(* A host is the sequence of its labels, a path the sequence of its        *)
(* characters with every escape a character of its own, an address a       *)
(* family and its bits.  Specificity is by length as in the code; a host   *)
(* counts labels where the code counts bytes, which orders every two       *)
(* suffixes of one host the same way.                                      *)
(***************************************************************************)
EXTENDS ConfigNodes, FiniteSets
LOCAL INSTANCE SequencesExt

CONSTANTS LocalTops,      \* the top-level names no public authority certifies
          LocalAddresses, \* literal addresses that are private or loopback
          Width           \* the address families, and the number of bits of each

\* ---- hosts
ParseHost(v) ==
    LET stars == {i \in DOMAIN v.labels : v.labels[i] = "*"} IN
    CASE v.kind # "host" \/ v.port \/ v.labels = <<>> -> {}
      [] v.labels = <<"*">>                 -> {[match |-> "any", labels |-> <<>>]}
      [] stars = {1} /\ v.labels # <<"*">>  -> {[match |-> "suffix", labels |-> Tail(v.labels)]}
      [] stars = {} -> {[match |-> "exact", labels |-> v.labels]}
      [] OTHER      -> {}
HostMatches(h, labels) ==
    CASE h.match = "any"    -> TRUE
      [] h.match = "exact"  -> labels = h.labels
      [] h.match = "suffix" -> Len(labels) > Len(h.labels) /\ IsSuffix(h.labels, labels)
HostSpecificity(h) == CASE h.match = "exact"  -> <<2, Len(h.labels)>>
                        [] h.match = "suffix" -> <<1, Len(h.labels)>>
                        [] h.match = "any"    -> <<0, 0>>
IsLocal(labels) ==
    \/ labels = <<"localhost">>
    \/ labels \in LocalAddresses
    \/ Len(labels) > 1 /\ labels[Len(labels)] \in LocalTops
LocalName(h) == h.match # "any" /\ IsLocal(h.labels)

\* ---- paths
Unescape(c) == CASE c \in {"%2F", "%5C", "\\"} -> "/"
                 [] c = "%2E" -> "."
                 [] c = "%25" -> "%"
                 [] c = "%00" -> "ctl"
                 [] OTHER     -> c
Segments(path) ==
    LET seps == SetToSortSeq({i \in DOMAIN path : path[i] = "/"}, <) IN
    [k \in DOMAIN seps |-> SubSeq(path, seps[k] + 1, IF k < Len(seps) THEN seps[k + 1] - 1 ELSE Len(path))]
Climb(parts, part) == CASE part \in {<<>>, <<".">>} -> parts
                        [] part = <<".", ".">> -> IF parts = <<>> THEN parts ELSE Front(parts)
                        [] OTHER -> Append(parts, part)
NeedsNormalizing(path) ==
    \/ \E i \in DOMAIN path : path[i] \in {"%2F", "%5C", "\\", "%2E", "%25", "%00", "%"}
    \/ \E k \in DOMAIN Segments(path) :
          \/ Segments(path)[k] \in {<<".">>, <<".", ".">>}
          \/ Segments(path)[k] = <<>> /\ k < Len(Segments(path))
\* The path requests and routes are compared by, or nothing when it is refused.
RoutingPath(path) ==
    LET plain == [i \in DOMAIN path |-> Unescape(path[i])]
        segs  == Segments(plain)
        parts == FoldLeft(Climb, <<>>, segs)
        slash == segs[Len(segs)] \in {<<>>, <<".">>, <<".", ".">>}
        whole == FoldLeft(LAMBDA acc, p : acc \o <<"/">> \o p, <<>>, parts)
    IN  CASE path = <<"*">> -> {path}
          [] path = <<>> \/ path[1] # "/" -> {}
          [] \E i \in DOMAIN path : path[i] = "%" -> {}
          [] \E i \in DOMAIN plain : plain[i] = "ctl" -> {}
          [] ~NeedsNormalizing(path) -> {path}
          [] OTHER -> {IF whole = <<>> THEN <<"/">> ELSE IF slash THEN Append(whole, "/") ELSE whole}
ParsePath(v) ==
    IF v.kind = "path" /\ v.rooted /\ ~v.query
    THEN {[match |-> IF v.star THEN "prefix" ELSE "exact", path |-> p] : p \in RoutingPath(v.chars)} ELSE {}
PathMatches(m, path) ==
    CASE m.match = "exact"  -> path = m.path
      [] m.match = "prefix" ->
            \/ IsPrefix(m.path, path)
            \/ m.path[Len(m.path)] = "/" /\ path = Front(m.path)
PathSpecificity(m) == <<IF m.match = "exact" THEN 1 ELSE 0, Len(m.path)>>

\* ---- methods: the empty set stands for any
ParseMethods(words) ==
    CASE "*" \in words /\ words # {"*"} -> {}
      [] "*" \in words -> {{}}
      [] OTHER -> {words}
MethodMatches(ms, method) == ms = {} \/ method \in ms \/ (method = "HEAD" /\ "GET" \in ms)
MethodSpecificity(ms) == IF ms = {} THEN 0 ELSE 1

\* ---- networks.  A length of 255 is also how the code writes a missing one.
NoLength == 255
ParseCidr(v) ==
    LET length == IF v.length = NoLength THEN Width[v.family] ELSE v.length IN
    IF v.kind = "cidr" /\ length <= Width[v.family]
    THEN {[family |-> v.family, bits |-> v.bits, length |-> length]} ELSE {}
InNetwork(ip, net) ==
    /\ ip.family = net.family
    /\ SubSeq(ip.bits, 1, net.length) = SubSeq(net.bits, 1, net.length)

\* ---- conditions
\* One property of a `match' node; a flag is also read where text is wanted.
ConditionBad(p) ==
    CASE p.name \in {"header", "query", "cookie"} ->
            ~\E v \in AsStr(p.value) : v.kind = "pair" /\ v.name # ""
      [] p.name = "client-ip" -> ~\E v \in AsStr(p.value) : Given(ParseCidr(v))
      [] p.name = "tls" -> ~Given(AsBool(p.value))
      [] OTHER -> TRUE
ConditionOf(p) ==
    CASE p.name \in {"header", "query", "cookie"} ->
            LET v == Read(AsStr(p.value)) IN [on |-> p.name, name |-> v.name, value |-> v.value]
      [] p.name = "client-ip" -> [on |-> "client-ip", net |-> Read(ParseCidr(Read(AsStr(p.value))))]
      [] p.name = "tls" -> [on |-> "tls", flag |-> Read(AsBool(p.value))]
MatchNodeBad(n) == n.args # <<>> \/ \E i \in DOMAIN n.props : ConditionBad(n.props[i])
\* The conditions of one node are sorted by their description; of two, they follow one another.
ConditionRank == [c \in {"client-ip", "cookie", "header", "query", "tls"} |->
                    CASE c = "client-ip" -> 1 [] c = "cookie" -> 2 [] c = "header" -> 3
                      [] c = "query" -> 4 [] c = "tls" -> 5]
MatchersOf(n) ==
    LET of == [i \in DOMAIN n.props |-> ConditionOf(n.props[i])]
    IN  SortSeq(of, LAMBDA a, b : ConditionRank[a.on] < ConditionRank[b.on])
MatchValue(m, pairs) == \E h \in pairs : h[1] = m.name /\ (m.value = {} \/ h[2] \in m.value)
Holds(m, r) ==
    CASE m.on = "header" -> MatchValue(m, r.headers)
      [] m.on = "query"  -> MatchValue(m, r.query)
      [] m.on = "cookie" -> MatchValue(m, r.cookies)
      [] m.on = "client-ip" -> InNetwork(r.ip, m.net)
      [] m.on = "tls" -> r.tls = m.flag

\* ---- compare_specificity, and the whole claim of a route
Claim(host, route) == HostSpecificity(host) \o PathSpecificity(route.path)
                      \o <<MethodSpecificity(route.methods), Len(route.matchers)>>
Above(a, b) == \E i \in DOMAIN a : a[i] > b[i] /\ \A j \in 1..(i - 1) : a[j] = b[j]
Accepts(route, r, path) ==
    /\ PathMatches(route.path, path)
    /\ MethodMatches(route.methods, r.method)
    /\ \A i \in DOMAIN route.matchers : Holds(route.matchers[i], r)

\* ---- Dispatcher::resolve over the sites of one listener
FirstIn(seq, Test(_)) ==
    LET hits == {i \in DOMAIN seq : Test(seq[i])} IN
    IF hits = {} THEN {} ELSE {seq[CHOOSE i \in hits : \A j \in hits : i <= j]}
\* client_ip: the last forwarded address, believed only from a trusted peer.
ClientIp(r, trusted) ==
    IF \E i \in DOMAIN trusted : InNetwork(r.peer, trusted[i]) THEN OrElse(r.forwarded, r.peer) ELSE r.peer
Resolve(sites, trusted, tls, r) ==
    LET asked == [r EXCEPT !.ip = ClientIp(r, trusted), !.tls = tls]
        site  == FirstIn(sites, LAMBDA s : HostMatches(s.host, r.host))
        path  == RoutingPath(r.path)
    IN  CASE path = {} -> [answer |-> "bad path", site |-> {}, route |-> {}]
          [] site = {} -> [answer |-> "no host", site |-> {}, route |-> {}]
          [] OTHER ->
               LET route == FirstIn(Read(site).routes, LAMBDA t : Accepts(t, asked, Read(path))) IN
               [answer |-> IF route = {} THEN "no route" ELSE "route",
                site |-> {Read(site).id}, route |-> {t.id : t \in route}]
=============================================================================
