------------------------------- MODULE Files -------------------------------
(***************************************************************************)
(* What the file server decides about one request (gatel-bundle-std        *)
(* file_server.rs, file_path.rs, file_encoding.rs, encoding_accept.rs,     *)
(* preconditions.rs, ranges.rs): which file a path names, in which coding  *)
(* it goes out, whether a condition stops it, and which bytes are sent.    *)
(*                                                                         *)
(* A request path is a sequence of characters, an escape being one of      *)
(* them; a path on the disk is a sequence of names.  `tree' holds what     *)
(* never changes, directories and links; `disk' the files, each with a     *)
(* length and the time of its last write.  The Unix build: the extra names *)
(* Windows reserves are left out.                                          *)
(***************************************************************************)
EXTENDS StdBundle, Collections, SequencesExt

CONSTANTS InlineLimit,   \* the longest body read before the answer leaves
          MaxListed      \* entries a listing may scan

\* ---- file_server.rs safe_relative, file_path.rs
DecodedChar == [c \in {"%2F", "%2E", "%5C", "%25", "%00"} |->
              CASE c = "%2F" -> "/" [] c = "%2E" -> "." [] c = "%5C" -> "\\"
                [] c = "%25" -> "%" [] c = "%00" -> "nul"]
Slashes(path) == {i \in DOMAIN path : \A j \in 1..i : path[j] = "/"}
PercentDecode(path) ==
    IF \E i \in DOMAIN path : path[i] = "%" THEN {}
    ELSE {[i \in DOMAIN path |-> IF path[i] \in DOMAIN DecodedChar THEN DecodedChar[path[i]] ELSE path[i]]}
PublicComponent(name) == name # <<>> /\ name[1] # "." /\ \A i \in DOMAIN name : name[i] # "ctl"
SafeRelative(path) ==
    LET rest == SubSeq(path, Cardinality(Slashes(path)) + 1, Len(path))
        plain == PercentDecode(rest)
        parts(p) == SelectSeq(Segments(<<"/">> \o p), LAMBDA s : s \notin {<<>>, <<".">>})
    IN  {parts(p) : p \in {q \in plain :
            /\ q = <<>> \/ q[1] # "/"
            /\ \A i \in DOMAIN q : q[i] # "nul"
            /\ \A s \in Elements(parts(q)) : s # <<".", ".">> /\ PublicComponent(s)}}

\* canonicalize: the links on the way are followed.
Canonical(tree, path) ==
    FoldLeft(LAMBDA at, name :
                LET next == Append(at, name) IN
                IF next \in DOMAIN tree /\ tree[next].kind = "link" THEN tree[next].to ELSE next,
             <<>>, path)
IsDir(tree, path) == path \in DOMAIN tree /\ tree[path].kind = "dir"
IsFile(disk, path) == path \in DOMAIN disk
Exists(tree, disk, path) == path \in DOMAIN tree \/ path \in DOMAIN disk
PublicTargetAnywhere(root, resolved) ==  \* mutant: a link may lead out of the root
    \A i \in (Len(root) + 1)..Len(resolved) : PublicComponent(resolved[i])
PublicTarget(root, resolved) ==
    /\ IsPrefix(root, resolved)
    /\ \A i \in (Len(root) + 1)..Len(resolved) : PublicComponent(resolved[i])
ContainedFile(tree, disk, root, candidate) ==
    LET resolved == Canonical(tree, candidate) IN
    IF PublicTarget(root, resolved) /\ IsFile(disk, resolved) THEN {resolved} ELSE {}

ToFile(path) == [to |-> "file", path |-> path]
Nowhere == [to |-> "nothing", path |-> <<>>]
\* FileServer::resolve.
ResolveFile(c, tree, disk, path) ==
    LET relative  == SafeRelative(path)
        resolved  == Canonical(tree, c.root \o Read(relative))
        index     == ContainedFile(tree, disk, c.root, Append(resolved, <<c.index>>))
    IN  IF relative = {} \/ ~Exists(tree, disk, resolved) \/ ~PublicTarget(c.root, resolved) THEN Nowhere
        ELSE IF IsFile(disk, resolved) THEN ToFile(resolved)
        ELSE CASE ~IsDir(tree, resolved) -> Nowhere
               [] IsDir(tree, resolved) /\ path[Len(path)] # "/" -> [to |-> "redirect", path |-> Append(path, "/")]
               [] IsDir(tree, resolved) /\ path[Len(path)] = "/" ->
                     IF c.index # "" /\ Given(index) THEN ToFile(Read(index))
                     ELSE IF c.browse THEN [to |-> "listing", path |-> resolved] ELSE Nowhere
\* FileServer::serve: only a file answers for the fallback.
ServeFile(c, tree, disk, path) ==
    LET target == ResolveFile(c, tree, disk, path)
        instead == {ResolveFile(c, tree, disk, f) : f \in c.fallback}
    IN  IF target # Nowhere THEN target
        ELSE OrElse({t \in instead : t.to = "file"}, Nowhere)

\* ---- file_listing.rs: what a directory shows, or nothing when it is too much
ListingOf(c, tree, disk, dir) ==
    LET inside == {p \in DOMAIN tree \cup DOMAIN disk : Len(p) = Len(dir) + 1 /\ IsPrefix(dir, p)}
        shown  == {p \in inside :
                     /\ PublicComponent(p[Len(p)])
                     /\ PublicTarget(c.root, Canonical(tree, p))
                     /\ Exists(tree, disk, Canonical(tree, p))}
    IN  IF Cardinality(inside) > MaxListed THEN {} ELSE {{p[Len(p)] : p \in shown}}

\* ---- encoding_accept.rs: a field is its items, or unreadable
AcceptOffers(accept) ==
    IF ~accept.valid THEN {}
    ELSE LET names == {i.coding : i \in accept.items} IN
         {[n \in names |-> CHOOSE q \in {i.q : i \in {i \in accept.items : i.coding = n}} :
                             \A i \in accept.items : i.coding = n => q <= i.q]}
Quality(offers, coding) ==
    CASE coding \in DOMAIN offers -> offers[coding]
      [] coding \notin DOMAIN offers /\ "*" \in DOMAIN offers -> offers["*"]
      [] OTHER -> 0
SelectCoding(accept, supported) ==
    LET offers == Read(AcceptOffers(accept))
        better(best, coding) == IF Quality(offers, coding) > best.q
                                THEN [coding |-> coding, q |-> Quality(offers, coding)] ELSE best
        best == FoldLeft(better, [coding |-> "none", q |-> 0], supported)
        refused(n) == n \in DOMAIN offers /\ offers[n] = 0
    IN  CASE ~Given(AcceptOffers(accept)) -> "invalid"
          [] "identity" \in DOMAIN offers /\ offers["identity"] > best.q -> "identity"
          [] best.q > 0 -> best.coding
          [] refused("identity") \/ ("identity" \notin DOMAIN offers /\ refused("*")) -> "not acceptable"
          [] OTHER -> "identity"
CodingOf(selection) == {selection} \ {"invalid", "identity", "not acceptable"}

\* ---- file_server.rs precompressed_variants, file_encoding.rs available
Sidecar(path, coding) == [path EXCEPT ![Len(path)] = @ \o <<".", coding>>]
PrecompressedVariants(c, tree, disk, path, opened) ==
    LET all == <<"br", "zstd", "gzip">> IN
    IF ~c.precompressed THEN <<>>
    ELSE Retain(all, {i \in DOMAIN all : \E v \in ContainedFile(tree, disk, c.root, Sidecar(path, all[i])) :
                                            disk[v].mtime >= opened.mtime})
\* What the response headers will say once the operations around have run.
Previewed(layers, headers, Apply(_, _)) == FoldRight(LAMBDA ops, h : Apply(ops, h), layers, headers)
DynamicCodings(offers, size, allowed) ==
    LET fit == SelectSeq(offers, LAMBDA o : size >= o.min)
        once == FoldLeft(LAMBDA got, o : IF o.coding \in Elements(got) THEN got ELSE Append(got, o.coding), <<>>, fit)
    IN  IF allowed THEN once ELSE <<>>

\* ---- preconditions.rs: tags are [weak, of]; no answer when a field is malformed
StrongEqual(a, b) == ~a.weak /\ ~b.weak /\ a.of = b.of
TagsMatch(field, current, weak) ==
    CASE ~field.valid \/ (field.star /\ field.tags # {}) -> {}
      [] OTHER -> {\/ field.star
                   \/ \E t \in field.tags, now \in current :
                         t.of = now.of /\ (weak \/ StrongEqual(t, now))}
Precondition(q, current, modified) ==
    LET retrieval == q.method \in {"GET", "HEAD"}
        matches == UNION {TagsMatch(f, current, FALSE) : f \in q.ifMatch}
        same    == UNION {TagsMatch(f, current, TRUE) : f \in q.ifNoneMatch}
        later   == q.ifMatch = {} /\ \E t \in q.ifUnmodified, m \in modified : m > t
        early   == q.ifNoneMatch = {} /\ retrieval /\ \E t \in q.ifModified, m \in modified : m <= t
    IN  CASE q.method \in {"CONNECT", "OPTIONS", "TRACE"} -> {}
          [] Given(q.ifMatch) /\ matches = {}      -> {400}
          [] matches = {FALSE} \/ later            -> {412}
          [] Given(q.ifNoneMatch) /\ same = {}     -> {400}
          [] same = {TRUE} -> {IF retrieval THEN 304 ELSE 412}
          [] early -> {304}
          [] OTHER -> {}

\* ---- ranges.rs: one range of bytes, from both ends or from one
WholeFile == [part |-> "whole", start |-> 0, end |-> 0]
NoPart == [part |-> "none", start |-> 0, end |-> 0]
PartOf(start, end) == [part |-> "part", start |-> start, end |-> end]
WantedPart(q, size, tag) ==
    LET r == Read(q.range)
        first == Read(r.first)
        last == Read(r.last)
        end == IF last < size - 1 THEN last ELSE size - 1
        ifRange == \A c \in q.ifRange : c.valid /\ StrongEqual(c, tag)
    IN  CASE q.range = {} \/ ~ifRange \/ ~r.valid -> WholeFile
          [] r.first = {} /\ r.last = {} -> WholeFile
          [] r.first = {} /\ r.last # {} ->
                IF size = 0 \/ last = 0 THEN NoPart
                ELSE PartOf(IF last < size THEN size - last ELSE 0, size - 1)
          [] r.first # {} /\ r.last = {} -> IF first < size THEN PartOf(first, size - 1) ELSE NoPart
          [] OTHER -> CASE first > last -> WholeFile
                        [] first <= last /\ first < size -> PartOf(first, end)
                        [] OTHER -> NoPart
\* deliver: the part is checked against the file that was opened.
PartFits(wanted, size) == wanted.part = "part" => wanted.start <= wanted.end /\ wanted.end < size
PartLength(wanted, size) == IF wanted.part = "part" THEN wanted.end - wanted.start + 1 ELSE size
=============================================================================
