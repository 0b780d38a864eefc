-------------------------------- MODULE Cache --------------------------------
(***************************************************************************)
(* The response cache of gatel-bundle-std (cache/): the store with its     *)
(* byte budget, variants and eviction, and CacheHandler::handle with       *)
(* lookup, revalidation, fill and invalidation.                            *)
(*                                                                         *)
(* The handler takes the store's lock several times and awaits the origin  *)
(* and the body in between: each of those is a step.  The origin is a      *)
(* version number per target, so that a copy says how old its content is.  *)
(* Copies are kept in the order of their last use, which is what `used`    *)
(* is for.  Age is a flag: a copy is fresh until its lifetime is over.     *)
(***************************************************************************)
EXTENDS Collections

CONSTANTS Clients,     \* requests
          Targets,     \* what they ask for
          Fetches,     \* requests to choose from: see Ask
          Offers,      \* answers to choose from: see Offer
          MaxBytes,    \* Store.max_bytes
          MaxEntry,    \* CacheHandler.max_entry
          MaxFills,    \* fills at once
          MaxVersion   \* bound on writes

\* A request: its target, the identity of the route that serves it, a header an
\* answer may vary on, and what it demands.
Ask == [target : Targets, space : {"r1", "r2"}, header : {"x", "y"},
        method : {"safe", "unsafe"}, control : {"none", "no-store", "no-cache", "only-if-cached"},
        conditional : {"none", "validator", "range"}, authorized : BOOLEAN]

\* An answer: what it says of its own caching, its size and whether that is
\* declared, and the header it varies on.
Offer == [says : {"fresh", "public", "private", "cookie", "vary star", "bad age", "stale"},
          size : 1..3, declared : BOOLEAN, vary : {"none", "header"}, validator : BOOLEAN]

\* What decode accepts: room for something, and for an entry of the limit.
Decoded == MaxEntry <= MaxBytes /\ MaxBytes \in Nat \ {0}

ASSUME CacheAssumption ==
  /\ Fetches \subseteq Ask /\ Fetches # {} /\ Offers \subseteq Offer
  /\ Decoded /\ MaxEntry \in Nat /\ MaxFills \in Nat \ {0}

VARIABLES shelf,   \* Contents and Store.bytes
          fill,    \* of each request: the bytes it has reserved, 0 for none
          fetch,   \* of each request: where handle is
          origin,  \* the version of each target
          settled  \* the version its last acknowledged write left

cacheVars == <<shelf, fill, fetch, origin, settled>>

NoCopy == [id |-> 0, key |-> <<>>, sign |-> "none", ver |-> 0, weight |-> 0, fresh |-> FALSE,
           validator |-> FALSE, header |-> "none", varies |-> FALSE, shared |-> TRUE]
NoFetch == [pc |-> "none", q |-> CHOOSE q \in Fetches : TRUE, rev |-> 0, stale |-> NoCopy, seen |-> 0,
            retire |-> FALSE, ver |-> 0, got |-> NoCopy, same |-> FALSE]

CacheInit ==
  /\ shelf = [copies |-> <<>>, vary |-> {}, revision |-> 0, bytes |-> 0]
  /\ fill = [c \in Clients |-> 0]
  /\ fetch = [c \in Clients |-> NoFetch]
  /\ origin = [t \in Targets |-> 0]
  /\ settled = [t \in Targets |-> 0]

-----------------------------------------------------------------------------
(* The store.                                                              *)

CopyKey(q) == <<q.target, q.space>>
CopiesOf(s) == {s.copies[i] : i \in DOMAIN s.copies}
CopySet == CopiesOf(shelf)
WeightOf(S) == SumFunction([c \in S |-> c.weight])

\* What a key is known to vary on, and a request's signature under it.
Varies(key) == [key |-> key, on |-> "header"] \in shelf.vary
Known(key) == \E v \in shelf.vary : v.key = key
SignatureOf(q, varies) == IF varies THEN q.header ELSE "none"
Signature(q) == SignatureOf(q, Varies(CopyKey(q)))

\* Copies leave, and with the last one what their key varies on.
Without(s, gone) ==
  LET left == Retain(s.copies, {i \in DOMAIN s.copies : s.copies[i] \notin gone})
  IN [s EXCEPT !.copies = left,
               !.bytes = @ - WeightOf(gone),
               !.vary = {v \in @ : \E i \in DOMAIN left : left[i].key = v.key}]

\* lookup drops what is not fresh under the key, whoever may ask for it.
Purged(key) == Without(shelf, {c \in CopySet : c.key = key /\ ~c.fresh})
Found(q) == {c \in CopySet : c.key = CopyKey(q) /\ c.fresh /\ c.sign = Signature(q)}
Touched(s, c) == [s EXCEPT !.copies = Append(Retain(@, {i \in DOMAIN @ : @[i] # c}), c)]

\* invalidate: every route's copy of the target.
InvalidateOwn(t) ==  \* mutant: fills under way are not fenced
  Without(shelf, {c \in CopySet : c.key[1] = t})
Invalidate(t) ==
  [Without(shelf, {c \in CopySet : c.key[1] = t}) EXCEPT !.revision = @ + 1]

\* discard_observed: the copy that was there, not one that replaced it.
Discard(id) ==
  LET there == {d \in CopySet : d.id = id}
  IN IF there = {} THEN shelf ELSE [Without(shelf, there) EXCEPT !.revision = @ + 1]

\* evict_down_to_budget: the least recently used, until there is room.
Victims(s) ==
  LET needed == s.bytes - MaxBytes
      first(n) == {s.copies[i] : i \in 1..n}
  IN IF needed <= 0 THEN {}
     ELSE first(CHOOSE n \in DOMAIN s.copies :
                  WeightOf(first(n)) >= needed /\ (n = 1 \/ WeightOf(first(n - 1)) < needed))
Evicted(s) == Without(s, Victims(s))

FreshId ==
  LET used == {c.id : c \in CopySet} \cup {fetch[c].seen : c \in Clients}
  IN CHOOSE i \in 1..(Cardinality(used) + 1) : i \notin used

\* put_guarded.
PutRefused(c, onlyIfAbsent) ==
  LET new == fetch[c].got
  IN \/ new.weight > MaxBytes
     \/ shelf.revision # fetch[c].rev
     \/ /\ onlyIfAbsent
        /\ \/ Known(new.key) /\ Varies(new.key) # new.varies
           \/ \E d \in CopySet : d.key = new.key /\ d.sign = new.sign

PutReplacesOnly(new) ==  \* mutant: the weight of what is replaced is forgotten
  LET rest == SelectSeq(shelf.copies, LAMBDA d : ~(d.key = new.key /\ d.sign = new.sign))
  IN [shelf EXCEPT !.copies = Append(rest, new), !.bytes = @ + new.weight,
                   !.vary = {v \in @ : v.key # new.key}
                            \cup {[key |-> new.key, on |-> IF new.varies THEN "header" ELSE "none"]}]

Put(new) ==
  LET gone == {d \in CopySet : d.key = new.key /\ (d.sign = new.sign \/ Varies(new.key) # new.varies)}
      s == Without(shelf, gone)
  IN Evicted([s EXCEPT !.copies = Append(@, new), !.bytes = @ + new.weight,
                       !.vary = {v \in @ : v.key # new.key}
                                \cup {[key |-> new.key, on |-> IF new.varies THEN "header" ELSE "none"]}])

-----------------------------------------------------------------------------
(* CacheHandler::handle until the request is passed on.                    *)

Moves(c, fields) == fetch' = [fetch EXCEPT ![c] = fields]
FetchEnded == [NoFetch EXCEPT !.pc = "done"]
Kept == UNCHANGED <<fill, origin, settled>>

RequestCacheable(q) == q.method = "safe" /\ q.control # "no-store"
MayServe(q) == q.control # "no-cache"
CanRevalidate(q) == q.control # "only-if-cached" /\ q.conditional = "none"
\* conditional::evaluate: a precondition other than a validator is forwarded.
Answerable(q) == q.conditional # "range"

Enter(c, q) ==
  /\ fetch[c].pc = "none"
  /\ Moves(c, [NoFetch EXCEPT !.q = q, !.pc =
        IF ~RequestCacheable(q) THEN (IF q.control = "only-if-cached" THEN "done" ELSE "pass")
        ELSE IF CanRevalidate(q) THEN "stale" ELSE "lookup"])
  /\ UNCHANGED shelf /\ Kept

\* take_stale: a copy that cannot be validated is gone all the same.
TakeStale(c) ==
  LET q == fetch[c].q
      stale == {d \in CopySet : d.key = CopyKey(q) /\ d.sign = Signature(q) /\ ~d.fresh}
      one == CHOOSE d \in stale : TRUE
  IN /\ fetch[c].pc = "stale"
     /\ shelf' = Without(shelf, stale)
     /\ Moves(c, [fetch[c] EXCEPT !.pc = "lookup",
                    !.stale = IF stale # {} /\ one.validator THEN one ELSE NoCopy,
                    !.rev = IF stale # {} /\ one.validator THEN shelf.revision ELSE 0])
     /\ Kept

Hit(c) ==
  LET q == fetch[c].q
  IN /\ fetch[c].pc = "lookup"
     /\ MayServe(q) /\ Answerable(q) /\ Found(q) # {}
     /\ LET d == CHOOSE d \in Found(q) : TRUE
        IN /\ shelf' = Touched(Purged(CopyKey(q)), d)
           /\ Moves(c, [FetchEnded EXCEPT !.pc = "hit", !.q = q, !.got = d])
     /\ Kept

\* The revision is the one that was read with the stale copy, if there is one.
Miss(c) ==
  LET q == fetch[c].q
  IN /\ fetch[c].pc = "lookup"
     /\ ~(MayServe(q) /\ Answerable(q) /\ Found(q) # {})
     /\ shelf' = IF MayServe(q) THEN Purged(CopyKey(q)) ELSE shelf
     /\ Moves(c, IF q.control = "only-if-cached" THEN FetchEnded ELSE [fetch[c] EXCEPT !.pc = "revision"])
     /\ Kept

ReadRevision(c) ==
  /\ fetch[c].pc = "revision"
  /\ Moves(c, [fetch[c] EXCEPT !.pc = "observe",
                               !.rev = IF fetch[c].stale = NoCopy THEN shelf.revision ELSE @])
  /\ UNCHANGED shelf /\ Kept

Observes(c) ==
  LET q == fetch[c].q
      there == {d \in CopySet : d.key = CopyKey(q) /\ d.sign = Signature(q)}
  IN /\ fetch[c].pc = "observe"
     /\ Moves(c, [fetch[c] EXCEPT !.pc = "forward",
                                  !.seen = IF there = {} THEN 0 ELSE (CHOOSE d \in there : TRUE).id])
     /\ UNCHANGED shelf /\ Kept

-----------------------------------------------------------------------------
(* The origin, and what comes back.                                        *)

OriginReads(c) ==
  /\ fetch[c].pc = "forward"
  /\ Moves(c, [fetch[c] EXCEPT !.pc = "answer", !.ver = origin[fetch[c].q.target]])
  /\ UNCHANGED shelf /\ Kept

\* policy::freshness and age::initial.
StorableByAnyone(q, offer) == offer.says \in {"fresh", "public"}  \* mutant: credentials do not count
Storable(q, offer) ==
  /\ offer.says \in {"fresh", "public"}
  /\ q.authorized => offer.says = "public"

Small(a, b) == IF a < b THEN a ELSE b
Reserve(offer) == IF offer.declared THEN Small(offer.size, MaxEntry) ELSE MaxEntry
FillsHeld == {c \in Clients : fill[c] > 0}
FillBytes == SumFunctionOnSet(fill, FillsHeld)
CanReserve(n) == Cardinality(FillsHeld) < MaxFills /\ n <= MaxBytes - FillBytes

\* The copy a fill would store.
NewCopy(q, offer, ver) ==
  [id |-> FreshId, key |-> CopyKey(q), sign |-> SignatureOf(q, offer.vary = "header"), ver |-> ver,
   weight |-> offer.size, fresh |-> TRUE, validator |-> offer.validator, header |-> q.header,
   varies |-> offer.vary = "header", shared |-> ~q.authorized \/ offer.says = "public"]

\* A full answer, or a 304 for the stale copy if the origin still has it: then
\* the body is the stale one's.  A full answer retires the copy it was observed
\* beside, when handle returns or is dropped.
OriginAnswers(c, offer) ==
  LET f == fetch[c]
      same == f.stale # NoCopy /\ f.stale.ver = f.ver
      body == IF same THEN [offer EXCEPT !.size = f.stale.weight, !.declared = TRUE] ELSE offer
      stores == /\ Storable(f.q, body)
                /\ ~(body.declared /\ body.size > MaxEntry)
                /\ CanReserve(Reserve(body))
  IN /\ f.pc = "answer"
     /\ Moves(c, [f EXCEPT !.pc = IF stores THEN "collect" ELSE "leave",
                           !.retire = ~same, !.same = f.stale # NoCopy, !.stale = NoCopy,
                           !.got = IF stores THEN NewCopy(f.q, body, f.ver) ELSE NoCopy])
     /\ fill' = IF stores THEN [fill EXCEPT ![c] = Reserve(body)] ELSE fill
     /\ UNCHANGED <<shelf, origin, settled>>

\* A 304 that does not fit the copy, or a failure: 502, or no 200 to store.
BadAnswer(c) ==
  /\ fetch[c].pc = "answer"
  /\ Moves(c, FetchEnded)
  /\ UNCHANGED shelf /\ Kept

\* collect: a body larger than was reserved, one that fails, or trailers.  What
\* was read is replayed, and the reservation goes when that is done.
Spills(c) ==
  /\ fetch[c].pc = "collect"
  /\ Moves(c, [fetch[c] EXCEPT !.pc = "leave", !.got = NoCopy])
  /\ UNCHANGED shelf /\ Kept

Stores(c) ==
  /\ fetch[c].pc = "collect"
  /\ fetch[c].got.weight <= fill[c]
  /\ shelf' = IF PutRefused(c, fetch[c].same) THEN shelf ELSE Put(fetch[c].got)
  /\ Moves(c, [fetch[c] EXCEPT !.pc = "leave", !.got = NoCopy])
  /\ UNCHANGED <<fill, origin, settled>>

\* handle returns, or its future is dropped: the Retirement's Drop.
Leaves(c) ==
  /\ fetch[c].pc = "leave"
  /\ shelf' = IF fetch[c].retire THEN Discard(fetch[c].seen) ELSE shelf
  /\ Moves(c, IF fill[c] > 0 THEN [FetchEnded EXCEPT !.pc = "replay"] ELSE FetchEnded)
  /\ Kept

ReleasesFill(c) ==
  /\ fetch[c].pc = "replay"
  /\ fill' = [fill EXCEPT ![c] = 0]
  /\ Moves(c, FetchEnded)
  /\ UNCHANGED <<shelf, origin, settled>>

Cancels(c) ==
  /\ fetch[c].pc \in {"forward", "answer", "collect"}
  /\ Moves(c, IF fetch[c].pc = "collect" THEN [fetch[c] EXCEPT !.pc = "leave", !.got = NoCopy] ELSE FetchEnded)
  /\ UNCHANGED shelf /\ Kept

-----------------------------------------------------------------------------
(* An unsafe method, and requests that are not for a cache.                *)

OriginWrites(c) ==
  LET q == fetch[c].q
  IN /\ fetch[c].pc = "pass"
     /\ IF q.method = "unsafe"
        THEN /\ origin[q.target] < MaxVersion
             /\ origin' = [origin EXCEPT ![q.target] = @ + 1]
             /\ Moves(c, [fetch[c] EXCEPT !.pc = "written", !.ver = origin'[q.target]])
        ELSE /\ Moves(c, FetchEnded)
             /\ UNCHANGED origin
     /\ UNCHANGED <<shelf, fill, settled>>

\* A success or a redirection; the targets that Location and Content-Location
\* name on the same origin are invalidated after it.
WriteReturns(c) ==
  /\ fetch[c].pc = "written"
  /\ shelf' = Invalidate(fetch[c].q.target)
  /\ settled' = [settled EXCEPT ![fetch[c].q.target] = IF @ < fetch[c].ver THEN fetch[c].ver ELSE @]
  /\ \E t \in Targets :
       Moves(c, IF t = fetch[c].q.target THEN FetchEnded
                ELSE [fetch[c] EXCEPT !.pc = "associated", !.q.target = t])
  /\ UNCHANGED <<fill, origin>>

InvalidatesAssociated(c) ==
  /\ fetch[c].pc = "associated"
  /\ shelf' = Invalidate(fetch[c].q.target)
  /\ Moves(c, FetchEnded)
  /\ Kept

WriteFails(c) ==
  /\ fetch[c].pc = "written"
  /\ Moves(c, FetchEnded)
  /\ UNCHANGED shelf /\ Kept

Expire(i) ==
  /\ shelf.copies[i].fresh
  /\ shelf' = [shelf EXCEPT !.copies[i].fresh = FALSE]
  /\ UNCHANGED fetch /\ Kept

CacheNext ==
  \/ \E c \in Clients :
       \/ \E q \in Fetches : Enter(c, q)
       \/ TakeStale(c) \/ Hit(c) \/ Miss(c) \/ ReadRevision(c) \/ Observes(c)
       \/ OriginReads(c) \/ BadAnswer(c) \/ Spills(c) \/ Stores(c)
       \/ \E offer \in Offers : OriginAnswers(c, offer)
       \/ Leaves(c) \/ ReleasesFill(c) \/ Cancels(c)
       \/ OriginWrites(c) \/ WriteReturns(c) \/ InvalidatesAssociated(c) \/ WriteFails(c)
  \/ \E i \in DOMAIN shelf.copies : Expire(i)

CacheSpec == CacheInit /\ [][CacheNext]_cacheVars

-----------------------------------------------------------------------------
\* The byte counter is adjusted in five places and always is the weight of what
\* is held, within the budget; a key has one copy per signature, all under what
\* it is known to vary on; fills stay within their own budget.
CacheAccounts ==
  /\ shelf.bytes = WeightOf(CopySet) /\ shelf.bytes <= MaxBytes
  /\ Cardinality(CopySet) = Len(shelf.copies)
  /\ \A c, d \in CopySet : c.key = d.key /\ c.sign = d.sign => c = d
  /\ \A c \in CopySet : Known(c.key) /\ c.varies = Varies(c.key)
  /\ \A v \in shelf.vary : \E c \in CopySet : c.key = v.key
  /\ FillBytes <= MaxBytes /\ Cardinality(FillsHeld) <= MaxFills
  /\ \A c \in Clients : fill[c] > 0 => fetch[c].pc \in {"collect", "leave", "replay"}

\* Once a write has been answered, no request is served what was fetched before
\* it, although fills and revalidations of it may have been under way.
ServesNoOverwritten ==
  [][\A c \in Clients :
       fetch[c].pc = "lookup" /\ fetch'[c].pc = "hit" =>
         fetch'[c].got.ver >= settled[fetch[c].q.target]]_cacheVars

\* A copy is served only to the route that made it, to a request with the same
\* value of what it varies on, and never if it was made for credentials that the
\* answer did not declare public.
ServesOwnVariant ==
  \A c \in Clients :
    fetch[c].pc = "hit" =>
      LET d == fetch[c].got
      IN d.key = CopyKey(fetch[c].q) /\ d.shared /\ (d.varies => d.header = fetch[c].q.header)

\* The cache counts what it holds and hands a copy only to whom it was made for.
CacheSound == CacheAccounts /\ ServesOwnVariant

=============================================================================
