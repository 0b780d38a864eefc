-------------------------- MODULE Endpoints_proofs --------------------------
(***************************************************************************)
(* Proofs about the endpoints of upstreams, which the endpoints run        *)
(* composes: the HTTP/2 connections to one (Multiplex), for every number   *)
(* of callers and connections, every configuration and every limit of a    *)
(* peer; and an upstream across reloads (Upstreams), for every set of      *)
(* specs, materials and objects.                                           *)
(***************************************************************************)
EXTENDS Upstreams, Multiplex, SequenceTheorems, WellFoundedInduction

-----------------------------------------------------------------------------
(* Multiplex.  The inductive invariant adds to the accounts of streams     *)
(* that connections have identities of their own.  For the sleepers it     *)
(* compares what they were told with what the drivers last reported        *)
(* (`seen'), not with what the peers allow now: a limit may change and     *)
(* change back while nobody looks.                                         *)

Places == (UNION StreamAnswers) \cup {"any"}
Entries == [id : ConnIds, at : Places, streams : Int, used : BOOLEAN, retired : BOOLEAN,
            open : BOOLEAN, age : {"new", "cold", "old"}, limit : Nat, busy : BOOLEAN,
            skipped : BOOLEAN, seen : Nat, raced : BOOLEAN]
Muxes == [config : StreamConfigs, conns : Seq(Entries), connecting : Int, streams : Int,
          live : SUBSET Places, closed : BOOLEAN, waiting : Int]
PCs == {"away", "armed", "asleep", "dialing", "refused", "served", "lent", "left", "streaming"}
Callers == [pc : PCs, conn : Nat, order : SUBSET Places, dials : Int, most : Int, woken : BOOLEAN]
Streamers == [StreamCallers -> Callers]

Busy == PCs \ {"away"}
Dials == {"dialing"}
Waits == {"armed", "asleep", "dialing", "served", "refused"}
Pending == {"dialing", "served", "refused", "left", "lent"}

At(b, S) == {c \in StreamCallers : b[c].pc \in S}
Num(b, S) == Cardinality(At(b, S))
Users(b, id) == {c \in At(b, Holding) : b[c].conn = id}

Typed(s, b) == s \in Muxes /\ b \in Streamers /\ IsFiniteSet(At(b, Busy))
Distinct(s) == \A i, j \in DOMAIN s.conns : s.conns[i].id = s.conns[j].id => i = j
Lodged(s, b) ==
  /\ \A c \in At(b, Holding) : \E i \in DOMAIN s.conns : s.conns[i].id = b[c].conn
  /\ \A i \in DOMAIN s.conns : s.conns[i].streams = Cardinality(Users(b, s.conns[i].id))
Totals(s, b) ==
  /\ s.streams = Num(b, Holding)
  /\ s.connecting = Num(b, Dials)
  /\ s.waiting = Num(b, Waits)

\* No driver that is not polling owes a notification to a reader it turned away.
Honest(s) == \A i \in DOMAIN s.conns : s.conns[i].open /\ s.conns[i].skipped => s.conns[i].busy

\* What a sleeper is entitled to, by the limits last reported, or a driver that will wake it.
SeenTakes(s, e) == ~e.retired /\ e.open /\ e.streams < Low(s.config.per, e.seen)
Full(s) ==
  \/ s.streams >= s.config.streams
  \/ ~Room(s) /\ \A i \in DOMAIN s.conns : ~SeenTakes(s, s.conns[i])
Owing(s) == \E i \in DOMAIN s.conns : s.conns[i].open /\ (s.conns[i].raced \/ s.conns[i].skipped)
Quiet(s) == ~s.closed /\ (Full(s) \/ Owing(s))
Wakeful(s, b) ==
  \A c \in StreamCallers : b[c].pc = "asleep" => b[c].woken \/ Quiet(s) \/ At(b, Pending) # {}

Sound(s, b) ==
  Typed(s, b) /\ Distinct(s) /\ Lodged(s, b) /\ Totals(s, b) /\ Honest(s) /\ Wakeful(s, b)
IInv ==
  /\ Sound(mux, streamer)
  /\ names \in [set : StreamAnswers, told : BOOLEAN]

-----------------------------------------------------------------------------
(* Counting callers.                                                       *)

LEMMA Kinds == Holding \in SUBSET Busy /\ Dials \in SUBSET Busy /\ Waits \in SUBSET Busy
  BY DEF Holding, Dials, Waits, Busy, PCs

LEMMA Few ==
  ASSUME NEW b, IsFiniteSet(At(b, Busy)), NEW S \in SUBSET Busy
  PROVE  IsFiniteSet(At(b, S)) /\ Num(b, S) \in Nat
  <1>1. At(b, S) \in SUBSET At(b, Busy)
    BY DEF At
  <1>2. IsFiniteSet(At(b, S))
    BY <1>1, FS_Subset
  <1> QED  BY <1>2, FS_CardinalityType DEF Num

LEMMA FewUsers ==
  ASSUME NEW b, IsFiniteSet(At(b, Busy)), NEW id
  PROVE  IsFiniteSet(Users(b, id)) /\ Cardinality(Users(b, id)) \in Nat
  <1>1. IsFiniteSet(At(b, Holding))
    BY Kinds, Few
  <1>2. Users(b, id) \in SUBSET At(b, Holding)
    BY DEF Users
  <1>3. IsFiniteSet(Users(b, id))
    BY <1>1, <1>2, FS_Subset
  <1> QED  BY <1>3, FS_CardinalityType

\* A caller that moves is one less where it was and one more where it is.
Seat(b, S, c) == IF b[c].pc \in S THEN 1 ELSE 0
LEMMA Moved ==
  ASSUME NEW b \in Streamers, IsFiniteSet(At(b, Busy)), NEW c \in StreamCallers, NEW b2 \in Streamers,
         \A d \in StreamCallers \ {c} : b2[d].pc = b[d].pc, NEW S \in SUBSET Busy
  PROVE  /\ Num(b, S) \in Nat /\ Num(b2, S) \in Nat
         /\ Num(b2, S) + Seat(b, S, c) = Num(b, S) + Seat(b2, S, c)
  <1>1. IsFiniteSet(At(b, S)) /\ Num(b, S) \in Nat
    BY Few
  <1>2. At(b2, S) = IF b2[c].pc \in S THEN At(b, S) \cup {c} ELSE At(b, S) \ {c}
    BY DEF At
  <1>3. c \in At(b, S) <=> b[c].pc \in S
    BY DEF At
  <1>4. IsFiniteSet(At(b2, S))
    BY <1>1, <1>2, FS_AddElement, FS_RemoveElement
  <1>5. Num(b2, S) \in Nat
    BY <1>4, FS_CardinalityType DEF Num
  <1>6. CASE b2[c].pc \in S
    <2>1. Num(b2, S) = IF c \in At(b, S) THEN Num(b, S) ELSE Num(b, S) + 1
      BY <1>1, <1>2, <1>6, FS_AddElement DEF Num
    <2> QED  BY <1>1, <1>3, <1>5, <1>6, <2>1 DEF Seat
  <1>7. CASE b2[c].pc \notin S
    <2>1. Num(b2, S) = IF c \in At(b, S) THEN Num(b, S) - 1 ELSE Num(b, S)
      BY <1>1, <1>2, <1>7, FS_RemoveElement DEF Num
    <2> QED  BY <1>1, <1>3, <1>5, <1>7, <2>1 DEF Seat
  <1> QED  BY <1>6, <1>7

LEMMA StillFew ==
  ASSUME NEW b \in Streamers, IsFiniteSet(At(b, Busy)), NEW c \in StreamCallers, NEW b2 \in Streamers,
         \A d \in StreamCallers \ {c} : b2[d].pc = b[d].pc
  PROVE  IsFiniteSet(At(b2, Busy))
  <1>1. At(b2, Busy) \in SUBSET (At(b, Busy) \cup {c})
    BY DEF At
  <1>2. IsFiniteSet(At(b, Busy) \cup {c})
    BY FS_AddElement
  <1> QED  BY <1>1, <1>2, FS_Subset

\* A notification moves nobody.
LEMMA Notified ==
  ASSUME NEW b \in Streamers
  PROVE  /\ NotifyWaiters(b) \in Streamers
         /\ \A c \in StreamCallers :
              /\ NotifyWaiters(b)[c].pc = b[c].pc /\ NotifyWaiters(b)[c].conn = b[c].conn
              /\ NotifyWaiters(b)[c].pc = "asleep" => NotifyWaiters(b)[c].woken
  <1> SUFFICES ASSUME NEW c \in StreamCallers
               PROVE  /\ NotifyWaiters(b)[c] \in Callers
                      /\ NotifyWaiters(b)[c].pc = b[c].pc /\ NotifyWaiters(b)[c].conn = b[c].conn
                      /\ NotifyWaiters(b)[c].pc = "asleep" => NotifyWaiters(b)[c].woken
    BY DEF NotifyWaiters, Streamers
  <1>1. b[c] \in Callers
    BY DEF Streamers
  <1>2. CASE b[c].pc \in {"armed", "asleep"}
    <2>1. NotifyWaiters(b)[c] = [b[c] EXCEPT !.woken = TRUE]
      BY <1>2 DEF NotifyWaiters
    <2>2. [b[c] EXCEPT !.woken = TRUE] \in Callers
      BY <1>1, Zenon DEF Callers
    <2>3. [b[c] EXCEPT !.woken = TRUE].woken = TRUE
      BY <1>1, Zenon DEF Callers
    <2>4. [b[c] EXCEPT !.woken = TRUE].pc = b[c].pc /\ [b[c] EXCEPT !.woken = TRUE].conn = b[c].conn
      BY <1>1 DEF Callers
    <2> QED  BY <2>1, <2>2, <2>3, <2>4
  <1>3. CASE b[c].pc \notin {"armed", "asleep"}
    <2>1. NotifyWaiters(b)[c] = b[c]
      BY <1>3 DEF NotifyWaiters
    <2> QED  BY <1>1, <1>3, <2>1
  <1> QED  BY <1>2, <1>3

\* Callers in the same places are counted alike.
LEMMA SamePlaces ==
  ASSUME NEW b, NEW b2, \A c \in StreamCallers : b2[c].pc = b[c].pc /\ b2[c].conn = b[c].conn
  PROVE  /\ \A S : At(b2, S) = At(b, S) /\ Num(b2, S) = Num(b, S)
         /\ \A id : Users(b2, id) = Users(b, id)
  <1>1. \A S : At(b2, S) = At(b, S)
    BY DEF At
  <1>2. \A id : Users(b2, id) = Users(b, id)
    BY <1>1 DEF Users, At
  <1> QED  BY <1>1, <1>2 DEF Num

-----------------------------------------------------------------------------
(* Pruning.                                                                *)

LEMMA MuxTyped ==
  \A s \in Muxes :
    /\ s.config \in StreamConfigs /\ s.conns \in Seq(Entries) /\ s.connecting \in Int
    /\ s.streams \in Int /\ s.waiting \in Int /\ s.live \in SUBSET Places
    /\ Len(s.conns) \in Nat /\ DOMAIN s.conns = 1..Len(s.conns)
    /\ \A i \in DOMAIN s.conns : s.conns[i] \in Entries
  BY DEF Muxes

LEMMA ConfigTyped ==
  \A c \in StreamConfigs : c.max \in Nat /\ c.idle \in Nat /\ c.waiters \in Nat /\ c.streams \in Nat /\ c.per \in Nat
  BY MultiplexAssumption

\* The same connection, told apart only by being retired.
SameConn(e, f) ==
  /\ e.id = f.id /\ e.at = f.at /\ e.streams = f.streams /\ e.open = f.open /\ e.limit = f.limit
  /\ e.busy = f.busy /\ e.skipped = f.skipped /\ e.seen = f.seen /\ e.raced = f.raced

LEMMA Marks ==
  ASSUME NEW s \in Muxes, NEW trim \in BOOLEAN
  PROVE  /\ Marked(s, trim) \in Seq(Entries) /\ DOMAIN Marked(s, trim) = DOMAIN s.conns
         /\ \A i \in DOMAIN s.conns :
              /\ SameConn(Marked(s, trim)[i], s.conns[i])
              /\ Marked(s, trim)[i].retired <=> RetiredBy(s, i, trim)
  <1> DEFINE n == Len(s.conns)
  <1>1. n \in Nat /\ DOMAIN s.conns = 1..n /\ \A i \in 1..n : s.conns[i] \in Entries
    BY MuxTyped
  <1>2. Marked(s, trim) = [i \in 1..n |-> [s.conns[i] EXCEPT !.retired = RetiredBy(s, i, trim)]]
    BY <1>1 DEF Marked
  <1> HIDE DEF n
  <1>3. ASSUME NEW i \in 1..n
        PROVE  /\ Marked(s, trim)[i] \in Entries
               /\ SameConn(Marked(s, trim)[i], s.conns[i])
               /\ Marked(s, trim)[i].retired <=> RetiredBy(s, i, trim)
    <2> DEFINE r == RetiredBy(s, i, trim)
               e == s.conns[i]
    <2>1. r \in BOOLEAN
      BY DEF RetiredBy
    <2>2. e \in Entries
      BY <1>1, <1>3
    <2>3. Marked(s, trim)[i] = [e EXCEPT !.retired = r]
      BY <1>2, <1>3
    <2> HIDE DEF r, e
    <2>4. [e EXCEPT !.retired = r] \in Entries
      BY <2>1, <2>2, Zenon DEF Entries
    <2>5. [e EXCEPT !.retired = r].retired = r
      BY <2>2, Zenon DEF Entries
    <2>6. SameConn([e EXCEPT !.retired = r], e)
      BY <2>2, Zenon DEF Entries, SameConn
    <2> QED  BY <2>3, <2>4, <2>5, <2>6 DEF r, e
  <1>4. Marked(s, trim) \in Seq(Entries) /\ DOMAIN Marked(s, trim) = 1..n
    <2>1. Marked(s, trim) \in [1..n -> Entries]
      BY <1>2, <1>3
    <2> QED  BY <1>1, <2>1
  <1> QED  BY <1>1, <1>3, <1>4

\* A connection with streams is kept, whatever retires it.
LEMMA Pruned ==
  ASSUME NEW s \in Muxes, NEW trim \in BOOLEAN
  PROVE  /\ Prune(s, trim) \in Muxes
         /\ Prune(s, trim).config = s.config /\ Prune(s, trim).connecting = s.connecting
         /\ Prune(s, trim).streams = s.streams /\ Prune(s, trim).live = s.live
         /\ Prune(s, trim).closed = s.closed /\ Prune(s, trim).waiting = s.waiting
         /\ Len(Prune(s, trim).conns) <= Len(s.conns)
         /\ \A k \in DOMAIN Prune(s, trim).conns : \E i \in DOMAIN s.conns :
              /\ SameConn(Prune(s, trim).conns[k], s.conns[i])
              /\ Prune(s, trim).conns[k].retired <=> RetiredBy(s, i, trim)
         /\ \A i \in DOMAIN s.conns : s.conns[i].streams # 0 =>
              \E k \in DOMAIN Prune(s, trim).conns : SameConn(Prune(s, trim).conns[k], s.conns[i])
         /\ Distinct(s) => Distinct(Prune(s, trim))
  <1> DEFINE m == Marked(s, trim)
             keep == Stays(s, m, trim)
             r == Retain(m, keep)
             p == Prune(s, trim)
  <1>1. p = [s EXCEPT !.conns = r]
    BY DEF Prune
  <1>2. /\ m \in Seq(Entries) /\ DOMAIN m = DOMAIN s.conns
        /\ \A i \in DOMAIN s.conns : SameConn(m[i], s.conns[i]) /\ (m[i].retired <=> RetiredBy(s, i, trim))
    BY Marks
  <1> HIDE DEF m
  <1>3. keep \in SUBSET DOMAIN m /\ \A i \in DOMAIN m : m[i].streams # 0 => i \in keep
    BY DEF Stays
  <1> HIDE DEF keep
  <1>4. /\ r \in Seq(Entries) /\ Len(r) = Cardinality(keep) /\ Cardinality(keep) \in 0..Len(m)
        /\ \A k \in DOMAIN r : \E i \in keep : r[k] = m[i] /\ Rank(keep, i) = k
        /\ \A i \in keep : \E k \in DOMAIN r : r[k] = m[i]
    <2>1. m \in Seq(Entries) /\ keep \in SUBSET DOMAIN m
      BY <1>2, <1>3
    <2>2. /\ Retain(m, keep) \in Seq(Entries)
          /\ Len(Retain(m, keep)) = Cardinality(keep) /\ Cardinality(keep) \in 0..Len(m)
          /\ \A k \in DOMAIN Retain(m, keep) : \E i \in keep :
               Retain(m, keep)[k] = m[i] /\ Rank(keep, i) = k
          /\ \A i \in keep : \E k \in DOMAIN Retain(m, keep) : Retain(m, keep)[k] = m[i]
      BY <2>1, Retained
    <2> QED  BY <2>2
  <1> HIDE DEF r, p
  <1>5. p \in Muxes
    BY <1>1, <1>4 DEF Muxes
  <1>6. /\ p.config = s.config /\ p.connecting = s.connecting /\ p.streams = s.streams /\ p.live = s.live
        /\ p.closed = s.closed /\ p.waiting = s.waiting /\ p.conns = r
    BY <1>1 DEF Muxes
  <1>7. Len(r) <= Len(s.conns)
    <2>1. Len(m) = Len(s.conns) /\ Len(m) \in Nat
      BY <1>2, MuxTyped
    <2> QED  BY <1>4, <2>1
  <1>8. \A k \in DOMAIN r : \E i \in DOMAIN s.conns : SameConn(r[k], s.conns[i]) /\ (r[k].retired <=> RetiredBy(s, i, trim))
    BY <1>2, <1>3, <1>4
  <1>9. \A i \in DOMAIN s.conns : s.conns[i].streams # 0 => \E k \in DOMAIN r : SameConn(r[k], s.conns[i])
    <2> SUFFICES ASSUME NEW i \in DOMAIN s.conns, s.conns[i].streams # 0
                 PROVE  \E k \in DOMAIN r : SameConn(r[k], s.conns[i])
      OBVIOUS
    <2>1. m[i].streams # 0
      BY <1>2 DEF SameConn
    <2>2. i \in keep
      BY <1>2, <1>3, <2>1
    <2> QED  BY <1>2, <1>4, <2>2
  <1>10. Distinct(s) => \A k, l \in DOMAIN r : r[k].id = r[l].id => k = l
    <2> SUFFICES ASSUME Distinct(s), NEW k \in DOMAIN r, NEW l \in DOMAIN r, r[k].id = r[l].id PROVE k = l
      OBVIOUS
    <2>1. PICK i \in keep : r[k] = m[i] /\ Rank(keep, i) = k
      BY <1>4
    <2>2. PICK j \in keep : r[l] = m[j] /\ Rank(keep, j) = l
      BY <1>4
    <2>3. i \in DOMAIN s.conns /\ j \in DOMAIN s.conns
      BY <1>2, <1>3
    <2>4. s.conns[i].id = s.conns[j].id
      BY <1>2, <2>1, <2>2, <2>3 DEF SameConn
    <2>5. i = j
      BY <2>3, <2>4 DEF Distinct
    <2> QED  BY <2>1, <2>2, <2>5
  <1> QED  BY <1>5, <1>6, <1>7, <1>8, <1>9, <1>10 DEF Distinct, p

\* Streams are lodged as before once nothing but retired flags and idle connections have gone.
LEMMA PrunedLodged ==
  ASSUME NEW s \in Muxes, NEW b \in Streamers, IsFiniteSet(At(b, Busy)), NEW trim \in BOOLEAN, Lodged(s, b)
  PROVE  Lodged(Prune(s, trim), b)
  <1> DEFINE p == Prune(s, trim)
  <1>1. /\ \A k \in DOMAIN p.conns : \E i \in DOMAIN s.conns : SameConn(p.conns[k], s.conns[i])
        /\ \A i \in DOMAIN s.conns : s.conns[i].streams # 0 => \E k \in DOMAIN p.conns : SameConn(p.conns[k], s.conns[i])
    BY Pruned
  <1> HIDE DEF p
  <1>2. ASSUME NEW c \in At(b, Holding) PROVE \E k \in DOMAIN p.conns : p.conns[k].id = b[c].conn
    <2>1. PICK i \in DOMAIN s.conns : s.conns[i].id = b[c].conn
      BY <1>2 DEF Lodged
    <2>2. c \in Users(b, s.conns[i].id)
      BY <1>2, <2>1 DEF Users
    <2>3. IsFiniteSet(Users(b, s.conns[i].id))
      BY FewUsers
    <2>4. s.conns[i].streams # 0
      BY <2>2, <2>3, FS_EmptySet DEF Lodged
    <2>5. PICK k \in DOMAIN p.conns : SameConn(p.conns[k], s.conns[i])
      BY <1>1, <2>4
    <2> QED  BY <2>1, <2>5 DEF SameConn
  <1>3. ASSUME NEW k \in DOMAIN p.conns PROVE p.conns[k].streams = Cardinality(Users(b, p.conns[k].id))
    <2>1. PICK i \in DOMAIN s.conns : SameConn(p.conns[k], s.conns[i])
      BY <1>1, <1>3
    <2> QED  BY <2>1 DEF SameConn, Lodged
  <1>4. Lodged(p, b)
    BY <1>2, <1>3 DEF Lodged
  <1> QED  BY <1>4 DEF p

LEMMA PrunedHonest ==
  ASSUME NEW s \in Muxes, NEW trim \in BOOLEAN, Honest(s)
  PROVE  Honest(Prune(s, trim))
  <1> DEFINE p == Prune(s, trim)
  <1>1. \A k \in DOMAIN p.conns : \E i \in DOMAIN s.conns : SameConn(p.conns[k], s.conns[i])
    BY Pruned
  <1> HIDE DEF p
  <1>2. Honest(p)
    BY <1>1, Zenon DEF Honest, SameConn
  <1> QED  BY <1>2 DEF p

-----------------------------------------------------------------------------
(* Steps that leave the streams where they are.                            *)

LEMMA SameLodging ==
  ASSUME NEW s, NEW s2, NEW b, DOMAIN s2.conns = DOMAIN s.conns,
         \A i \in DOMAIN s.conns : s2.conns[i].id = s.conns[i].id /\ s2.conns[i].streams = s.conns[i].streams
  PROVE  (Lodged(s, b) => Lodged(s2, b)) /\ (Distinct(s) => Distinct(s2))
  BY DEF Lodged, Distinct

\* Whoever has been notified is owed nothing.
LEMMA Stirred ==
  ASSUME NEW s, NEW b, \A c \in StreamCallers : b[c].pc = "asleep" => b[c].woken
  PROVE  Wakeful(s, b)
  BY DEF Wakeful

\* Retiring and trimming, with everybody notified.
LEMMA PruneAll ==
  ASSUME NEW s, NEW b, Typed(s, b), Distinct(s), Lodged(s, b), Totals(s, b), Honest(s)
  PROVE  Sound(Prune(s, TRUE), NotifyWaiters(b))
  <1> DEFINE p == Prune(s, TRUE)
             n == NotifyWaiters(b)
  <1>1. s \in Muxes /\ b \in Streamers /\ IsFiniteSet(At(b, Busy))
    BY DEF Typed
  <1>2. /\ p \in Muxes /\ p.connecting = s.connecting /\ p.streams = s.streams /\ p.waiting = s.waiting
        /\ Distinct(p)
    BY <1>1, Pruned
  <1>3. Lodged(p, b)
    BY <1>1, PrunedLodged
  <1>4. Honest(p)
    BY <1>1, PrunedHonest
  <1>5. /\ n \in Streamers
        /\ \A c \in StreamCallers : n[c].pc = b[c].pc /\ n[c].conn = b[c].conn
        /\ \A c \in StreamCallers : n[c].pc = "asleep" => n[c].woken
    BY <1>1, Notified
  <1> HIDE DEF p, n
  <1>6. (\A S : At(n, S) = At(b, S) /\ Num(n, S) = Num(b, S)) /\ \A id : Users(n, id) = Users(b, id)
    BY <1>5, SamePlaces
  <1>7. Typed(p, n)
    BY <1>1, <1>2, <1>5, <1>6 DEF Typed
  <1>8. Totals(p, n)
    BY <1>2, <1>6 DEF Totals
  <1>9. Lodged(p, n)
    <2>1. \A c \in At(n, Holding) : c \in At(b, Holding) /\ c \in StreamCallers /\ n[c].conn = b[c].conn
      BY <1>5, <1>6 DEF At
    <2> QED  BY <1>3, <1>6, <2>1 DEF Lodged
  <1>10. Wakeful(p, n)
    BY <1>5, Stirred
  <1> QED  BY <1>2, <1>4, <1>7, <1>8, <1>9, <1>10 DEF Sound, p, n

\* The same without retiring: callers are notified and stay.
LEMMA NotifyAll ==
  ASSUME NEW s, NEW b, Typed(s, b), Distinct(s), Lodged(s, b), Totals(s, b), Honest(s)
  PROVE  Sound(s, NotifyWaiters(b))
  <1> DEFINE n == NotifyWaiters(b)
  <1>1. s \in Muxes /\ b \in Streamers /\ IsFiniteSet(At(b, Busy))
    BY DEF Typed
  <1>5. /\ n \in Streamers
        /\ \A c \in StreamCallers : n[c].pc = b[c].pc /\ n[c].conn = b[c].conn
        /\ \A c \in StreamCallers : n[c].pc = "asleep" => n[c].woken
    BY <1>1, Notified
  <1> HIDE DEF n
  <1>6. (\A S : At(n, S) = At(b, S) /\ Num(n, S) = Num(b, S)) /\ \A id : Users(n, id) = Users(b, id)
    BY <1>5, SamePlaces
  <1>7. Typed(s, n)
    BY <1>1, <1>5, <1>6 DEF Typed
  <1>8. Totals(s, n)
    BY <1>6 DEF Totals
  <1>9. Lodged(s, n)
    <2>1. \A c \in At(n, Holding) : c \in At(b, Holding) /\ c \in StreamCallers /\ n[c].conn = b[c].conn
      BY <1>5, <1>6 DEF At
    <2> QED  BY <1>6, <2>1 DEF Lodged
  <1>10. Wakeful(s, n)
    BY <1>5, Stirred
  <1> QED  BY <1>7, <1>8, <1>9, <1>10 DEF Sound, n

\* One connection changes, with its identity and its streams.
Put(s, i, e) == [s EXCEPT !.conns = [s.conns EXCEPT ![i] = e]]
Replaced(s, p, i, e) ==
  /\ p \in Muxes
  /\ p.config = s.config /\ p.connecting = s.connecting /\ p.streams = s.streams
  /\ p.live = s.live /\ p.closed = s.closed /\ p.waiting = s.waiting
  /\ DOMAIN p.conns = DOMAIN s.conns /\ Len(p.conns) = Len(s.conns)
  /\ p.conns[i] = e
  /\ \A j \in DOMAIN s.conns \ {i} : p.conns[j] = s.conns[j]
LEMMA PutConn ==
  ASSUME NEW s \in Muxes, NEW i \in DOMAIN s.conns, NEW e \in Entries
  PROVE  Replaced(s, Put(s, i, e), i, e)
  <1> DEFINE q == [s.conns EXCEPT ![i] = e]
  <1>1. s.conns \in Seq(Entries)
    BY MuxTyped
  <1>2. q \in Seq(Entries) /\ DOMAIN q = DOMAIN s.conns /\ Len(q) = Len(s.conns)
    BY <1>1
  <1>3. q[i] = e /\ \A j \in DOMAIN s.conns \ {i} : q[j] = s.conns[j]
    BY <1>1
  <1> HIDE DEF q
  <1>4. Put(s, i, e) = [s EXCEPT !.conns = q]
    BY DEF Put, q
  <1>5. Put(s, i, e) \in Muxes
    BY <1>2, <1>4 DEF Muxes
  <1>6. /\ Put(s, i, e).config = s.config /\ Put(s, i, e).connecting = s.connecting
        /\ Put(s, i, e).streams = s.streams /\ Put(s, i, e).live = s.live
        /\ Put(s, i, e).closed = s.closed /\ Put(s, i, e).waiting = s.waiting
        /\ Put(s, i, e).conns = q
    BY <1>4 DEF Muxes
  <1> QED  BY <1>2, <1>3, <1>5, <1>6 DEF Replaced

LEMMA PutSound ==
  ASSUME NEW s, NEW b, Sound(s, b), NEW i \in DOMAIN s.conns, NEW e \in Entries,
         e.id = s.conns[i].id, e.streams = s.conns[i].streams, e.open /\ e.skipped => e.busy
  PROVE  Typed(Put(s, i, e), b) /\ Distinct(Put(s, i, e)) /\ Lodged(Put(s, i, e), b)
         /\ Totals(Put(s, i, e), b) /\ Honest(Put(s, i, e))
  <1> DEFINE p == Put(s, i, e)
  <1>0. s \in Muxes
    BY DEF Sound, Typed
  <1>p. Replaced(s, p, i, e)
    BY <1>0, PutConn
  <1>1. /\ s \in Muxes /\ Typed(s, b) /\ Distinct(s) /\ Lodged(s, b) /\ Totals(s, b) /\ Honest(s)
    BY DEF Sound, Typed
  <1>2. /\ p \in Muxes /\ p.connecting = s.connecting /\ p.streams = s.streams /\ p.waiting = s.waiting
        /\ DOMAIN p.conns = DOMAIN s.conns /\ p.conns[i] = e
        /\ \A j \in DOMAIN s.conns \ {i} : p.conns[j] = s.conns[j]
    BY <1>p DEF Replaced
  <1> HIDE DEF p
  <1>3. \A j \in DOMAIN s.conns : p.conns[j].id = s.conns[j].id /\ p.conns[j].streams = s.conns[j].streams
    BY <1>2
  <1>4. Distinct(p) /\ Lodged(p, b)
    BY <1>1, <1>2, <1>3, SameLodging
  <1>5. Honest(p)
    BY <1>1, <1>2 DEF Honest
  <1>6. Typed(p, b) /\ Totals(p, b)
    BY <1>1, <1>2 DEF Typed, Totals
  <1> QED  BY <1>4, <1>5, <1>6 DEF p

\* Nobody misses a change of a connection that alters neither what its driver last reported nor
\* what the driver owes.
LEMMA PutQuiet ==
  ASSUME NEW s, NEW b, Sound(s, b), NEW i \in DOMAIN s.conns, NEW e \in Entries,
         e.id = s.conns[i].id, e.streams = s.conns[i].streams, e.open /\ e.skipped => e.busy,
         e.seen = s.conns[i].seen, e.open <=> s.conns[i].open, e.retired <=> s.conns[i].retired,
         s.conns[i].open /\ (s.conns[i].raced \/ s.conns[i].skipped) => e.raced \/ e.skipped
  PROVE  Sound(Put(s, i, e), b)
  <1> DEFINE p == Put(s, i, e)
  <1>0. s \in Muxes
    BY DEF Sound, Typed
  <1>p. Replaced(s, p, i, e)
    BY <1>0, PutConn
  <1>1. s \in Muxes /\ Wakeful(s, b)
    BY DEF Sound, Typed
  <1>2. /\ p.config = s.config /\ p.streams = s.streams /\ p.closed = s.closed /\ p.connecting = s.connecting
        /\ DOMAIN p.conns = DOMAIN s.conns /\ Len(p.conns) = Len(s.conns) /\ p.conns[i] = e
        /\ \A j \in DOMAIN s.conns \ {i} : p.conns[j] = s.conns[j]
    BY <1>p DEF Replaced
  <1>3. Typed(p, b) /\ Distinct(p) /\ Lodged(p, b) /\ Totals(p, b) /\ Honest(p)
    BY PutSound
  <1> HIDE DEF p
  <1>4. Room(p) <=> Room(s)
    BY <1>2 DEF Room
  <1>5. \A j \in DOMAIN s.conns : SeenTakes(p, p.conns[j]) <=> SeenTakes(s, s.conns[j])
    <2> SUFFICES ASSUME NEW j \in DOMAIN s.conns
                 PROVE  SeenTakes(p, p.conns[j]) <=> SeenTakes(s, s.conns[j])
      OBVIOUS
    <2>1. CASE j = i
      BY <1>2, <2>1 DEF SeenTakes
    <2>2. CASE j # i
      BY <1>2, <2>2 DEF SeenTakes
    <2> QED  BY <2>1, <2>2
  <1>6. Full(s) => Full(p)
    BY <1>2, <1>4, <1>5 DEF Full
  <1>7. Owing(s) => Owing(p)
    <2> SUFFICES ASSUME NEW j \in DOMAIN s.conns, s.conns[j].open, s.conns[j].raced \/ s.conns[j].skipped
                 PROVE  Owing(p)
      BY DEF Owing
    <2>1. CASE j = i
      BY <1>2, <2>1 DEF Owing
    <2>2. CASE j # i
      BY <1>2, <2>2 DEF Owing
    <2> QED  BY <2>1, <2>2
  <1>8. Wakeful(p, b)
    BY <1>1, <1>2, <1>6, <1>7 DEF Wakeful, Quiet
  <1> QED  BY <1>3, <1>8 DEF Sound, p

-----------------------------------------------------------------------------
(* The driver of a connection, and its peer.                               *)

LEMMA Rebuilt ==
  ASSUME Sound(mux', streamer'), names' \in [set : StreamAnswers, told : BOOLEAN]
  PROVE  IInv'
  BY DEF IInv, Sound, Typed, Distinct, Lodged, Totals, Honest, Wakeful, Quiet, Full, Owing, SeenTakes,
         Room, At, Num, Users

LEMMA Here ==
  ASSUME IInv
  PROVE  /\ Sound(mux, streamer) /\ mux \in Muxes /\ streamer \in Streamers
         /\ names \in [set : StreamAnswers, told : BOOLEAN]
         /\ Typed(mux, streamer) /\ Distinct(mux) /\ Lodged(mux, streamer) /\ Totals(mux, streamer)
         /\ Honest(mux) /\ Wakeful(mux, streamer) /\ IsFiniteSet(At(streamer, Busy))
  BY DEF IInv, Sound, Typed

LEMMA PollStartsInv ==
  ASSUME IInv, NEW i \in DOMAIN mux.conns, PollStarts(i)
  PROVE  IInv'
  <1> DEFINE e == mux.conns[i]
             f == [e EXCEPT !.busy = TRUE, !.skipped = FALSE]
  <1>1. Sound(mux, streamer) /\ mux \in Muxes /\ Honest(mux) /\ names \in [set : StreamAnswers, told : BOOLEAN]
    BY Here
  <1>2. e \in Entries
    BY <1>1, MuxTyped
  <1>3. e.open /\ ~e.busy /\ mux' = Put(mux, i, f) /\ streamer' = streamer /\ names' = names
    BY DEF PollStarts, WithConn, Put
  <1>4. ~e.skipped
    BY <1>1, <1>3 DEF Honest
  <1> HIDE DEF e
  <1>5. f \in Entries
    BY <1>2, Zenon DEF Entries
  <1>6. /\ f.id = e.id /\ f.streams = e.streams /\ f.seen = e.seen /\ f.open = e.open
        /\ f.retired = e.retired /\ f.raced = e.raced /\ f.skipped = FALSE
    BY <1>2, Zenon DEF Entries
  <1> HIDE DEF f
  <1>7. ~f.skipped
    BY <1>6, Zenon
  <1>8. e.open /\ (e.raced \/ e.skipped) => f.raced \/ f.skipped
    BY <1>4, <1>6
  <1>9. Sound(Put(mux, i, f), streamer)
    BY <1>1, <1>5, <1>6, <1>7, <1>8, PutQuiet DEF e
  <1> QED  BY <1>1, <1>3, <1>9, Rebuilt

LEMMA PollEndsInv ==
  ASSUME IInv, NEW i \in DOMAIN mux.conns, PollEnds(i)
  PROVE  IInv'
  <1> DEFINE e == mux.conns[i]
             r == e.raced /\ ~Reports(e)
             f == [e EXCEPT !.busy = FALSE, !.skipped = FALSE, !.seen = e.limit, !.raced = r]
  <1>1. Sound(mux, streamer) /\ mux \in Muxes /\ names \in [set : StreamAnswers, told : BOOLEAN]
    BY Here
  <1>2. e \in Entries
    BY <1>1, MuxTyped
  <1>3. /\ mux' = Put(mux, i, f) /\ names' = names
        /\ streamer' = IF Reports(e) THEN NotifyWaiters(streamer) ELSE streamer
    BY DEF PollEnds, WithConn, Put
  <1> HIDE DEF e
  <1>4. r \in BOOLEAN /\ e.limit \in Nat
    BY <1>2 DEF Entries
  <1>r. r <=> e.raced /\ ~Reports(e)
    OBVIOUS
  <1> HIDE DEF r
  <1>5. f \in Entries
    BY <1>2, <1>4, Zenon DEF Entries
  <1>6. /\ f.id = e.id /\ f.streams = e.streams /\ f.seen = e.limit /\ f.open = e.open
        /\ f.retired = e.retired /\ f.raced = r /\ f.skipped = FALSE
    BY <1>2, Zenon DEF Entries
  <1> HIDE DEF f
  <1>7. ~f.skipped
    BY <1>6, Zenon
  <1>8. CASE Reports(e)
    <2>1. /\ Typed(Put(mux, i, f), streamer) /\ Distinct(Put(mux, i, f)) /\ Lodged(Put(mux, i, f), streamer)
          /\ Totals(Put(mux, i, f), streamer) /\ Honest(Put(mux, i, f))
      BY <1>1, <1>5, <1>6, <1>7, PutSound DEF e
    <2>2. Sound(Put(mux, i, f), NotifyWaiters(streamer))
      BY <2>1, NotifyAll
    <2> QED  BY <1>1, <1>3, <1>8, <2>2, Rebuilt
  <1>9. CASE ~Reports(e)
    <2>1. ~e.skipped /\ e.seen = e.limit
      BY <1>9 DEF Reports
    <2>2. e.open /\ (e.raced \/ e.skipped) => f.raced \/ f.skipped
      BY <1>6, <1>9, <1>r, <2>1
    <2>3. Sound(Put(mux, i, f), streamer)
      BY <1>1, <1>5, <1>6, <1>7, <2>1, <2>2, PutQuiet DEF e
    <2> QED  BY <1>1, <1>3, <1>9, <2>3, Rebuilt
  <1> QED  BY <1>8, <1>9

LEMMA ClosesInv ==
  ASSUME IInv, NEW i \in DOMAIN mux.conns, Closes(i)
  PROVE  IInv'
  <1> DEFINE e == mux.conns[i]
             f == [e EXCEPT !.open = FALSE, !.busy = FALSE, !.seen = 0, !.limit = 0]
  <1>1. Sound(mux, streamer) /\ mux \in Muxes /\ names \in [set : StreamAnswers, told : BOOLEAN]
    BY Here
  <1>2. e \in Entries /\ 0 \in Nat
    BY <1>1, MuxTyped
  <1>3. mux' = Put(mux, i, f) /\ names' = names /\ streamer' = NotifyWaiters(streamer)
    BY DEF Closes, WithConn, Put
  <1> HIDE DEF e
  <1>5. f \in Entries
    BY <1>2, Zenon DEF Entries
  <1>6. f.id = e.id /\ f.streams = e.streams /\ f.open = FALSE
    BY <1>2, Zenon DEF Entries
  <1> HIDE DEF f
  <1>7. ~f.open
    BY <1>6, Zenon
  <1>8. /\ Typed(Put(mux, i, f), streamer) /\ Distinct(Put(mux, i, f)) /\ Lodged(Put(mux, i, f), streamer)
        /\ Totals(Put(mux, i, f), streamer) /\ Honest(Put(mux, i, f))
    BY <1>1, <1>5, <1>6, <1>7, PutSound DEF e
  <1>9. Sound(Put(mux, i, f), NotifyWaiters(streamer))
    BY <1>8, NotifyAll
  <1> QED  BY <1>1, <1>3, <1>9, Rebuilt

\* A limit that no driver has reported, and age, are nothing a sleeper waits for.
LEMMA OfflineInv ==
  ASSUME IInv, NEW i \in DOMAIN mux.conns, Ages(i) \/ \E limit \in PeerLimits : Settings(i, limit)
  PROVE  IInv'
  <1> DEFINE e == mux.conns[i]
  <1>1. Sound(mux, streamer) /\ mux \in Muxes /\ Honest(mux) /\ names \in [set : StreamAnswers, told : BOOLEAN]
    BY Here
  <1>2. e \in Entries
    BY <1>1, MuxTyped
  <1>3. \E f \in Entries :
          /\ f.id = e.id /\ f.streams = e.streams /\ f.seen = e.seen /\ f.open = e.open /\ f.busy = e.busy
          /\ f.retired = e.retired /\ f.raced = e.raced /\ f.skipped = e.skipped
          /\ mux' = Put(mux, i, f) /\ streamer' = streamer /\ names' = names
    <2>1. CASE Ages(i)
      <3> DEFINE a == IF e.age = "new" /\ e.streams = 0 THEN "cold" ELSE "old"
                 f == [e EXCEPT !.age = a]
      <3>1. a \in {"new", "cold", "old"}
        OBVIOUS
      <3>2. mux' = Put(mux, i, f) /\ streamer' = streamer /\ names' = names
        BY <2>1 DEF Ages, WithConn, Put
      <3> HIDE DEF a, e
      <3>3. /\ f \in Entries
            /\ f.id = e.id /\ f.streams = e.streams /\ f.seen = e.seen /\ f.open = e.open /\ f.busy = e.busy
            /\ f.retired = e.retired /\ f.raced = e.raced /\ f.skipped = e.skipped
        BY <1>2, <3>1, Zenon DEF Entries
      <3> HIDE DEF f
      <3> QED  BY <3>2, <3>3
    <2>2. CASE \E limit \in PeerLimits : Settings(i, limit)
      <3>1. PICK limit \in PeerLimits : Settings(i, limit)
        BY <2>2
      <3> DEFINE f == [e EXCEPT !.limit = limit]
      <3>2. limit \in Nat
        BY MultiplexAssumption
      <3>3. mux' = Put(mux, i, f) /\ streamer' = streamer /\ names' = names
        BY <3>1 DEF Settings, WithConn, Put
      <3> HIDE DEF e
      <3>4. /\ f \in Entries
            /\ f.id = e.id /\ f.streams = e.streams /\ f.seen = e.seen /\ f.open = e.open /\ f.busy = e.busy
            /\ f.retired = e.retired /\ f.raced = e.raced /\ f.skipped = e.skipped
        BY <1>2, <3>2, Zenon DEF Entries
      <3> HIDE DEF f
      <3> QED  BY <3>3, <3>4
    <2> QED  BY <2>1, <2>2
  <1>4. PICK f \in Entries :
          /\ f.id = e.id /\ f.streams = e.streams /\ f.seen = e.seen /\ f.open = e.open /\ f.busy = e.busy
          /\ f.retired = e.retired /\ f.raced = e.raced /\ f.skipped = e.skipped
          /\ mux' = Put(mux, i, f) /\ streamer' = streamer /\ names' = names
    BY <1>3
  <1>5. f.open /\ f.skipped => f.busy
    BY <1>1, <1>4 DEF Honest
  <1>6. Sound(Put(mux, i, f), streamer)
    BY <1>1, <1>4, <1>5, PutQuiet
  <1> QED  BY <1>1, <1>4, <1>6, Rebuilt

-----------------------------------------------------------------------------
(* Reload, resolution, drain, and the end of a checkout.                   *)

LEMMA SameConns ==
  ASSUME NEW s, NEW b, Sound(s, b), NEW s2 \in Muxes, s2.conns = s.conns, s2.streams = s.streams,
         s2.connecting = s.connecting, s2.waiting = s.waiting
  PROVE  Typed(s2, b) /\ Distinct(s2) /\ Lodged(s2, b) /\ Totals(s2, b) /\ Honest(s2)
  BY DEF Sound, Typed, Distinct, Lodged, Totals, Honest

LEMMA AnswerTyped == \A a \in StreamAnswers : a \in SUBSET Places
  BY DEF Places

LEMMA UpdatesInv ==
  ASSUME IInv,
         \/ \E config \in StreamConfigs : AdoptStreams(config)
         \/ RetireStreams
         \/ DrainStreams
  PROVE  IInv'
  <1>1. Sound(mux, streamer) /\ mux \in Muxes /\ names \in [set : StreamAnswers, told : BOOLEAN]
    BY Here
  <1>2. \E s \in Muxes :
          /\ s.conns = mux.conns /\ s.streams = mux.streams /\ s.connecting = mux.connecting
          /\ s.waiting = mux.waiting
          /\ mux' = Prune(s, TRUE) /\ streamer' = NotifyWaiters(streamer)
          /\ names' \in [set : StreamAnswers, told : BOOLEAN]
    <2>1. CASE \E config \in StreamConfigs : AdoptStreams(config)
      <3>1. PICK config \in StreamConfigs : AdoptStreams(config)
        BY <2>1
      <3> DEFINE s == [mux EXCEPT !.config = config]
      <3>2. mux' = Prune(s, TRUE) /\ streamer' = NotifyWaiters(streamer) /\ names' = names
        BY <3>1 DEF AdoptStreams
      <3>3. /\ s \in Muxes /\ s.conns = mux.conns /\ s.streams = mux.streams /\ s.connecting = mux.connecting
            /\ s.waiting = mux.waiting
        BY <1>1 DEF Muxes
      <3> HIDE DEF s
      <3> QED  BY <1>1, <3>2, <3>3
    <2>2. CASE RetireStreams
      <3> DEFINE s == [mux EXCEPT !.live = names.set]
      <3>1. mux' = Prune(s, TRUE) /\ streamer' = NotifyWaiters(streamer)
            /\ names' = [set |-> names.set, told |-> TRUE]
        BY <2>2 DEF RetireStreams
      <3>2. names.set \in StreamAnswers
        BY <1>1
      <3>3. names.set \in SUBSET Places
        BY <3>2, AnswerTyped
      <3>4. /\ s \in Muxes /\ s.conns = mux.conns /\ s.streams = mux.streams /\ s.connecting = mux.connecting
            /\ s.waiting = mux.waiting
        BY <1>1, <3>3 DEF Muxes
      <3>5. names' \in [set : StreamAnswers, told : BOOLEAN]
        BY <3>1, <3>2
      <3> HIDE DEF s
      <3> QED  BY <3>1, <3>4, <3>5
    <2>3. CASE DrainStreams
      <3> DEFINE s == [mux EXCEPT !.closed = TRUE]
      <3>1. mux' = Prune(s, TRUE) /\ streamer' = NotifyWaiters(streamer) /\ names' = names
        BY <2>3 DEF DrainStreams
      <3>2. s \in Muxes
        BY <1>1, Zenon DEF Muxes
      <3>3. /\ s.conns = mux.conns /\ s.streams = mux.streams /\ s.connecting = mux.connecting
            /\ s.waiting = mux.waiting
        BY <1>1 DEF Muxes
      <3> HIDE DEF s
      <3> QED  BY <1>1, <3>1, <3>2, <3>3
    <2> QED  BY <2>1, <2>2, <2>3
  <1>3. PICK s \in Muxes :
          /\ s.conns = mux.conns /\ s.streams = mux.streams /\ s.connecting = mux.connecting
          /\ s.waiting = mux.waiting
          /\ mux' = Prune(s, TRUE) /\ streamer' = NotifyWaiters(streamer)
          /\ names' \in [set : StreamAnswers, told : BOOLEAN]
    BY <1>2
  <1>4. Typed(s, streamer) /\ Distinct(s) /\ Lodged(s, streamer) /\ Totals(s, streamer) /\ Honest(s)
    BY <1>1, <1>3, SameConns
  <1>5. Sound(Prune(s, TRUE), NotifyWaiters(streamer))
    BY <1>4, PruneAll
  <1> QED  BY <1>3, <1>5, Rebuilt

LEMMA NewNamesInv ==
  ASSUME IInv, NEW answer \in StreamAnswers, NewNames(answer)
  PROVE  IInv'
  <1>1. Sound(mux, streamer) /\ names' = [set |-> answer, told |-> FALSE] /\ mux' = mux /\ streamer' = streamer
    BY Here DEF NewNames
  <1>2. names' \in [set : StreamAnswers, told : BOOLEAN]
    BY <1>1
  <1> QED  BY <1>1, <1>2, Rebuilt

\* Callers that change places without taking or giving up anything.
LEMMA SameGroups ==
  ASSUME NEW s, NEW b, Sound(s, b), NEW b2 \in Streamers, IsFiniteSet(At(b2, Busy)),
         \A c \in StreamCallers : /\ b2[c].pc \in Holding <=> b[c].pc \in Holding
                                  /\ b2[c].pc \in Dials <=> b[c].pc \in Dials
                                  /\ b2[c].pc \in Waits <=> b[c].pc \in Waits
                                  /\ b2[c].pc \in Holding => b2[c].conn = b[c].conn
  PROVE  Typed(s, b2) /\ Distinct(s) /\ Lodged(s, b2) /\ Totals(s, b2) /\ Honest(s)
  <1>1. s \in Muxes /\ Distinct(s) /\ Lodged(s, b) /\ Totals(s, b) /\ Honest(s)
    BY DEF Sound, Typed
  <1>2. At(b2, Holding) = At(b, Holding) /\ At(b2, Dials) = At(b, Dials) /\ At(b2, Waits) = At(b, Waits)
    BY DEF At
  <1>3. \A c \in At(b, Holding) : b2[c].conn = b[c].conn
    BY DEF At
  <1>4. \A id : Users(b2, id) = Users(b, id)
    BY <1>2, <1>3 DEF Users
  <1>5. Lodged(s, b2)
    BY <1>1, <1>2, <1>3, <1>4 DEF Lodged
  <1>6. Totals(s, b2)
    BY <1>1, <1>2 DEF Totals, Num
  <1> QED  BY <1>1, <1>5, <1>6 DEF Typed

LEMMA FinishWaitInv ==
  ASSUME IInv, NEW c \in StreamCallers, FinishWait(c)
  PROVE  IInv'
  <1> DEFINE q == IF streamer[c].pc = "lent" THEN "streaming" ELSE "away"
             b2 == [streamer EXCEPT ![c].pc = q]
  <1>1. /\ Sound(mux, streamer) /\ streamer \in Streamers /\ IsFiniteSet(At(streamer, Busy))
        /\ names \in [set : StreamAnswers, told : BOOLEAN]
    BY Here
  <1>2. /\ streamer[c].pc \in {"left", "lent"} /\ mux' = Prune(mux, TRUE)
        /\ streamer' = NotifyWaiters(b2) /\ names' = names
    BY DEF FinishWait
  <1>3. q \in PCs
    BY DEF PCs
  <1>q. q = IF streamer[c].pc = "lent" THEN "streaming" ELSE "away"
    OBVIOUS
  <1> HIDE DEF q
  <1>4. b2 \in Streamers
    BY <1>1, <1>3 DEF Streamers, Callers
  <1>5. b2[c].pc = q /\ b2[c].conn = streamer[c].conn /\ \A d \in StreamCallers \ {c} : b2[d] = streamer[d]
    BY <1>1 DEF Streamers, Callers
  <1> HIDE DEF b2
  <1>6. IsFiniteSet(At(b2, Busy))
    BY <1>1, <1>4, <1>5, StillFew
  <1>7. \A d \in StreamCallers : /\ b2[d].pc \in Holding <=> streamer[d].pc \in Holding
                                 /\ b2[d].pc \in Dials <=> streamer[d].pc \in Dials
                                 /\ b2[d].pc \in Waits <=> streamer[d].pc \in Waits
                                 /\ b2[d].pc \in Holding => b2[d].conn = streamer[d].conn
    <2> SUFFICES ASSUME NEW d \in StreamCallers
                 PROVE  /\ b2[d].pc \in Holding <=> streamer[d].pc \in Holding
                        /\ b2[d].pc \in Dials <=> streamer[d].pc \in Dials
                        /\ b2[d].pc \in Waits <=> streamer[d].pc \in Waits
                        /\ b2[d].pc \in Holding => b2[d].conn = streamer[d].conn
      OBVIOUS
    <2>1. CASE d = c
      BY <1>2, <1>5, <1>q, <2>1 DEF Holding, Dials, Waits
    <2>2. CASE d # c
      BY <1>5, <2>2
    <2> QED  BY <2>1, <2>2
  <1>8. Typed(mux, b2) /\ Distinct(mux) /\ Lodged(mux, b2) /\ Totals(mux, b2) /\ Honest(mux)
    BY <1>1, <1>4, <1>6, <1>7, SameGroups
  <1>9. Sound(Prune(mux, TRUE), NotifyWaiters(b2))
    BY <1>8, PruneAll
  <1> QED  BY <1>1, <1>2, <1>9, Rebuilt

LEMMA StreamerWakesInv ==
  ASSUME IInv, NEW c \in StreamCallers, StreamerWakes(c)
  PROVE  IInv'
  <1> DEFINE b2 == [streamer EXCEPT ![c].pc = "armed", ![c].woken = FALSE]
             r == [streamer[c] EXCEPT !.pc = "armed", !.woken = FALSE]
  <1>1. /\ Sound(mux, streamer) /\ streamer \in Streamers /\ IsFiniteSet(At(streamer, Busy))
        /\ Wakeful(mux, streamer) /\ names \in [set : StreamAnswers, told : BOOLEAN]
    BY Here
  <1>2. streamer[c].pc = "asleep" /\ streamer' = b2 /\ mux' = mux /\ names' = names
    BY DEF StreamerWakes
  <1>3. streamer[c] \in Callers /\ b2 = [streamer EXCEPT ![c] = r]
    BY <1>1 DEF Streamers
  <1>4. r \in Callers /\ r.pc = "armed"
    <2>1. "armed" \in PCs
      BY DEF PCs
    <2> QED  BY <1>3, <2>1, Zenon DEF Callers
  <1> HIDE DEF r, b2
  <1>5. b2 \in Streamers /\ b2[c] = r /\ \A d \in StreamCallers \ {c} : b2[d] = streamer[d]
    BY <1>1, <1>3, <1>4 DEF Streamers
  <1>6. IsFiniteSet(At(b2, Busy))
    BY <1>1, <1>5, StillFew
  <1>7. \A d \in StreamCallers : /\ b2[d].pc \in Holding <=> streamer[d].pc \in Holding
                                 /\ b2[d].pc \in Dials <=> streamer[d].pc \in Dials
                                 /\ b2[d].pc \in Waits <=> streamer[d].pc \in Waits
                                 /\ b2[d].pc \in Holding => b2[d].conn = streamer[d].conn
                                 /\ b2[d].pc \in Pending <=> streamer[d].pc \in Pending
    <2> SUFFICES ASSUME NEW d \in StreamCallers
                 PROVE  /\ b2[d].pc \in Holding <=> streamer[d].pc \in Holding
                        /\ b2[d].pc \in Dials <=> streamer[d].pc \in Dials
                        /\ b2[d].pc \in Waits <=> streamer[d].pc \in Waits
                        /\ b2[d].pc \in Holding => b2[d].conn = streamer[d].conn
                        /\ b2[d].pc \in Pending <=> streamer[d].pc \in Pending
      OBVIOUS
    <2>1. CASE d = c
      BY <1>2, <1>4, <1>5, <2>1 DEF Holding, Dials, Waits, Pending
    <2>2. CASE d # c
      BY <1>5, <2>2
    <2> QED  BY <2>1, <2>2
  <1>8. Typed(mux, b2) /\ Distinct(mux) /\ Lodged(mux, b2) /\ Totals(mux, b2) /\ Honest(mux)
    BY <1>1, <1>5, <1>6, <1>7, SameGroups
  <1>9. At(b2, Pending) = At(streamer, Pending)
    BY <1>7 DEF At
  <1>10. Wakeful(mux, b2)
    <2> SUFFICES ASSUME NEW d \in StreamCallers, b2[d].pc = "asleep"
                 PROVE  b2[d].woken \/ Quiet(mux) \/ At(b2, Pending) # {}
      BY DEF Wakeful
    <2>1. d # c
      BY <1>4, <1>5
    <2>2. b2[d] = streamer[d]
      BY <1>5, <2>1
    <2> QED  BY <1>1, <1>9, <2>2 DEF Wakeful
  <1>11. Sound(mux, b2)
    BY <1>8, <1>10 DEF Sound
  <1> QED  BY <1>1, <1>2, <1>11, Rebuilt

LEMMA PoisonInv ==
  ASSUME IInv, NEW c \in StreamCallers, Poison(c)
  PROVE  IInv'
  <1> DEFINE i == IndexOf(streamer[c].conn)
             e == mux.conns[i]
             f == [e EXCEPT !.retired = TRUE]
  <1>1. Sound(mux, streamer) /\ mux \in Muxes /\ Honest(mux) /\ names \in [set : StreamAnswers, told : BOOLEAN]
    BY Here
  <1>2. /\ mux' = Put(mux, i, f) /\ streamer' = NotifyWaiters(streamer) /\ names' = names
        /\ Registered(streamer[c].conn)
    BY DEF Poison, WithConn, Put
  <1>3. i \in DOMAIN mux.conns
    BY <1>2 DEF Registered, IndexOf
  <1> HIDE DEF i
  <1>4. e \in Entries
    BY <1>1, <1>3, MuxTyped
  <1>5. e.open /\ e.skipped => e.busy
    BY <1>1, <1>3 DEF Honest
  <1> HIDE DEF e
  <1>6. f \in Entries /\ f.id = e.id /\ f.streams = e.streams /\ f.open = e.open /\ f.skipped = e.skipped /\ f.busy = e.busy
    BY <1>4, Zenon DEF Entries
  <1> HIDE DEF f
  <1>7. /\ Typed(Put(mux, i, f), streamer) /\ Distinct(Put(mux, i, f)) /\ Lodged(Put(mux, i, f), streamer)
        /\ Totals(Put(mux, i, f), streamer) /\ Honest(Put(mux, i, f))
    BY <1>1, <1>3, <1>5, <1>6, PutSound DEF e
  <1>8. Sound(Put(mux, i, f), NotifyWaiters(streamer))
    BY <1>7, NotifyAll
  <1> QED  BY <1>1, <1>2, <1>8, Rebuilt

-----------------------------------------------------------------------------
(* Callers that join, dial and leave.                                      *)

LEMMA Recount ==
  ASSUME NEW s, NEW b \in Streamers, Totals(s, b), IsFiniteSet(At(b, Busy)), NEW c \in StreamCallers,
         NEW b2 \in Streamers, \A d \in StreamCallers \ {c} : b2[d].pc = b[d].pc,
         NEW s2, s2.streams \in Int, s2.connecting \in Int, s2.waiting \in Int,
         s2.streams + Seat(b, Holding, c) = s.streams + Seat(b2, Holding, c),
         s2.connecting + Seat(b, Dials, c) = s.connecting + Seat(b2, Dials, c),
         s2.waiting + Seat(b, Waits, c) = s.waiting + Seat(b2, Waits, c)
  PROVE  Totals(s2, b2)
  <1>1. \A S : Seat(b, S, c) \in Int /\ Seat(b2, S, c) \in Int
    BY DEF Seat
  <1>2. /\ Num(b, Holding) \in Nat /\ Num(b2, Holding) \in Nat
        /\ Num(b2, Holding) + Seat(b, Holding, c) = Num(b, Holding) + Seat(b2, Holding, c)
    BY Moved, Kinds
  <1>3. /\ Num(b, Dials) \in Nat /\ Num(b2, Dials) \in Nat
        /\ Num(b2, Dials) + Seat(b, Dials, c) = Num(b, Dials) + Seat(b2, Dials, c)
    BY Moved, Kinds
  <1>4. /\ Num(b, Waits) \in Nat /\ Num(b2, Waits) \in Nat
        /\ Num(b2, Waits) + Seat(b, Waits, c) = Num(b, Waits) + Seat(b2, Waits, c)
    BY Moved, Kinds
  <1>5. s.streams = Num(b, Holding) /\ s.connecting = Num(b, Dials) /\ s.waiting = Num(b, Waits)
    BY DEF Totals
  <1>6. s2.streams = Num(b2, Holding)
    <2>1. Seat(b, Holding, c) \in Int /\ Seat(b2, Holding, c) \in Int
      BY <1>1
    <2>2. s2.streams + Seat(b, Holding, c) = Num(b2, Holding) + Seat(b, Holding, c)
      BY <1>2, <1>5
    <2> QED  BY <1>2, <2>1, <2>2
  <1>7. s2.connecting = Num(b2, Dials)
    <2>1. Seat(b, Dials, c) \in Int /\ Seat(b2, Dials, c) \in Int
      BY <1>1
    <2>2. s2.connecting + Seat(b, Dials, c) = Num(b2, Dials) + Seat(b, Dials, c)
      BY <1>3, <1>5
    <2> QED  BY <1>3, <2>1, <2>2
  <1>8. s2.waiting = Num(b2, Waits)
    <2>1. Seat(b, Waits, c) \in Int /\ Seat(b2, Waits, c) \in Int
      BY <1>1
    <2>2. s2.waiting + Seat(b, Waits, c) = Num(b2, Waits) + Seat(b, Waits, c)
      BY <1>4, <1>5
    <2> QED  BY <1>4, <2>1, <2>2
  <1> QED  BY <1>6, <1>7, <1>8 DEF Totals

LEMMA SameHolders ==
  ASSUME NEW s, NEW s2, NEW b, NEW b2, s2.conns = s.conns, Lodged(s, b),
         \A d \in StreamCallers : /\ b2[d].pc \in Holding <=> b[d].pc \in Holding
                                  /\ b2[d].pc \in Holding => b2[d].conn = b[d].conn
  PROVE  Lodged(s2, b2)
  <1>1. At(b2, Holding) = At(b, Holding)
    BY DEF At
  <1>2. \A d \in At(b, Holding) : b2[d].conn = b[d].conn
    BY DEF At
  <1>3. \A id : Users(b2, id) = Users(b, id)
    BY <1>1, <1>2 DEF Users
  <1> QED  BY <1>1, <1>2, <1>3 DEF Lodged

LEMMA PendingWakes ==
  ASSUME NEW s, NEW b, NEW c \in StreamCallers, b[c].pc \in Pending
  PROVE  Wakeful(s, b)
  BY DEF Wakeful, At

\* What a caller becomes.
LEMMA Becomes ==
  ASSUME NEW b \in Streamers, NEW c \in StreamCallers, NEW r \in Callers
  PROVE  /\ [b EXCEPT ![c] = r] \in Streamers
         /\ [b EXCEPT ![c] = r][c] = r
         /\ \A d \in StreamCallers \ {c} : [b EXCEPT ![c] = r][d] = b[d]
  BY DEF Streamers

LEMMA NoStreamTyped == NoStream \in Callers /\ NoStream.pc = "away"
  <1>1. {} \in SUBSET Places /\ 0 \in Nat /\ 0 \in Int /\ "away" \in PCs
    BY DEF PCs
  <1> QED  BY <1>1, Zenon DEF NoStream, Callers

LEMMA PlainTyped ==
  ASSUME NEW pc \in PCs
  PROVE  [NoStream EXCEPT !.pc = pc] \in Callers /\ [NoStream EXCEPT !.pc = pc].pc = pc
  BY NoStreamTyped, Zenon DEF Callers

LEMMA EnterQueueInv ==
  ASSUME IInv, NEW c \in StreamCallers, EnterQueue(c)
  PROVE  IInv'
  <1> DEFINE q == IF mux.waiting + 1 <= mux.config.waiters THEN "armed" ELSE "refused"
             r == [NoStream EXCEPT !.pc = q, !.most = mux.config.max]
             b2 == [streamer EXCEPT ![c] = r]
             s2 == [mux EXCEPT !.waiting = mux.waiting + 1]
  <1>1. /\ mux \in Muxes /\ streamer \in Streamers /\ IsFiniteSet(At(streamer, Busy))
        /\ Distinct(mux) /\ Lodged(mux, streamer) /\ Totals(mux, streamer) /\ Honest(mux) /\ Wakeful(mux, streamer)
        /\ names \in [set : StreamAnswers, told : BOOLEAN]
    BY Here
  <1>2. streamer[c].pc = "away" /\ mux' = s2 /\ streamer' = b2 /\ names' = names
    BY DEF EnterQueue
  <1>3. q \in {"armed", "refused"}
    OBVIOUS
  <1> HIDE DEF q
  <1>4. r \in Callers /\ r.pc = q
    <2>1. q \in PCs
      BY <1>3 DEF PCs
    <2>2. mux.config.max \in Int
      BY <1>1, MuxTyped, ConfigTyped
    <2> QED  BY <2>1, <2>2, NoStreamTyped, Zenon DEF Callers
  <1> HIDE DEF r
  <1>5. b2 \in Streamers /\ b2[c] = r /\ \A d \in StreamCallers \ {c} : b2[d] = streamer[d]
    BY <1>1, <1>4, Becomes
  <1>6. /\ s2 \in Muxes /\ s2.conns = mux.conns /\ s2.streams = mux.streams /\ s2.connecting = mux.connecting
        /\ s2.waiting = mux.waiting + 1 /\ s2.config = mux.config /\ s2.closed = mux.closed
    <2>1. mux.waiting + 1 \in Int
      BY <1>1, MuxTyped
    <2> DEFINE w == mux.waiting + 1
    <2> HIDE DEF w
    <2>2. w \in Int /\ s2 = [mux EXCEPT !.waiting = w]
      BY <2>1 DEF w
    <2>3. /\ s2 \in Muxes /\ s2.conns = mux.conns /\ s2.streams = mux.streams /\ s2.connecting = mux.connecting
          /\ s2.waiting = w /\ s2.config = mux.config /\ s2.closed = mux.closed
      BY <1>1, <2>2 DEF Muxes
    <2> QED  BY <2>3 DEF w
  <1> HIDE DEF b2, s2
  <1>7. IsFiniteSet(At(b2, Busy))
    BY <1>1, <1>5, StillFew
  <1>8. \A d \in StreamCallers : /\ b2[d].pc \in Holding <=> streamer[d].pc \in Holding
                                 /\ b2[d].pc \in Holding => b2[d].conn = streamer[d].conn
    <2> SUFFICES ASSUME NEW d \in StreamCallers
                 PROVE  /\ b2[d].pc \in Holding <=> streamer[d].pc \in Holding
                        /\ b2[d].pc \in Holding => b2[d].conn = streamer[d].conn
      OBVIOUS
    <2>1. CASE d = c
      BY <1>2, <1>3, <1>4, <1>5, <2>1 DEF Holding
    <2>2. CASE d # c
      BY <1>5, <2>2
    <2> QED  BY <2>1, <2>2
  <1>9. Lodged(s2, b2)
    BY <1>1, <1>6, <1>8, SameHolders
  <1>10. /\ Seat(streamer, Holding, c) = 0 /\ Seat(b2, Holding, c) = 0
         /\ Seat(streamer, Dials, c) = 0 /\ Seat(b2, Dials, c) = 0
         /\ Seat(streamer, Waits, c) = 0 /\ Seat(b2, Waits, c) = 1
    BY <1>2, <1>3, <1>4, <1>5 DEF Seat, Holding, Dials, Waits
  <1>11. s2.streams \in Int /\ s2.connecting \in Int /\ s2.waiting \in Int /\ mux.waiting \in Int
    BY <1>1, <1>6, MuxTyped
  <1>12. Totals(s2, b2)
    <2>1. \A d \in StreamCallers \ {c} : b2[d].pc = streamer[d].pc
      BY <1>5
    <2>2. /\ s2.streams + Seat(streamer, Holding, c) = mux.streams + Seat(b2, Holding, c)
          /\ s2.connecting + Seat(streamer, Dials, c) = mux.connecting + Seat(b2, Dials, c)
          /\ s2.waiting + Seat(streamer, Waits, c) = mux.waiting + Seat(b2, Waits, c)
      BY <1>6, <1>10, <1>11
    <2> QED  BY <1>1, <1>5, <1>11, <2>1, <2>2, Recount
  <1>13. Wakeful(s2, b2)
    <2>1. Quiet(mux) => Quiet(s2)
      BY <1>6 DEF Quiet, Full, Owing, Room, SeenTakes
    <2>2. At(streamer, Pending) # {} => At(b2, Pending) # {}
      <3> SUFFICES ASSUME NEW d \in StreamCallers, streamer[d].pc \in Pending PROVE b2[d].pc \in Pending
        BY DEF At
      <3>1. d # c
        BY <1>2 DEF Pending
      <3> QED  BY <1>5, <3>1
    <2>3. \A d \in StreamCallers : b2[d].pc = "asleep" => b2[d] = streamer[d]
      BY <1>3, <1>4, <1>5
    <2> QED  BY <1>1, <2>1, <2>2, <2>3 DEF Wakeful
  <1>14. Distinct(s2) /\ Honest(s2)
    BY <1>1, <1>6 DEF Distinct, Honest
  <1>15. Sound(s2, b2)
    BY <1>5, <1>6, <1>7, <1>9, <1>12, <1>13, <1>14 DEF Sound, Typed
  <1> QED  BY <1>1, <1>2, <1>15, Rebuilt

LEMMA LeavesQueueInv ==
  ASSUME IInv, NEW c \in StreamCallers, LeavesQueue(c)
  PROVE  IInv'
  <1> DEFINE q == IF streamer[c].pc = "served" THEN "lent" ELSE "left"
             r == [NoStream EXCEPT !.pc = q, !.conn = streamer[c].conn]
             b2 == [streamer EXCEPT ![c] = r]
             w == mux.waiting - 1
             s2 == [mux EXCEPT !.waiting = w]
  <1>1. /\ mux \in Muxes /\ streamer \in Streamers /\ IsFiniteSet(At(streamer, Busy))
        /\ Distinct(mux) /\ Lodged(mux, streamer) /\ Totals(mux, streamer) /\ Honest(mux)
        /\ names \in [set : StreamAnswers, told : BOOLEAN]
    BY Here
  <1>2. streamer[c].pc \in {"asleep", "refused", "served"} /\ mux' = s2 /\ streamer' = b2 /\ names' = names
    BY DEF LeavesQueue
  <1>3. q \in {"lent", "left"} /\ (q = "lent" <=> streamer[c].pc = "served")
    OBVIOUS
  <1> HIDE DEF q
  <1>4. r \in Callers /\ r.pc = q /\ r.conn = streamer[c].conn
    <2>1. q \in PCs
      BY <1>3 DEF PCs
    <2>2. streamer[c].conn \in Nat
      BY <1>1 DEF Streamers, Callers
    <2> QED  BY <2>1, <2>2, NoStreamTyped, Zenon DEF Callers
  <1> HIDE DEF r
  <1>5. b2 \in Streamers /\ b2[c] = r /\ \A d \in StreamCallers \ {c} : b2[d] = streamer[d]
    BY <1>1, <1>4, Becomes
  <1>w. w \in Int /\ w + 1 = mux.waiting
    BY <1>1, MuxTyped
  <1> HIDE DEF w
  <1>6. /\ s2 \in Muxes /\ s2.conns = mux.conns /\ s2.streams = mux.streams /\ s2.connecting = mux.connecting
        /\ s2.waiting = w
    BY <1>1, <1>w DEF Muxes
  <1> HIDE DEF b2, s2
  <1>7. IsFiniteSet(At(b2, Busy))
    BY <1>1, <1>5, StillFew
  <1>8. \A d \in StreamCallers : /\ b2[d].pc \in Holding <=> streamer[d].pc \in Holding
                                 /\ b2[d].pc \in Holding => b2[d].conn = streamer[d].conn
    <2> SUFFICES ASSUME NEW d \in StreamCallers
                 PROVE  /\ b2[d].pc \in Holding <=> streamer[d].pc \in Holding
                        /\ b2[d].pc \in Holding => b2[d].conn = streamer[d].conn
      OBVIOUS
    <2>1. CASE d = c
      BY <1>2, <1>3, <1>4, <1>5, <2>1 DEF Holding
    <2>2. CASE d # c
      BY <1>5, <2>2
    <2> QED  BY <2>1, <2>2
  <1>9. Lodged(s2, b2)
    BY <1>1, <1>6, <1>8, SameHolders
  <1>10. /\ Seat(streamer, Holding, c) = Seat(b2, Holding, c)
         /\ Seat(streamer, Dials, c) = 0 /\ Seat(b2, Dials, c) = 0
         /\ Seat(streamer, Waits, c) = 1 /\ Seat(b2, Waits, c) = 0
    BY <1>2, <1>3, <1>4, <1>5 DEF Seat, Holding, Dials, Waits
  <1>11. s2.streams \in Int /\ s2.connecting \in Int /\ s2.waiting \in Int /\ mux.waiting \in Int
    BY <1>1, <1>6, MuxTyped
  <1>12. Totals(s2, b2)
    <2>1. \A d \in StreamCallers \ {c} : b2[d].pc = streamer[d].pc
      BY <1>5
    <2>2. /\ s2.streams + Seat(streamer, Holding, c) = mux.streams + Seat(b2, Holding, c)
          /\ s2.connecting + Seat(streamer, Dials, c) = mux.connecting + Seat(b2, Dials, c)
          /\ s2.waiting + Seat(streamer, Waits, c) = mux.waiting + Seat(b2, Waits, c)
      BY <1>6, <1>w, <1>10, <1>11
    <2> QED  BY <1>1, <1>5, <1>11, <2>1, <2>2, Recount
  <1>13. Wakeful(s2, b2)
    <2>1. b2[c].pc \in Pending
      BY <1>3, <1>4, <1>5 DEF Pending
    <2> QED  BY <2>1, PendingWakes
  <1>14. Distinct(s2) /\ Honest(s2)
    BY <1>1, <1>6 DEF Distinct, Honest
  <1>15. Sound(s2, b2)
    BY <1>5, <1>6, <1>7, <1>9, <1>12, <1>13, <1>14 DEF Sound, Typed
  <1> QED  BY <1>1, <1>2, <1>15, Rebuilt

LEMMA FailDialInv ==
  ASSUME IInv, NEW c \in StreamCallers, FailDial(c)
  PROVE  IInv'
  <1> DEFINE r == [NoStream EXCEPT !.pc = "refused"]
             b2 == [streamer EXCEPT ![c] = r]
             w == mux.connecting - 1
             s2 == [mux EXCEPT !.connecting = w]
  <1>1. /\ mux \in Muxes /\ streamer \in Streamers /\ IsFiniteSet(At(streamer, Busy))
        /\ Distinct(mux) /\ Lodged(mux, streamer) /\ Totals(mux, streamer) /\ Honest(mux)
        /\ names \in [set : StreamAnswers, told : BOOLEAN]
    BY Here
  <1>2. streamer[c].pc = "dialing" /\ mux' = s2 /\ streamer' = NotifyWaiters(b2) /\ names' = names
    BY DEF FailDial
  <1>4. r \in Callers /\ r.pc = "refused"
    <2>1. "refused" \in PCs
      BY DEF PCs
    <2> QED  BY <2>1, PlainTyped
  <1> HIDE DEF r
  <1>5. b2 \in Streamers /\ b2[c] = r /\ \A d \in StreamCallers \ {c} : b2[d] = streamer[d]
    BY <1>1, <1>4, Becomes
  <1>w. w \in Int /\ w + 1 = mux.connecting
    BY <1>1, MuxTyped
  <1> HIDE DEF w
  <1>6. /\ s2 \in Muxes /\ s2.conns = mux.conns /\ s2.streams = mux.streams /\ s2.connecting = w
        /\ s2.waiting = mux.waiting
    BY <1>1, <1>w DEF Muxes
  <1> HIDE DEF b2, s2
  <1>7. IsFiniteSet(At(b2, Busy))
    BY <1>1, <1>5, StillFew
  <1>8. \A d \in StreamCallers : /\ b2[d].pc \in Holding <=> streamer[d].pc \in Holding
                                 /\ b2[d].pc \in Holding => b2[d].conn = streamer[d].conn
    BY <1>2, <1>4, <1>5 DEF Holding
  <1>9. Lodged(s2, b2)
    BY <1>1, <1>6, <1>8, SameHolders
  <1>10. /\ Seat(streamer, Holding, c) = 0 /\ Seat(b2, Holding, c) = 0
         /\ Seat(streamer, Dials, c) = 1 /\ Seat(b2, Dials, c) = 0
         /\ Seat(streamer, Waits, c) = 1 /\ Seat(b2, Waits, c) = 1
    BY <1>2, <1>4, <1>5 DEF Seat, Holding, Dials, Waits
  <1>11. s2.streams \in Int /\ s2.connecting \in Int /\ s2.waiting \in Int
    BY <1>1, <1>6, MuxTyped
  <1>12. Totals(s2, b2)
    <2>1. \A d \in StreamCallers \ {c} : b2[d].pc = streamer[d].pc
      BY <1>5
    <2>2. /\ s2.streams + Seat(streamer, Holding, c) = mux.streams + Seat(b2, Holding, c)
          /\ s2.connecting + Seat(streamer, Dials, c) = mux.connecting + Seat(b2, Dials, c)
          /\ s2.waiting + Seat(streamer, Waits, c) = mux.waiting + Seat(b2, Waits, c)
      BY <1>6, <1>w, <1>10, <1>11
    <2> QED  BY <1>1, <1>5, <1>11, <2>1, <2>2, Recount
  <1>14. Distinct(s2) /\ Honest(s2)
    BY <1>1, <1>6 DEF Distinct, Honest
  <1>15. Sound(s2, NotifyWaiters(b2))
    BY <1>5, <1>6, <1>7, <1>9, <1>12, <1>14, NotifyAll DEF Typed
  <1> QED  BY <1>1, <1>2, <1>15, Rebuilt

LEMMA EntryTyped ==
  ASSUME NEW id \in ConnIds, NEW a \in Places, NEW seen \in {0, PeerLimit}, NEW busy \in BOOLEAN
  PROVE  /\ Entry(id, a, seen, busy) \in Entries
         /\ Entry(id, a, seen, busy).id = id /\ Entry(id, a, seen, busy).streams = 0
         /\ Entry(id, a, seen, busy).skipped = FALSE
  <1>1. PeerLimit \in Nat /\ seen \in Nat /\ 0 \in Int /\ "new" \in {"new", "cold", "old"}
    BY MultiplexAssumption
  <1> QED  BY <1>1, Zenon DEF Entry, Entries

\* A connection nobody uses yet.
LEMMA Appended ==
  ASSUME NEW s \in Muxes, NEW b \in Streamers, IsFiniteSet(At(b, Busy)), Distinct(s), Lodged(s, b), Honest(s),
         NEW e \in Entries, e.streams = 0, ~e.skipped, e.id \notin ConnsOf(s),
         NEW s2, s2.conns = Append(s.conns, e)
  PROVE  Distinct(s2) /\ Lodged(s2, b) /\ Honest(s2)
  <1> DEFINE n == Len(s.conns)
  <1>1. /\ s.conns \in Seq(Entries) /\ n \in Nat /\ DOMAIN s.conns = 1..n
    BY MuxTyped
  <1>2. /\ DOMAIN s2.conns = 1..(n + 1) /\ s2.conns[n + 1] = e
        /\ \A i \in 1..n : s2.conns[i] = s.conns[i]
    BY <1>1
  <1>3. \A i \in 1..(n + 1) : i \in 1..n \/ i = n + 1
    BY <1>1
  <1>4. \A i \in 1..n : i \in 1..(n + 1)
    BY <1>1
  <1>5. \A i \in 1..n : s.conns[i].id # e.id
    BY <1>1 DEF ConnsOf
  <1> HIDE DEF n
  <1>6. Distinct(s2)
    BY <1>1, <1>2, <1>3, <1>5 DEF Distinct
  <1>7. Honest(s2)
    BY <1>1, <1>2, <1>3 DEF Honest
  <1>8. \A c \in At(b, Holding) : b[c].conn # e.id
    BY <1>1, <1>5 DEF Lodged
  <1>9. Users(b, e.id) = {}
    BY <1>8 DEF Users
  <1>10. Cardinality(Users(b, e.id)) = 0
    BY <1>9, FS_EmptySet
  <1>11. Lodged(s2, b)
    <2>1. \A c \in At(b, Holding) : \E i \in DOMAIN s2.conns : s2.conns[i].id = b[c].conn
      <3> SUFFICES ASSUME NEW c \in At(b, Holding) PROVE \E i \in DOMAIN s2.conns : s2.conns[i].id = b[c].conn
        OBVIOUS
      <3>1. PICK i \in 1..n : s.conns[i].id = b[c].conn
        BY <1>1 DEF Lodged
      <3> QED  BY <1>2, <1>4, <3>1
    <2>2. \A i \in DOMAIN s2.conns : s2.conns[i].streams = Cardinality(Users(b, s2.conns[i].id))
      <3> SUFFICES ASSUME NEW i \in 1..(n + 1)
                   PROVE  s2.conns[i].streams = Cardinality(Users(b, s2.conns[i].id))
        BY <1>2
      <3>1. CASE i \in 1..n
        BY <1>1, <1>2, <3>1 DEF Lodged
      <3>2. CASE i = n + 1
        BY <1>2, <1>10, <3>2
      <3> QED  BY <1>3, <3>1, <3>2
    <2> QED  BY <2>1, <2>2 DEF Lodged
  <1> QED  BY <1>6, <1>7, <1>11

LEMMA FinishDialInv ==
  ASSUME IInv, NEW c \in StreamCallers, NEW a \in UNION StreamAnswers, NEW id,
         NEW seen \in {0, PeerLimit}, NEW busy \in BOOLEAN, FinishDial(c, a, id, seen, busy)
  PROVE  IInv'
  <1> DEFINE n == NotifyWaiters(streamer)
             r == [n[c] EXCEPT !.pc = "armed", !.order = {}]
             b2 == [n EXCEPT ![c] = r]
             w == mux.connecting - 1
             e == Entry(id, a, seen, busy)
             wanted == ~mux.closed /\ ~Revoked(mux, [at |-> a]) /\ Len(mux.conns) < mux.config.max
             q == IF wanted THEN Append(mux.conns, e) ELSE mux.conns
             s2 == [mux EXCEPT !.connecting = w, !.conns = q]
  <1>1. /\ mux \in Muxes /\ streamer \in Streamers /\ IsFiniteSet(At(streamer, Busy))
        /\ Distinct(mux) /\ Lodged(mux, streamer) /\ Totals(mux, streamer) /\ Honest(mux)
        /\ names \in [set : StreamAnswers, told : BOOLEAN]
    BY Here
  <1>n. /\ n \in Streamers
        /\ \A d \in StreamCallers : /\ n[d].pc = streamer[d].pc /\ n[d].conn = streamer[d].conn
                                    /\ n[d].pc = "asleep" => n[d].woken
    BY <1>1, Notified
  <1> HIDE DEF n
  <1>2. /\ streamer[c].pc = "dialing" /\ id \in ConnIds /\ id \notin ConnsOf(mux)
        /\ mux' = s2 /\ names' = names
    BY DEF FinishDial
  <1>b. streamer' = b2
    <2>1. streamer' = [n EXCEPT ![c].pc = "armed", ![c].order = {}]
      BY DEF FinishDial, n
    <2> QED  BY <1>n, <2>1 DEF Streamers
  <1>3. n[c] \in Callers
    BY <1>n DEF Streamers
  <1>4. r \in Callers /\ r.pc = "armed" /\ r.conn = streamer[c].conn
    <2>1. "armed" \in PCs /\ {} \in SUBSET Places
      BY DEF PCs
    <2>2. r \in Callers /\ r.pc = "armed" /\ r.conn = n[c].conn
      BY <1>3, <2>1, Zenon DEF Callers
    <2> QED  BY <1>n, <2>2
  <1> HIDE DEF r
  <1>5. b2 \in Streamers /\ b2[c] = r /\ \A d \in StreamCallers \ {c} : b2[d] = n[d]
    BY <1>n, <1>4, Becomes
  <1>w. w \in Int /\ w + 1 = mux.connecting
    BY <1>1, MuxTyped
  <1>e. e \in Entries /\ e.id = id /\ e.streams = 0 /\ ~e.skipped
    <2>1. a \in Places
      BY DEF Places
    <2>2. id \in ConnIds
      BY <1>2
    <2>3. /\ Entry(id, a, seen, busy) \in Entries
          /\ Entry(id, a, seen, busy).id = id /\ Entry(id, a, seen, busy).streams = 0
          /\ Entry(id, a, seen, busy).skipped = FALSE
      BY <2>1, <2>2, EntryTyped
    <2> HIDE DEF e
    <2>4. e \in Entries /\ e.id = id /\ e.streams = 0 /\ e.skipped = FALSE
      BY <2>3 DEF e
    <2> QED  BY <2>4, Zenon
  <1> HIDE DEF w, e, wanted
  <1>q. q \in Seq(Entries)
    BY <1>1, <1>e, MuxTyped
  <1>c. q = Append(mux.conns, e) \/ q = mux.conns
    OBVIOUS
  <1> HIDE DEF q
  <1>6. /\ s2 \in Muxes /\ s2.conns = q /\ s2.streams = mux.streams /\ s2.connecting = w
        /\ s2.waiting = mux.waiting
    BY <1>1, <1>w, <1>q DEF Muxes
  <1> HIDE DEF b2, s2
  <1>7. IsFiniteSet(At(b2, Busy))
    <2>1. \A d \in StreamCallers \ {c} : b2[d].pc = streamer[d].pc
      BY <1>n, <1>5
    <2> QED  BY <1>1, <1>5, <2>1, StillFew
  <1>8. \A d \in StreamCallers : /\ b2[d].pc \in Holding <=> streamer[d].pc \in Holding
                                 /\ b2[d].pc \in Holding => b2[d].conn = streamer[d].conn
    <2> SUFFICES ASSUME NEW d \in StreamCallers
                 PROVE  /\ b2[d].pc \in Holding <=> streamer[d].pc \in Holding
                        /\ b2[d].pc \in Holding => b2[d].conn = streamer[d].conn
      OBVIOUS
    <2>1. CASE d = c
      BY <1>2, <1>4, <1>5, <2>1 DEF Holding
    <2>2. CASE d # c
      BY <1>n, <1>5, <2>2
    <2> QED  BY <2>1, <2>2
  <1>9. Lodged(mux, b2)
    BY <1>1, <1>8, SameHolders
  <1>10. /\ Seat(streamer, Holding, c) = 0 /\ Seat(b2, Holding, c) = 0
         /\ Seat(streamer, Dials, c) = 1 /\ Seat(b2, Dials, c) = 0
         /\ Seat(streamer, Waits, c) = 1 /\ Seat(b2, Waits, c) = 1
    BY <1>2, <1>4, <1>5 DEF Seat, Holding, Dials, Waits
  <1>11. s2.streams \in Int /\ s2.connecting \in Int /\ s2.waiting \in Int
    BY <1>1, <1>6, MuxTyped
  <1>12. Totals(s2, b2)
    <2>1. \A d \in StreamCallers \ {c} : b2[d].pc = streamer[d].pc
      BY <1>n, <1>5
    <2>2. /\ s2.streams + Seat(streamer, Holding, c) = mux.streams + Seat(b2, Holding, c)
          /\ s2.connecting + Seat(streamer, Dials, c) = mux.connecting + Seat(b2, Dials, c)
          /\ s2.waiting + Seat(streamer, Waits, c) = mux.waiting + Seat(b2, Waits, c)
      BY <1>6, <1>w, <1>10, <1>11
    <2> QED  BY <1>1, <1>5, <1>11, <2>1, <2>2, Recount
  <1>13. Distinct(s2) /\ Lodged(s2, b2) /\ Honest(s2)
    <2>1. CASE q = mux.conns
      BY <1>1, <1>6, <1>9, <2>1 DEF Distinct, Lodged, Honest
    <2>2. CASE q = Append(mux.conns, e)
      BY <1>1, <1>2, <1>5, <1>6, <1>7, <1>9, <1>e, <2>2, Appended
    <2> QED  BY <1>c, <2>1, <2>2
  <1>14. Wakeful(s2, b2)
    <2>1. \A d \in StreamCallers : b2[d].pc = "asleep" => b2[d].woken
      BY <1>n, <1>4, <1>5
    <2> QED  BY <2>1, Stirred
  <1>15. Sound(s2, b2)
    BY <1>5, <1>6, <1>7, <1>12, <1>13, <1>14 DEF Sound, Typed
  <1> QED  BY <1>1, <1>2, <1>b, <1>15, Rebuilt

-----------------------------------------------------------------------------
(* Multiplex::next.                                                        *)

\* Looking changes nothing but what the drivers owe.
Looked(s, t) ==
  /\ t \in Muxes
  /\ t.config = s.config /\ t.connecting = s.connecting /\ t.streams = s.streams
  /\ t.live = s.live /\ t.closed = s.closed /\ t.waiting = s.waiting
  /\ DOMAIN t.conns = DOMAIN s.conns /\ Len(t.conns) = Len(s.conns)
  /\ \A i \in DOMAIN s.conns :
       /\ t.conns[i].id = s.conns[i].id /\ t.conns[i].at = s.conns[i].at
       /\ t.conns[i].streams = s.conns[i].streams /\ t.conns[i].open = s.conns[i].open
       /\ t.conns[i].retired = s.conns[i].retired /\ t.conns[i].limit = s.conns[i].limit
       /\ t.conns[i].seen = s.conns[i].seen /\ t.conns[i].busy = s.conns[i].busy
       /\ t.conns[i].skipped => s.conns[i].skipped \/ t.conns[i].busy

LEMMA Samples ==
  ASSUME NEW s \in Muxes, NEW asked, NEW i \in DOMAIN s.conns
  PROVE  /\ Sampled(s, asked)[i] \in Entries
         /\ Sampled(s, asked)[i].id = s.conns[i].id /\ Sampled(s, asked)[i].at = s.conns[i].at
         /\ Sampled(s, asked)[i].streams = s.conns[i].streams /\ Sampled(s, asked)[i].open = s.conns[i].open
         /\ Sampled(s, asked)[i].retired = s.conns[i].retired /\ Sampled(s, asked)[i].limit = s.conns[i].limit
         /\ Sampled(s, asked)[i].seen = s.conns[i].seen /\ Sampled(s, asked)[i].busy = s.conns[i].busy
         /\ Sampled(s, asked)[i].skipped => s.conns[i].skipped \/ s.conns[i].busy
         /\ i <= asked /\ ~s.conns[i].retired /\ s.conns[i].open =>
              /\ s.conns[i].busy => Sampled(s, asked)[i].skipped
              /\ ~s.conns[i].busy /\ s.conns[i].limit # s.conns[i].seen => Sampled(s, asked)[i].raced
  <1> DEFINE e == s.conns[i]
             r == ~e.busy /\ e.limit # e.seen
             f == [e EXCEPT !.skipped = e.busy, !.raced = r]
             t == Sampled(s, asked)[i]
  <1>1. e \in Entries
    BY MuxTyped
  <1>2. t = IF i <= asked /\ ~e.retired /\ e.open THEN f ELSE e
    BY DEF Sampled
  <1> HIDE DEF e, t
  <1>3. r \in BOOLEAN /\ e.busy \in BOOLEAN
    BY <1>1, Zenon DEF Entries
  <1>r. r <=> ~e.busy /\ e.limit # e.seen
    OBVIOUS
  <1> HIDE DEF r
  <1>4. /\ f \in Entries /\ f.id = e.id /\ f.at = e.at /\ f.streams = e.streams /\ f.open = e.open
        /\ f.retired = e.retired /\ f.limit = e.limit /\ f.seen = e.seen /\ f.busy = e.busy
        /\ f.skipped = e.busy /\ f.raced = r
    BY <1>1, <1>3, Zenon DEF Entries
  <1> HIDE DEF f
  <1>5. CASE i <= asked /\ ~e.retired /\ e.open
    <2>1. t = f
      BY <1>2, <1>5
    <2> QED  BY <1>4, <1>r, <2>1 DEF e, t
  <1>6. CASE ~(i <= asked /\ ~e.retired /\ e.open)
    <2>1. t = e
      BY <1>2, <1>6
    <2> QED  BY <1>1, <1>6, <2>1 DEF e, t
  <1> QED  BY <1>5, <1>6

LEMMA Looks ==
  ASSUME NEW s \in Muxes
  PROVE  Looked(s, LookedAt(s))
  <1>1. CASE s.closed \/ s.streams >= s.config.streams
    <2>1. LookedAt(s) = s
      BY <1>1 DEF LookedAt
    <2> QED  BY <2>1 DEF Looked
  <1>2. CASE ~(s.closed \/ s.streams >= s.config.streams)
    <2> DEFINE asked == IF Serving(s) = {} THEN Len(s.conns) ELSE FirstServing(s)
               q == Sampled(s, asked)
               t == LookedAt(s)
               n == Len(s.conns)
    <2>1. t = [s EXCEPT !.conns = q]
      BY <1>2 DEF LookedAt
    <2> HIDE DEF asked
    <2>2. n \in Nat /\ DOMAIN s.conns = 1..n
      BY MuxTyped
    <2>3. DOMAIN q = 1..n /\ \A i \in 1..n : q[i] \in Entries
      BY <2>2, Samples DEF Sampled
    <2>4. q \in Seq(Entries) /\ Len(q) = n
      <3>1. q = [i \in 1..n |-> q[i]]
        BY <2>2 DEF Sampled
      <3> HIDE DEF q
      <3> QED  BY <2>2, <2>3, <3>1
    <2>5. \A i \in DOMAIN s.conns :
            /\ q[i].id = s.conns[i].id /\ q[i].at = s.conns[i].at
            /\ q[i].streams = s.conns[i].streams /\ q[i].open = s.conns[i].open
            /\ q[i].retired = s.conns[i].retired /\ q[i].limit = s.conns[i].limit
            /\ q[i].seen = s.conns[i].seen /\ q[i].busy = s.conns[i].busy
            /\ q[i].skipped => s.conns[i].skipped \/ s.conns[i].busy
      BY Samples
    <2> HIDE DEF q, t, n
    <2>6. t \in Muxes
      BY <2>1, <2>4 DEF Muxes
    <2>7. /\ t.config = s.config /\ t.connecting = s.connecting /\ t.streams = s.streams
          /\ t.live = s.live /\ t.closed = s.closed /\ t.waiting = s.waiting /\ t.conns = q
      BY <2>1 DEF Muxes
    <2> QED  BY <2>2, <2>3, <2>4, <2>5, <2>6, <2>7 DEF Looked, t, n
  <1> QED  BY <1>1, <1>2

Base(s, b) == Typed(s, b) /\ Distinct(s) /\ Lodged(s, b) /\ Totals(s, b) /\ Honest(s)

LEMMA LookedBase ==
  ASSUME NEW s, NEW t, NEW b, Looked(s, t), Base(s, b)
  PROVE  Base(t, b)
  <1>1. Distinct(t) /\ Lodged(t, b)
    BY SameLodging DEF Looked, Base
  <1>2. Typed(t, b) /\ Totals(t, b)
    BY DEF Looked, Base, Typed, Totals
  <1>3. Honest(t)
    BY DEF Looked, Base, Honest
  <1> QED  BY <1>1, <1>2, <1>3 DEF Base

LEMMA ReadyBase ==
  ASSUME IInv
  PROVE  /\ Base(Ready, streamer) /\ Looked(Ready, LookedAt(Ready))
         /\ Base(LookedAt(Ready), streamer)
  <1>1. /\ Typed(mux, streamer) /\ Distinct(mux) /\ Lodged(mux, streamer) /\ Totals(mux, streamer) /\ Honest(mux)
        /\ mux \in Muxes /\ streamer \in Streamers /\ IsFiniteSet(At(streamer, Busy))
    BY Here
  <1> DEFINE p == Prune(mux, FALSE)
  <1>2. /\ p \in Muxes /\ p.connecting = mux.connecting /\ p.streams = mux.streams /\ p.waiting = mux.waiting
        /\ Distinct(p)
    BY <1>1, Pruned
  <1>3. Lodged(p, streamer) /\ Honest(p)
    BY <1>1, PrunedLodged, PrunedHonest
  <1>4. Base(p, streamer)
    BY <1>1, <1>2, <1>3 DEF Base, Typed, Totals
  <1>5. p = Ready
    BY DEF Ready
  <1> HIDE DEF p
  <1>6. Looked(p, LookedAt(p))
    BY <1>2, Looks
  <1>7. Base(LookedAt(p), streamer)
    BY <1>4, <1>6, LookedBase
  <1> QED  BY <1>4, <1>5, <1>6, <1>7

\* A caller in the queue that takes a reservation, is refused or goes to sleep.
LEMMA Shifted ==
  ASSUME NEW s, NEW b, Base(s, b), NEW c \in StreamCallers, NEW r \in Callers, b[c].pc = "armed",
         r.pc \in {"asleep", "refused", "dialing"}, NEW s2 \in Muxes, s2.conns = s.conns,
         s2.streams = s.streams, s2.waiting = s.waiting,
         s2.connecting = IF r.pc = "dialing" THEN s.connecting + 1 ELSE s.connecting
  PROVE  Base(s2, [b EXCEPT ![c] = r])
  <1> DEFINE b2 == [b EXCEPT ![c] = r]
  <1>1. /\ s \in Muxes /\ b \in Streamers /\ IsFiniteSet(At(b, Busy)) /\ Distinct(s) /\ Lodged(s, b)
        /\ Totals(s, b) /\ Honest(s)
    BY DEF Base, Typed
  <1>2. b2 \in Streamers /\ b2[c] = r /\ \A d \in StreamCallers \ {c} : b2[d] = b[d]
    BY <1>1, Becomes
  <1> HIDE DEF b2
  <1>3. IsFiniteSet(At(b2, Busy))
    BY <1>1, <1>2, StillFew
  <1>4. \A d \in StreamCallers : /\ b2[d].pc \in Holding <=> b[d].pc \in Holding
                                 /\ b2[d].pc \in Holding => b2[d].conn = b[d].conn
    BY <1>2 DEF Holding
  <1>5. Lodged(s2, b2)
    BY <1>1, <1>4, SameHolders
  <1>6. Distinct(s2) /\ Honest(s2)
    BY <1>1 DEF Distinct, Honest
  <1>7. /\ Seat(b, Holding, c) = 0 /\ Seat(b2, Holding, c) = 0
        /\ Seat(b, Dials, c) = 0 /\ Seat(b2, Dials, c) = IF r.pc = "dialing" THEN 1 ELSE 0
        /\ Seat(b, Waits, c) = 1 /\ Seat(b2, Waits, c) = 1
    BY <1>2 DEF Seat, Holding, Dials, Waits
  <1>8. s2.streams \in Int /\ s2.connecting \in Int /\ s2.waiting \in Int /\ s.connecting \in Int
    BY <1>1, MuxTyped
  <1>9. Totals(s2, b2)
    <2>1. \A d \in StreamCallers \ {c} : b2[d].pc = b[d].pc
      BY <1>2
    <2>2. /\ s2.streams + Seat(b, Holding, c) = s.streams + Seat(b2, Holding, c)
          /\ s2.connecting + Seat(b, Dials, c) = s.connecting + Seat(b2, Dials, c)
          /\ s2.waiting + Seat(b, Waits, c) = s.waiting + Seat(b2, Waits, c)
      BY <1>7, <1>8
    <2> QED  BY <1>1, <1>2, <1>8, <2>1, <2>2, Recount
  <1>10. Base(s2, b2)
    BY <1>2, <1>3, <1>5, <1>6, <1>9 DEF Base, Typed
  <1> QED  BY <1>10 DEF b2

LEMMA NextClosedInv ==
  ASSUME IInv, NEW c \in StreamCallers, NextClosed(c)
  PROVE  IInv'
  <1> DEFINE r == [NoStream EXCEPT !.pc = "refused"]
             t == LookedAt(Ready)
             b2 == [streamer EXCEPT ![c] = r]
  <1>1. streamer[c].pc = "armed" /\ mux' = t /\ streamer' = b2 /\ names' = names
    BY DEF NextClosed
  <1>2. Base(t, streamer)
    BY ReadyBase
  <1>3. r \in Callers /\ r.pc = "refused"
    <2>1. "refused" \in PCs
      BY DEF PCs
    <2> QED  BY <2>1, PlainTyped
  <1> HIDE DEF r, t
  <1>4. t \in Muxes /\ streamer \in Streamers
    BY <1>2 DEF Base, Typed
  <1>5. Base(t, b2)
    BY <1>1, <1>2, <1>3, <1>4, Shifted
  <1>b. b2[c] = r
    BY <1>4 DEF Streamers
  <1> HIDE DEF b2
  <1>6. b2[c].pc \in Pending
    BY <1>3, <1>b DEF Pending
  <1>7. Wakeful(t, b2)
    BY <1>6, PendingWakes
  <1>8. Sound(t, b2)
    BY <1>5, <1>7 DEF Base, Sound
  <1> QED  BY <1>1, <1>8, Here, Rebuilt

LEMMA NextDialInv ==
  ASSUME IInv, NEW c \in StreamCallers, NextDial(c)
  PROVE  IInv'
  <1> DEFINE t == LookedAt(Ready)
  <1>1. streamer[c].pc = "armed" /\ names' = names
    BY DEF NextDial
  <1>2. Base(t, streamer)
    BY ReadyBase
  <1>3. t \in Muxes /\ streamer \in Streamers /\ streamer[c] \in Callers
    BY <1>2 DEF Base, Typed, Streamers
  <1>n. names \in [set : StreamAnswers, told : BOOLEAN]
    BY Here
  <1>4. \/ /\ mux' = [t EXCEPT !.connecting = t.connecting + 1]
           /\ streamer' = [streamer EXCEPT ![c].pc = "dialing", ![c].order = names.set,
                                           ![c].dials = streamer[c].dials + 1, ![c].woken = FALSE]
        \/ /\ mux' = t
           /\ streamer' = NotifyWaiters([streamer EXCEPT ![c] = [NoStream EXCEPT !.pc = "refused"]])
    BY <1>3 DEF NextDial, Streamers
  <1> HIDE DEF t
  <1>5. CASE /\ mux' = [t EXCEPT !.connecting = t.connecting + 1]
             /\ streamer' = [streamer EXCEPT ![c].pc = "dialing", ![c].order = names.set,
                                             ![c].dials = streamer[c].dials + 1, ![c].woken = FALSE]
    <2> DEFINE k == streamer[c].dials + 1
               o == names.set
               r == [streamer[c] EXCEPT !.pc = "dialing", !.order = o, !.dials = k, !.woken = FALSE]
               b2 == [streamer EXCEPT ![c] = r]
               w == t.connecting + 1
               s2 == [t EXCEPT !.connecting = w]
    <2>1. streamer' = b2
      BY <1>3, <1>5 DEF Streamers
    <2>2. k \in Int /\ o \in SUBSET Places /\ "dialing" \in PCs
      <3>1. streamer[c].dials \in Int
        BY <1>3 DEF Callers
      <3>2. o \in StreamAnswers
        BY <1>n
      <3> QED  BY <3>1, <3>2, AnswerTyped DEF PCs
    <2> HIDE DEF k, o
    <2>3. r \in Callers /\ r.pc = "dialing"
      BY <1>3, <2>2, Zenon DEF Callers
    <2> HIDE DEF r
    <2>4. w \in Int /\ w = t.connecting + 1
      BY <1>3, MuxTyped
    <2> HIDE DEF w
    <2>5. /\ s2 \in Muxes /\ s2.conns = t.conns /\ s2.streams = t.streams /\ s2.waiting = t.waiting
          /\ s2.connecting = w
      BY <1>3, <2>4 DEF Muxes
    <2>6. mux' = s2
      BY <1>5 DEF w
    <2> HIDE DEF s2
    <2>7. Base(s2, b2)
      BY <1>1, <1>2, <2>3, <2>4, <2>5, Shifted
    <2>b. b2[c] = r
      BY <1>3 DEF Streamers
    <2> HIDE DEF b2
    <2>8. b2[c].pc \in Pending
      BY <2>3, <2>b DEF Pending
    <2>9. Sound(s2, b2)
      BY <2>7, <2>8, PendingWakes DEF Base, Sound
    <2> QED  BY <1>1, <1>n, <2>1, <2>6, <2>9, Rebuilt
  <1>6. CASE /\ mux' = t
             /\ streamer' = NotifyWaiters([streamer EXCEPT ![c] = [NoStream EXCEPT !.pc = "refused"]])
    <2> DEFINE r == [NoStream EXCEPT !.pc = "refused"]
               b2 == [streamer EXCEPT ![c] = r]
    <2>1. r \in Callers /\ r.pc = "refused"
      <3>1. "refused" \in PCs
        BY DEF PCs
      <3> QED  BY <3>1, PlainTyped
    <2>2. mux' = t /\ streamer' = NotifyWaiters(b2)
      BY <1>6
    <2> HIDE DEF r
    <2>3. Base(t, b2)
      BY <1>1, <1>2, <1>3, <2>1, Shifted
    <2> HIDE DEF b2
    <2>4. Sound(t, NotifyWaiters(b2))
      BY <2>3, NotifyAll DEF Base
    <2> QED  BY <1>1, <1>n, <2>2, <2>4, Rebuilt
  <1> QED  BY <1>4, <1>5, <1>6

\* What each answer of Multiplex::next says.
LEMMA Turns ==
  ASSUME NEW s \in Muxes
  PROVE  /\ Turn(s) = "wait" <=> /\ ~s.closed
                                 /\ s.streams >= s.config.streams \/ (Serving(s) = {} /\ ~Room(s))
         /\ Turn(s) = "lease" <=> ~s.closed /\ s.streams < s.config.streams /\ Serving(s) # {}
  <1>1. s.closed \in BOOLEAN /\ s.streams \in Int /\ s.config.streams \in Int
    BY MuxTyped, ConfigTyped DEF Muxes
  <1>2. CASE s.closed
    <2>1. Turn(s) = "closed"
      BY <1>2 DEF Turn
    <2> QED  BY <1>2, <2>1
  <1>3. CASE ~s.closed /\ s.streams >= s.config.streams
    <2>1. ~(s.streams < s.config.streams)
      BY <1>1, <1>3
    <2>2. Turn(s) = "wait"
      BY <1>3, <2>1 DEF Turn
    <2> QED  BY <1>3, <2>1, <2>2
  <1>4. CASE ~s.closed /\ s.streams < s.config.streams /\ Serving(s) # {}
    <2>1. ~(s.streams >= s.config.streams)
      BY <1>1, <1>4
    <2>2. Turn(s) = "lease"
      BY <1>4, <2>1 DEF Turn
    <2> QED  BY <1>4, <2>1, <2>2
  <1>5. CASE ~s.closed /\ s.streams < s.config.streams /\ Serving(s) = {}
    <2>1. ~(s.streams >= s.config.streams)
      BY <1>1, <1>5
    <2>2. Turn(s) = IF Room(s) THEN "dial" ELSE "wait"
      BY <1>5, <2>1 DEF Turn
    <2> QED  BY <1>5, <2>1, <2>2
  <1>6. s.streams >= s.config.streams \/ s.streams < s.config.streams
    BY <1>1
  <1> QED  BY <1>2, <1>3, <1>4, <1>5, <1>6

\* Whoever is told to wait has every connection that looks able to serve owe it a notification.
LEMMA WaitsQuietly ==
  ASSUME NEW s \in Muxes, Turn(s) = "wait"
  PROVE  Quiet(LookedAt(s))
  <1>1. ~s.closed /\ (s.streams >= s.config.streams \/ (Serving(s) = {} /\ ~Room(s)))
    BY Turns
  <1>2. Looked(s, LookedAt(s))
    BY Looks
  <1>3. CASE s.streams >= s.config.streams
    BY <1>1, <1>2, <1>3 DEF Looked, Quiet, Full
  <1>4. CASE ~(s.streams >= s.config.streams)
    <2> DEFINE n == Len(s.conns)
               q == Sampled(s, n)
               t == LookedAt(s)
    <2>1. Serving(s) = {} /\ ~Room(s)
      BY <1>1, <1>4
    <2>2. t.conns = q
      <3>1. t = [s EXCEPT !.conns = q]
        BY <1>1, <1>4, <2>1 DEF LookedAt
      <3> HIDE DEF q
      <3> QED  BY <3>1 DEF Muxes
    <2>3. n \in Nat /\ DOMAIN s.conns = 1..n
      BY MuxTyped
    <2>4. \A i \in DOMAIN s.conns : i <= n
      BY <2>3
    <2>5. /\ ~t.closed /\ ~Room(t) /\ DOMAIN t.conns = DOMAIN s.conns /\ t.config = s.config
          /\ \A i \in DOMAIN s.conns :
               /\ t.conns[i].streams = s.conns[i].streams /\ t.conns[i].open = s.conns[i].open
               /\ t.conns[i].retired = s.conns[i].retired /\ t.conns[i].seen = s.conns[i].seen
      BY <1>1, <1>2, <2>1 DEF Looked, Room
    <2>6. ASSUME NEW i \in DOMAIN s.conns, SeenTakes(t, t.conns[i])
          PROVE  t.conns[i].open /\ (t.conns[i].raced \/ t.conns[i].skipped)
      <3> DEFINE e == s.conns[i]
      <3>1. ~e.retired /\ e.open /\ e.streams < Low(s.config.per, e.seen)
        BY <2>5, <2>6 DEF SeenTakes
      <3>2. ~Takes(s, e)
        BY <2>1 DEF Serving
      <3>3. CASE e.busy
        <4>1. Sampled(s, n)[i].skipped
          BY <2>4, <3>1, <3>3, Samples
        <4> QED  BY <2>2, <2>5, <3>1, <4>1
      <3>4. CASE ~e.busy
        <4>1. e.limit # e.seen
          BY <3>1, <3>2, <3>4 DEF Takes, StreamLimit
        <4>2. Sampled(s, n)[i].raced
          BY <2>4, <3>1, <3>4, <4>1, Samples
        <4> QED  BY <2>2, <2>5, <3>1, <4>2
      <3> QED  BY <3>3, <3>4
    <2> HIDE DEF q, t, n
    <2>7. Full(t) \/ Owing(t)
      BY <2>5, <2>6 DEF Full, Owing
    <2> QED  BY <2>5, <2>7 DEF Quiet, t
  <1> QED  BY <1>3, <1>4

LEMMA NextWaitInv ==
  ASSUME IInv, NEW c \in StreamCallers, NextWait(c)
  PROVE  IInv'
  <1> DEFINE t == LookedAt(Ready)
             r == [streamer[c] EXCEPT !.pc = "asleep"]
             b2 == [streamer EXCEPT ![c] = r]
  <1>1. streamer[c].pc = "armed" /\ mux' = t /\ names' = names /\ Turn(Ready) = "wait"
    BY DEF NextWait
  <1>2. Base(t, streamer) /\ Ready \in Muxes
    BY ReadyBase DEF Base, Typed
  <1>q. Quiet(t)
    BY <1>1, <1>2, WaitsQuietly
  <1> HIDE DEF t
  <1>3. t \in Muxes /\ streamer \in Streamers /\ streamer[c] \in Callers
    BY <1>2 DEF Base, Typed, Streamers
  <1>4. streamer' = b2
    BY <1>3 DEF NextWait, Streamers
  <1>5. r \in Callers /\ r.pc = "asleep"
    <2>1. "asleep" \in PCs
      BY DEF PCs
    <2> QED  BY <1>3, <2>1, Zenon DEF Callers
  <1> HIDE DEF r
  <1>6. Base(t, b2)
    BY <1>1, <1>2, <1>3, <1>5, Shifted
  <1> HIDE DEF b2
  <1>7. Wakeful(t, b2)
    BY <1>q DEF Wakeful
  <1>8. Sound(t, b2)
    BY <1>6, <1>7 DEF Base, Sound
  <1> QED  BY <1>1, <1>4, <1>8, Here, Rebuilt

-----------------------------------------------------------------------------
(* A stream is lent, and let go of.                                        *)

LEMMA First ==
  ASSUME NEW s \in Muxes, Serving(s) # {}
  PROVE  FirstServing(s) \in Serving(s)
  <1> DEFINE keep == Serving(s)
             n == Len(s.conns)
  <1>1. n \in Nat /\ keep \in SUBSET (1..n)
    BY MuxTyped DEF Serving
  <1>2. keep # {}
    OBVIOUS
  <1> HIDE DEF keep, n
  <1>3. /\ IsFiniteSet(keep) /\ Cardinality(keep) \in 0..n
        /\ \A i \in keep : Rank(keep, i) \in 1..Cardinality(keep)
        /\ \A i, j \in keep : i < j => Rank(keep, i) < Rank(keep, j)
        /\ \A k \in 1..Cardinality(keep) : \E i \in keep : Rank(keep, i) = k
    BY <1>1, Ranked
  <1>4. 1 \in 1..Cardinality(keep)
    <2>1. Cardinality(keep) # 0
      BY <1>2, <1>3, FS_EmptySet
    <2> QED  BY <1>1, <1>3, <2>1
  <1>5. PICK i \in keep : Rank(keep, i) = 1
    BY <1>3, <1>4
  <1>6. \A j \in keep : i <= j
    <2> SUFFICES ASSUME NEW j \in keep, ~(i <= j) PROVE FALSE
      OBVIOUS
    <2>1. j < i
      BY <1>1
    <2>2. Rank(keep, j) < 1 /\ Rank(keep, j) \in 1..Cardinality(keep)
      BY <1>3, <1>5, <2>1
    <2> QED  BY <1>1, <1>3, <2>2
  <1>7. (CHOOSE k \in keep : \A j \in keep : k <= j) \in keep
    BY <1>6
  <1> QED  BY <1>7 DEF FirstServing, keep

LEMMA Lodge ==
  ASSUME NEW s \in Muxes, NEW b \in Streamers, IsFiniteSet(At(b, Busy)), Distinct(s), Lodged(s, b),
         NEW c \in StreamCallers, b[c].pc \notin Holding, NEW b2 \in Streamers,
         \A d \in StreamCallers \ {c} : b2[d] = b[d], b2[c].pc \in Holding,
         NEW i \in DOMAIN s.conns, b2[c].conn = s.conns[i].id, NEW s2, DOMAIN s2.conns = DOMAIN s.conns,
         s2.conns[i].id = s.conns[i].id, s2.conns[i].streams = s.conns[i].streams + 1,
         \A j \in DOMAIN s.conns \ {i} : s2.conns[j] = s.conns[j]
  PROVE  Distinct(s2) /\ Lodged(s2, b2)
  <1> DEFINE id == s.conns[i].id
  <1>1. \A j \in DOMAIN s.conns : s2.conns[j].id = s.conns[j].id
    OBVIOUS
  <1>2. Distinct(s2)
    BY <1>1 DEF Distinct
  <1>3. At(b2, Holding) = At(b, Holding) \cup {c} /\ c \notin At(b, Holding)
    BY DEF At
  <1>4. \A d \in At(b, Holding) : d \in StreamCallers \ {c} /\ b2[d].conn = b[d].conn
    BY <1>3 DEF At
  <1>5. Users(b2, id) = Users(b, id) \cup {c} /\ c \notin Users(b, id)
    BY <1>3, <1>4 DEF Users
  <1>6. \A k : k # id => Users(b2, k) = Users(b, k)
    BY <1>3, <1>4 DEF Users
  <1>7. IsFiniteSet(Users(b, id)) /\ Cardinality(Users(b, id)) = s.conns[i].streams
    BY FewUsers DEF Lodged
  <1>8. Cardinality(Users(b2, id)) = s.conns[i].streams + 1
    BY <1>5, <1>7, FS_AddElement
  <1>9. \A j \in DOMAIN s2.conns : s2.conns[j].streams = Cardinality(Users(b2, s2.conns[j].id))
    <2> SUFFICES ASSUME NEW j \in DOMAIN s.conns
                 PROVE  s2.conns[j].streams = Cardinality(Users(b2, s2.conns[j].id))
      OBVIOUS
    <2>1. CASE j = i
      BY <1>8, <2>1
    <2>2. CASE j # i
      <3>1. s.conns[j].id # id
        BY <2>2 DEF Distinct
      <3> QED  BY <1>6, <2>2, <3>1 DEF Lodged
    <2> QED  BY <2>1, <2>2
  <1>10. \A d \in At(b2, Holding) : \E j \in DOMAIN s2.conns : s2.conns[j].id = b2[d].conn
    BY <1>1, <1>3, <1>4 DEF Lodged
  <1> QED  BY <1>2, <1>9, <1>10 DEF Lodged

LEMMA Unlodge ==
  ASSUME NEW s \in Muxes, NEW b \in Streamers, IsFiniteSet(At(b, Busy)), Distinct(s), Lodged(s, b),
         NEW c \in StreamCallers, b[c].pc \in Holding, NEW b2 \in Streamers,
         \A d \in StreamCallers \ {c} : b2[d] = b[d], b2[c].pc \notin Holding,
         NEW i \in DOMAIN s.conns, b[c].conn = s.conns[i].id, NEW s2, DOMAIN s2.conns = DOMAIN s.conns,
         s2.conns[i].id = s.conns[i].id, s2.conns[i].streams = s.conns[i].streams - 1,
         \A j \in DOMAIN s.conns \ {i} : s2.conns[j] = s.conns[j]
  PROVE  Distinct(s2) /\ Lodged(s2, b2)
  <1> DEFINE id == s.conns[i].id
  <1>1. \A j \in DOMAIN s.conns : s2.conns[j].id = s.conns[j].id
    OBVIOUS
  <1>2. Distinct(s2)
    BY <1>1 DEF Distinct
  <1>3. At(b2, Holding) = At(b, Holding) \ {c} /\ c \in At(b, Holding)
    BY DEF At
  <1>4. \A d \in At(b2, Holding) : d \in At(b, Holding) /\ d \in StreamCallers \ {c} /\ b2[d].conn = b[d].conn
    BY <1>3 DEF At
  <1>5. Users(b2, id) = Users(b, id) \ {c} /\ c \in Users(b, id)
    BY <1>3, <1>4 DEF Users
  <1>6. \A k : k # id => Users(b2, k) = Users(b, k)
    BY <1>3, <1>4 DEF Users
  <1>7. IsFiniteSet(Users(b, id)) /\ Cardinality(Users(b, id)) = s.conns[i].streams
    BY FewUsers DEF Lodged
  <1>8. Cardinality(Users(b2, id)) = s.conns[i].streams - 1
    BY <1>5, <1>7, FS_RemoveElement
  <1>9. \A j \in DOMAIN s2.conns : s2.conns[j].streams = Cardinality(Users(b2, s2.conns[j].id))
    <2> SUFFICES ASSUME NEW j \in DOMAIN s.conns
                 PROVE  s2.conns[j].streams = Cardinality(Users(b2, s2.conns[j].id))
      OBVIOUS
    <2>1. CASE j = i
      BY <1>8, <2>1
    <2>2. CASE j # i
      <3>1. s.conns[j].id # id
        BY <2>2 DEF Distinct
      <3> QED  BY <1>6, <2>2, <3>1 DEF Lodged
    <2> QED  BY <2>1, <2>2
  <1>10. \A d \in At(b2, Holding) : \E j \in DOMAIN s2.conns : s2.conns[j].id = b2[d].conn
    BY <1>1, <1>4 DEF Lodged
  <1> QED  BY <1>2, <1>9, <1>10 DEF Lodged

LEMMA LentTyped ==
  ASSUME NEW e \in Entries
  PROVE  /\ Lent(e) \in Entries /\ Lent(e).id = e.id /\ Lent(e).streams = e.streams + 1 /\ Lent(e).at = e.at
         /\ Lent(e).open = e.open /\ Lent(e).skipped = e.skipped /\ Lent(e).busy = e.busy
         /\ Lent(e).limit = e.limit
  <1> DEFINE n == e.streams + 1
             g == IF e.age = "cold" THEN "new" ELSE e.age
             f == [e EXCEPT !.streams = n, !.used = TRUE, !.age = g]
  <1>1. n \in Int
    BY DEF Entries
  <1>2. g \in {"new", "cold", "old"}
    BY DEF Entries
  <1>3. Lent(e) = f
    BY DEF Lent
  <1>4. n = e.streams + 1
    OBVIOUS
  <1> HIDE DEF n, g
  <1>5. /\ f \in Entries /\ f.id = e.id /\ f.streams = n /\ f.at = e.at /\ f.open = e.open
        /\ f.skipped = e.skipped /\ f.busy = e.busy /\ f.limit = e.limit
    BY <1>1, <1>2, Zenon DEF Entries
  <1> HIDE DEF f
  <1> QED  BY <1>3, <1>4, <1>5

LEMMA FewerTyped ==
  ASSUME NEW e \in Entries
  PROVE  /\ Fewer(e) \in Entries /\ Fewer(e).id = e.id /\ Fewer(e).streams = e.streams - 1
         /\ Fewer(e).open = e.open /\ Fewer(e).skipped = e.skipped /\ Fewer(e).busy = e.busy
  <1> DEFINE n == e.streams - 1
             f == [e EXCEPT !.streams = n]
  <1>1. n \in Int
    BY DEF Entries
  <1>3. Fewer(e) = f
    BY DEF Fewer
  <1>4. n = e.streams - 1
    OBVIOUS
  <1> HIDE DEF n
  <1>5. /\ f \in Entries /\ f.id = e.id /\ f.streams = n /\ f.open = e.open
        /\ f.skipped = e.skipped /\ f.busy = e.busy
    BY <1>1, Zenon DEF Entries
  <1> HIDE DEF f
  <1> QED  BY <1>3, <1>4, <1>5

\* The state after a stream is lent or let go of: one connection and the total have changed.
Counted(s, i, e, n) == [s EXCEPT !.streams = n, !.conns = [s.conns EXCEPT ![i] = e]]
Recounted(s, p, i, e, n) ==
  /\ p \in Muxes
  /\ p.config = s.config /\ p.connecting = s.connecting /\ p.streams = n
  /\ p.live = s.live /\ p.closed = s.closed /\ p.waiting = s.waiting
  /\ DOMAIN p.conns = DOMAIN s.conns
  /\ p.conns[i] = e
  /\ \A j \in DOMAIN s.conns \ {i} : p.conns[j] = s.conns[j]
LEMMA CountedConn ==
  ASSUME NEW s \in Muxes, NEW i \in DOMAIN s.conns, NEW e \in Entries, NEW n \in Int
  PROVE  Recounted(s, Counted(s, i, e, n), i, e, n)
  <1> DEFINE q == [s.conns EXCEPT ![i] = e]
             p == Counted(s, i, e, n)
  <1>1. s.conns \in Seq(Entries)
    BY MuxTyped
  <1>2. q \in Seq(Entries) /\ DOMAIN q = DOMAIN s.conns /\ q[i] = e
    BY <1>1
  <1>3. \A j \in DOMAIN s.conns \ {i} : q[j] = s.conns[j]
    BY <1>1
  <1>4. p = [s EXCEPT !.streams = n, !.conns = q]
    BY DEF Counted
  <1> HIDE DEF q, p
  <1>5. p \in Muxes
    BY <1>2, <1>4 DEF Muxes
  <1>6. /\ p.config = s.config /\ p.connecting = s.connecting /\ p.streams = n /\ p.live = s.live
        /\ p.closed = s.closed /\ p.waiting = s.waiting /\ p.conns = q
    BY <1>4 DEF Muxes
  <1> QED  BY <1>2, <1>3, <1>5, <1>6 DEF Recounted, p

LEMMA RecountedHonest ==
  ASSUME NEW s, NEW p, NEW i \in DOMAIN s.conns, NEW e, NEW n, Recounted(s, p, i, e, n), Honest(s),
         e.open = s.conns[i].open, e.skipped = s.conns[i].skipped, e.busy = s.conns[i].busy
  PROVE  Honest(p)
  BY DEF Honest, Recounted

\* The connection a stream is lent on: one the pool still wants, with a stream to spare.
Chosen == FirstServing(Ready)
LEMMA LeaseOn ==
  ASSUME IInv, NEW c \in StreamCallers, NextLease(c)
  PROVE  /\ streamer[c].pc = "armed" /\ names' = names /\ Turn(Ready) = "lease"
         /\ Chosen \in DOMAIN LookedAt(Ready).conns /\ Takes(Ready, Ready.conns[Chosen])
         /\ mux' = Counted(LookedAt(Ready), Chosen, Lent(LookedAt(Ready).conns[Chosen]), LookedAt(Ready).streams + 1)
         /\ streamer' = [streamer EXCEPT ![c] =
                          [NoStream EXCEPT !.pc = "served", !.conn = LookedAt(Ready).conns[Chosen].id]]
  <1>1. /\ streamer[c].pc = "armed" /\ names' = names /\ Turn(Ready) = "lease"
        /\ mux' = Counted(LookedAt(Ready), Chosen, Lent(LookedAt(Ready).conns[Chosen]), LookedAt(Ready).streams + 1)
        /\ streamer' = [streamer EXCEPT ![c] =
                         [NoStream EXCEPT !.pc = "served", !.conn = LookedAt(Ready).conns[Chosen].id]]
    BY DEF NextLease, Counted, Chosen
  <1>2. Ready \in Muxes /\ DOMAIN LookedAt(Ready).conns = DOMAIN Ready.conns
    BY ReadyBase DEF Base, Typed, Looked
  <1>3. Serving(Ready) # {}
    BY <1>1, <1>2, Turns
  <1>4. Chosen \in Serving(Ready)
    BY <1>2, <1>3, First DEF Chosen
  <1>5. Chosen \in DOMAIN Ready.conns /\ Takes(Ready, Ready.conns[Chosen])
    BY <1>4 DEF Serving
  <1> QED  BY <1>1, <1>2, <1>5

LEMMA NextLeaseInv ==
  ASSUME IInv, NEW c \in StreamCallers, NextLease(c)
  PROVE  IInv'
  <1> DEFINE t == LookedAt(Ready)
             i == Chosen
             e == t.conns[i]
             f == Lent(e)
             n == t.streams + 1
             r == [NoStream EXCEPT !.pc = "served", !.conn = e.id]
             b2 == [streamer EXCEPT ![c] = r]
             s2 == Counted(t, i, f, n)
  <1>1. /\ streamer[c].pc = "armed" /\ names' = names /\ i \in DOMAIN t.conns /\ mux' = s2 /\ streamer' = b2
    BY LeaseOn
  <1>2. Base(t, streamer)
    BY ReadyBase
  <1> HIDE DEF t, i
  <1>3. /\ t \in Muxes /\ streamer \in Streamers /\ IsFiniteSet(At(streamer, Busy)) /\ Distinct(t)
        /\ Lodged(t, streamer) /\ Totals(t, streamer) /\ Honest(t)
    BY <1>2 DEF Base, Typed
  <1>4. e \in Entries
    BY <1>1, <1>3, MuxTyped
  <1>5. /\ f \in Entries /\ f.id = e.id /\ f.streams = e.streams + 1
        /\ f.open = e.open /\ f.skipped = e.skipped /\ f.busy = e.busy
    BY <1>4, LentTyped
  <1>6. n \in Int /\ n = t.streams + 1 /\ t.streams \in Int
    BY <1>3, MuxTyped
  <1>7. e.id \in Nat
    BY <1>4, MultiplexAssumption DEF Entries
  <1>8. r \in Callers /\ r.pc = "served" /\ r.conn = e.id
    <2> DEFINE k == e.id
    <2>1. k \in Nat /\ "served" \in PCs
      BY <1>7 DEF PCs
    <2> HIDE DEF k
    <2>2. r = [NoStream EXCEPT !.pc = "served", !.conn = k]
      BY DEF k
    <2>3. r \in Callers /\ r.pc = "served" /\ r.conn = k
      BY <2>1, <2>2, NoStreamTyped, Zenon DEF Callers
    <2> QED  BY <2>3 DEF k
  <1> HIDE DEF r, f, n
  <1>9. b2 \in Streamers /\ b2[c] = r /\ \A d \in StreamCallers \ {c} : b2[d] = streamer[d]
    BY <1>3, <1>8, Becomes
  <1>10. Recounted(t, s2, i, f, n)
    BY <1>1, <1>3, <1>5, <1>6, CountedConn
  <1> HIDE DEF b2, s2
  <1>11. /\ s2 \in Muxes /\ s2.streams = n /\ s2.connecting = t.connecting /\ s2.waiting = t.waiting
         /\ DOMAIN s2.conns = DOMAIN t.conns /\ s2.conns[i] = f
         /\ \A j \in DOMAIN t.conns \ {i} : s2.conns[j] = t.conns[j]
    BY <1>10 DEF Recounted
  <1>12. Distinct(s2) /\ Lodged(s2, b2)
    <2>1. streamer[c].pc \notin Holding /\ b2[c].pc \in Holding
      BY <1>1, <1>8, <1>9 DEF Holding
    <2>2. b2[c].conn = t.conns[i].id /\ s2.conns[i].id = t.conns[i].id /\ s2.conns[i].streams = t.conns[i].streams + 1
      BY <1>5, <1>8, <1>9, <1>11
    <2> QED  BY <1>1, <1>3, <1>9, <1>11, <2>1, <2>2, Lodge
  <1>13. Honest(s2)
    BY <1>1, <1>3, <1>5, <1>10, RecountedHonest
  <1>14. /\ Seat(streamer, Holding, c) = 0 /\ Seat(b2, Holding, c) = 1
         /\ Seat(streamer, Dials, c) = 0 /\ Seat(b2, Dials, c) = 0
         /\ Seat(streamer, Waits, c) = 1 /\ Seat(b2, Waits, c) = 1
    BY <1>1, <1>8, <1>9 DEF Seat, Holding, Dials, Waits
  <1>15. s2.streams \in Int /\ s2.connecting \in Int /\ s2.waiting \in Int
    BY <1>11, MuxTyped
  <1>16. Totals(s2, b2)
    <2>1. \A d \in StreamCallers \ {c} : b2[d].pc = streamer[d].pc
      BY <1>9
    <2>2. /\ s2.streams + Seat(streamer, Holding, c) = t.streams + Seat(b2, Holding, c)
          /\ s2.connecting + Seat(streamer, Dials, c) = t.connecting + Seat(b2, Dials, c)
          /\ s2.waiting + Seat(streamer, Waits, c) = t.waiting + Seat(b2, Waits, c)
      BY <1>6, <1>11, <1>14, <1>15
    <2> QED  BY <1>3, <1>9, <1>15, <2>1, <2>2, Recount
  <1>17. IsFiniteSet(At(b2, Busy))
    BY <1>3, <1>9, StillFew
  <1>18. Wakeful(s2, b2)
    <2>1. b2[c].pc \in Pending
      BY <1>8, <1>9 DEF Pending
    <2> QED  BY <2>1, PendingWakes
  <1>19. Sound(s2, b2)
    BY <1>9, <1>11, <1>12, <1>13, <1>16, <1>17, <1>18 DEF Sound, Typed
  <1> QED  BY <1>1, <1>19, Here, Rebuilt

LEMMA DropStreamInv ==
  ASSUME IInv, NEW c \in StreamCallers, DropStream(c)
  PROVE  IInv'
  <1> DEFINE i == IndexOf(streamer[c].conn)
             e == mux.conns[i]
             f == Fewer(e)
             n == mux.streams - 1
             b2 == [streamer EXCEPT ![c] = NoStream]
             s2 == Counted(mux, i, f, n)
  <1>1. /\ streamer[c].pc = "streaming" /\ names' = names /\ Registered(streamer[c].conn)
        /\ mux' = Prune([WithConn(i, f) EXCEPT !.streams = n], TRUE) /\ streamer' = NotifyWaiters(b2)
    BY DEF DropStream
  <1>2. i \in DOMAIN mux.conns /\ mux.conns[i].id = streamer[c].conn
    BY <1>1 DEF Registered, IndexOf
  <1>3. /\ mux \in Muxes /\ streamer \in Streamers /\ IsFiniteSet(At(streamer, Busy)) /\ Distinct(mux)
        /\ Lodged(mux, streamer) /\ Totals(mux, streamer) /\ Honest(mux)
        /\ names \in [set : StreamAnswers, told : BOOLEAN]
    BY Here
  <1> HIDE DEF i
  <1>4. e \in Entries
    BY <1>2, <1>3, MuxTyped
  <1>5. /\ f \in Entries /\ f.id = e.id /\ f.streams = e.streams - 1
        /\ f.open = e.open /\ f.skipped = e.skipped /\ f.busy = e.busy
    BY <1>4, FewerTyped
  <1>6. n \in Int /\ n + 1 = mux.streams
    BY <1>3, MuxTyped
  <1> HIDE DEF f, n
  <1>7. [WithConn(i, f) EXCEPT !.streams = n] = s2
    BY <1>3 DEF WithConn, Counted, Muxes
  <1>8. NoStream \in Callers /\ NoStream.pc = "away"
    BY NoStreamTyped
  <1>9. b2 \in Streamers /\ b2[c] = NoStream /\ \A d \in StreamCallers \ {c} : b2[d] = streamer[d]
    BY <1>3, <1>8, Becomes
  <1>10. Recounted(mux, s2, i, f, n)
    BY <1>2, <1>3, <1>5, <1>6, CountedConn
  <1> HIDE DEF b2, s2
  <1>11. /\ s2 \in Muxes /\ s2.streams = n /\ s2.connecting = mux.connecting /\ s2.waiting = mux.waiting
         /\ DOMAIN s2.conns = DOMAIN mux.conns /\ s2.conns[i] = f
         /\ \A j \in DOMAIN mux.conns \ {i} : s2.conns[j] = mux.conns[j]
    BY <1>10 DEF Recounted
  <1>12. Distinct(s2) /\ Lodged(s2, b2)
    <2>1. streamer[c].pc \in Holding /\ b2[c].pc \notin Holding
      BY <1>1, <1>8, <1>9 DEF Holding
    <2>2. s2.conns[i].id = mux.conns[i].id /\ s2.conns[i].streams = mux.conns[i].streams - 1
      BY <1>5, <1>11
    <2> QED  BY <1>2, <1>3, <1>9, <1>11, <2>1, <2>2, Unlodge
  <1>13. Honest(s2)
    BY <1>2, <1>3, <1>5, <1>10, RecountedHonest
  <1>14. /\ Seat(streamer, Holding, c) = 1 /\ Seat(b2, Holding, c) = 0
         /\ Seat(streamer, Dials, c) = 0 /\ Seat(b2, Dials, c) = 0
         /\ Seat(streamer, Waits, c) = 0 /\ Seat(b2, Waits, c) = 0
    BY <1>1, <1>8, <1>9 DEF Seat, Holding, Dials, Waits
  <1>15. s2.streams \in Int /\ s2.connecting \in Int /\ s2.waiting \in Int /\ mux.streams \in Int
    BY <1>3, <1>11, MuxTyped
  <1>16. Totals(s2, b2)
    <2>1. \A d \in StreamCallers \ {c} : b2[d].pc = streamer[d].pc
      BY <1>9
    <2>2. /\ s2.streams + Seat(streamer, Holding, c) = mux.streams + Seat(b2, Holding, c)
          /\ s2.connecting + Seat(streamer, Dials, c) = mux.connecting + Seat(b2, Dials, c)
          /\ s2.waiting + Seat(streamer, Waits, c) = mux.waiting + Seat(b2, Waits, c)
      BY <1>6, <1>11, <1>14, <1>15
    <2> QED  BY <1>3, <1>9, <1>15, <2>1, <2>2, Recount
  <1>17. IsFiniteSet(At(b2, Busy))
    BY <1>3, <1>9, StillFew
  <1>18. Sound(Prune(s2, TRUE), NotifyWaiters(b2))
    BY <1>9, <1>11, <1>12, <1>13, <1>16, <1>17, PruneAll DEF Typed
  <1> QED  BY <1>1, <1>3, <1>7, <1>18, Rebuilt

-----------------------------------------------------------------------------
(* The theorems.                                                           *)

LEMMA InitInv == MuxInit => IInv
  <1> SUFFICES ASSUME MuxInit PROVE IInv
    OBVIOUS
  <1> DEFINE s == mux
             b == streamer
  <1>1. \A c \in StreamCallers : b[c] = NoStream
    BY DEF MuxInit
  <1>2. b \in Streamers
    BY NoStreamTyped DEF MuxInit, Streamers
  <1>3. \A S \in SUBSET Busy : At(b, S) = {}
    BY <1>1, NoStreamTyped DEF At, Busy
  <1>4. Busy \in SUBSET Busy
    OBVIOUS
  <1>5. IsFiniteSet(At(b, Busy)) /\ Num(b, Holding) = 0 /\ Num(b, Dials) = 0 /\ Num(b, Waits) = 0
    BY <1>3, <1>4, Kinds, FS_EmptySet DEF Num
  <1>6. /\ s.config = StreamFirst /\ s.conns = <<>> /\ s.connecting = 0 /\ s.streams = 0 /\ s.waiting = 0
    BY DEF MuxInit
  <1>7. s \in Muxes
    <2>1. Unlisted \in SUBSET Places
      BY DEF Unlisted, Places
    <2>2. <<>> \in Seq(Entries) /\ 0 \in Int /\ StreamFirst \in StreamConfigs
      BY MultiplexAssumption
    <2>3. FALSE \in BOOLEAN
      OBVIOUS
    <2> QED  BY <2>1, <2>2, <2>3, Zenon DEF MuxInit, Muxes
  <1>8. DOMAIN s.conns = {}
    BY <1>6
  <1>9. At(b, Holding) = {}
    BY <1>3, Kinds
  <1>10. Typed(s, b) /\ Distinct(s) /\ Lodged(s, b) /\ Totals(s, b) /\ Honest(s)
    BY <1>2, <1>5, <1>6, <1>7, <1>8, <1>9 DEF Typed, Distinct, Lodged, Totals, Honest
  <1>11. Wakeful(s, b)
    BY <1>1, NoStreamTyped DEF Wakeful
  <1>12. names \in [set : StreamAnswers, told : BOOLEAN]
    BY MultiplexAssumption DEF MuxInit
  <1> QED  BY <1>10, <1>11, <1>12 DEF IInv, Sound

LEMMA StepInv == IInv /\ [MuxNext]_muxVars => IInv'
  <1> SUFFICES ASSUME IInv, [MuxNext]_muxVars PROVE IInv'
    OBVIOUS
  <1>1. CASE UNCHANGED muxVars
    <2>1. mux' = mux /\ streamer' = streamer /\ names' = names
      BY <1>1 DEF muxVars
    <2>2. Sound(mux', streamer') /\ names' \in [set : StreamAnswers, told : BOOLEAN]
      BY <2>1, Here
    <2> QED  BY <2>2, Rebuilt
  <1>2. ASSUME NEW c \in StreamCallers, EnterQueue(c) \/ StreamSteps(c) PROVE IInv'
    BY <1>2, EnterQueueInv, NextLeaseInv, NextDialInv, NextWaitInv, NextClosedInv, StreamerWakesInv,
       FinishDialInv, FailDialInv, LeavesQueueInv, FinishWaitInv, DropStreamInv, PoisonInv DEF StreamSteps
  <1>3. ASSUME NEW i \in 1..Len(mux.conns),
               \/ PollStarts(i) \/ PollEnds(i) \/ Closes(i) \/ Ages(i)
               \/ \E limit \in PeerLimits : Settings(i, limit)
        PROVE  IInv'
    <2>1. i \in DOMAIN mux.conns
      BY Here, MuxTyped
    <2> QED  BY <1>3, <2>1, PollStartsInv, PollEndsInv, ClosesInv, OfflineInv
  <1>4. ASSUME \/ \E config \in StreamConfigs : AdoptStreams(config)
               \/ RetireStreams \/ DrainStreams
        PROVE  IInv'
    BY <1>4, UpdatesInv
  <1>5. ASSUME NEW answer \in StreamAnswers, NewNames(answer) PROVE IInv'
    BY <1>5, NewNamesInv
  <1> QED  BY <1>1, <1>2, <1>3, <1>4, <1>5 DEF MuxNext

LEMMA AccountsHold == IInv => StreamsAccounted
  <1> SUFFICES ASSUME IInv PROVE StreamsAccounted
    OBVIOUS
  <1>1. Lodged(mux, streamer) /\ Totals(mux, streamer)
    BY Here
  <1>2. \A S : StreamersAt(S) = At(streamer, S)
    BY DEF StreamersAt, At
  <1>3. \A id : StreamHolders(id) = Users(streamer, id)
    BY <1>2 DEF StreamHolders, Users
  <1>4. \A c \in StreamersAt(Holding) : Registered(streamer[c].conn)
    BY <1>1, <1>2 DEF Lodged, Registered
  <1>5. \A i \in DOMAIN mux.conns : mux.conns[i].streams = Cardinality(StreamHolders(mux.conns[i].id))
    BY <1>1, <1>3 DEF Lodged
  <1>6. /\ mux.streams = Cardinality(StreamersAt(Holding))
        /\ mux.connecting = Cardinality(StreamersAt({"dialing"}))
        /\ mux.waiting = Cardinality(StreamersAt({"armed", "asleep", "dialing", "served", "refused"}))
    BY <1>1, <1>2 DEF Totals, Num, Dials, Waits
  <1> QED  BY <1>4, <1>5, <1>6 DEF StreamsAccounted

\* A sleeper's entitlement by the limits last reported is its entitlement by the limits of the
\* peers, once every driver has reported.
LEMMA WakesHold == IInv => NoMissedWake
  <1> DEFINE told(e) == ~(e.open /\ (e.limit # e.seen \/ e.raced \/ e.skipped))
  <1> SUFFICES ASSUME IInv, NEW c \in StreamersAt({"asleep"}), ~streamer[c].woken,
                      \A i \in DOMAIN mux.conns : told(mux.conns[i]),
                      StreamersAt({"dialing", "served", "refused", "left", "lent"}) = {}
               PROVE  Turn(mux) = "wait"
    BY DEF NoMissedWake
  <1>1. mux \in Muxes /\ Wakeful(mux, streamer)
    BY Here
  <1>2. At(streamer, Pending) = {} /\ c \in StreamCallers /\ streamer[c].pc = "asleep"
    BY DEF StreamersAt, At, Pending
  <1>3. Quiet(mux)
    BY <1>1, <1>2 DEF Wakeful
  <1>4. ~Owing(mux)
    BY DEF Owing
  <1>5. ~mux.closed /\ Full(mux)
    BY <1>3, <1>4 DEF Quiet
  <1>6. ASSUME ~Room(mux), \A i \in DOMAIN mux.conns : ~SeenTakes(mux, mux.conns[i])
        PROVE  Serving(mux) = {}
    <2> SUFFICES ASSUME NEW i \in DOMAIN mux.conns, Takes(mux, mux.conns[i]) PROVE FALSE
      BY DEF Serving
    <2> DEFINE e == mux.conns[i]
    <2>1. e \in Entries
      BY <1>1, MuxTyped
    <2>2. e.seen \in Int /\ e.limit \in Int /\ e.streams \in Int /\ e.seen >= 0
      BY <2>1 DEF Entries
    <2>3. mux.config.per \in Int
      BY <1>1, MuxTyped, ConfigTyped
    <2>4. ~e.retired /\ e.open /\ e.streams < Low(mux.config.per, StreamLimit(e))
      BY DEF Takes
    <2>5. e.limit = e.seen
      BY <2>4
    <2>6. ~(e.streams < Low(mux.config.per, e.seen))
      BY <1>6, <2>4 DEF SeenTakes
    <2> HIDE DEF e
    <2>7. StreamLimit(e) = 0 \/ StreamLimit(e) = e.seen
      BY <2>5 DEF StreamLimit
    <2> QED  BY <2>2, <2>3, <2>4, <2>6, <2>7 DEF Low
  <1>7. mux.streams >= mux.config.streams \/ (Serving(mux) = {} /\ ~Room(mux))
    BY <1>5, <1>6 DEF Full
  <1> QED  BY <1>1, <1>5, <1>7, Turns

\* For every number of callers and connections, and every order of reloads, answers, peers' changes
\* and drains: the counters of Multiplex agree with the streams that are held, a held stream finds
\* its connection registered, and no caller sleeps through room that was made for it.
THEOREM StreamsAreSound == MuxSpec => []StreamsSound
  <1>1. MuxInit => IInv
    BY InitInv
  <1>2. IInv /\ [MuxNext]_muxVars => IInv'
    BY StepInv
  <1>3. IInv => StreamsSound
    BY AccountsHold, WakesHold DEF StreamsSound
  <1> QED  BY <1>1, <1>2, <1>3, PTL DEF MuxSpec

-----------------------------------------------------------------------------
\* Only Multiplex::next lends a stream.
LEMMA OnlyNextLends ==
  ASSUME IInv, [MuxNext]_muxVars, NEW d \in StreamCallers, streamer[d].pc = "armed",
         streamer'[d].pc = "served"
  PROVE  NextLease(d)
  <1>1. streamer \in Streamers
    BY Here
  <1>2. \A b \in Streamers : NotifyWaiters(b)[d].pc = b[d].pc
    BY Notified
  <1>n. streamer' # streamer /\ streamer' # NotifyWaiters(streamer)
    BY <1>1, <1>2
  <1>m. ASSUME NEW c \in StreamCallers, NEW r \in Callers, r.pc # "served",
               streamer' = NotifyWaiters([streamer EXCEPT ![c] = r])
        PROVE  FALSE
    <2>1. /\ [streamer EXCEPT ![c] = r] \in Streamers
          /\ [streamer EXCEPT ![c] = r][d] = IF d = c THEN r ELSE streamer[d]
      BY <1>1 DEF Streamers
    <2> QED  BY <1>2, <1>m, <2>1
  <1>3. ASSUME NEW c \in StreamCallers, EnterQueue(c) \/ StreamSteps(c) PROVE NextLease(d)
    <2>1. CASE EnterQueue(c)
      <3>1. streamer'[d].pc \in {"armed", "refused"} \/ streamer'[d] = streamer[d]
        BY <1>1, <2>1 DEF EnterQueue, Streamers, NoStream
      <3> QED  BY <3>1
    <2>2. CASE NextLease(c)
      <3>1. d # c => streamer'[d] = streamer[d]
        BY <1>1, <2>2 DEF NextLease, Streamers
      <3> QED  BY <2>2, <3>1
    <2>3. CASE NextDial(c)
      <3>1. ASSUME streamer' = [streamer EXCEPT ![c].pc = "dialing", ![c].order = names.set,
                                                ![c].dials = streamer[c].dials + 1, ![c].woken = FALSE]
            PROVE  FALSE
        <4>1. streamer'[d].pc = "dialing" \/ streamer'[d] = streamer[d]
          BY <1>1, <3>1 DEF Streamers, Callers
        <4> QED  BY <4>1
      <3>2. [NoStream EXCEPT !.pc = "refused"] \in Callers /\ [NoStream EXCEPT !.pc = "refused"].pc = "refused"
        BY PlainTyped DEF PCs
      <3> QED  BY <1>1, <1>m, <2>3, <3>1, <3>2 DEF NextDial, Streamers
    <2>4. CASE NextWait(c)
      <3>1. streamer'[d].pc = "asleep" \/ streamer'[d] = streamer[d]
        BY <1>1, <2>4 DEF NextWait, Streamers, Callers
      <3> QED  BY <3>1
    <2>5. CASE NextClosed(c)
      <3>1. streamer'[d].pc = "refused" \/ streamer'[d] = streamer[d]
        BY <1>1, <2>5 DEF NextClosed, Streamers, NoStream
      <3> QED  BY <3>1
    <2>6. CASE StreamerWakes(c)
      <3>1. streamer'[d].pc = "armed" \/ streamer'[d] = streamer[d]
        BY <1>1, <2>6 DEF StreamerWakes, Streamers, Callers
      <3> QED  BY <3>1
    <2>7. ASSUME NEW a, NEW seen, NEW busy, FinishDial(c, a, FreshConn, seen, busy) PROVE FALSE
      <3>1. NotifyWaiters(streamer) \in Streamers
        BY <1>1, Notified
      <3>2. streamer'[d].pc = "armed" \/ streamer'[d] = NotifyWaiters(streamer)[d]
        BY <2>7, <3>1 DEF FinishDial, Streamers, Callers
      <3> QED  BY <1>1, <1>2, <3>2
    <2>8. CASE FailDial(c)
      <3>1. [NoStream EXCEPT !.pc = "refused"] \in Callers /\ [NoStream EXCEPT !.pc = "refused"].pc = "refused"
        BY PlainTyped DEF PCs
      <3> QED  BY <1>m, <2>8, <3>1 DEF FailDial
    <2>9. CASE LeavesQueue(c)
      <3>1. streamer'[d].pc \in {"lent", "left"} \/ streamer'[d] = streamer[d]
        BY <1>1, <2>9 DEF LeavesQueue, Streamers, NoStream
      <3> QED  BY <3>1
    <2>10. CASE FinishWait(c)
      <3> DEFINE q == IF streamer[c].pc = "lent" THEN "streaming" ELSE "away"
                 r == [streamer[c] EXCEPT !.pc = q]
      <3>1. q \in PCs /\ q # "served" /\ streamer[c] \in Callers
        BY <1>1 DEF PCs, Streamers
      <3>2. streamer' = NotifyWaiters([streamer EXCEPT ![c] = r])
        BY <1>1, <2>10 DEF FinishWait, Streamers
      <3> HIDE DEF q
      <3>3. r \in Callers /\ r.pc = q
        BY <3>1, Zenon DEF Callers
      <3> HIDE DEF r
      <3> QED  BY <1>m, <3>1, <3>2, <3>3
    <2>11. CASE DropStream(c)
      BY <1>m, <2>11, NoStreamTyped DEF DropStream
    <2>12. CASE Poison(c)
      BY <1>n, <2>12 DEF Poison
    <2> QED  BY <1>3, <2>1, <2>2, <2>3, <2>4, <2>5, <2>6, <2>7, <2>8, <2>9, <2>10, <2>11, <2>12 DEF StreamSteps
  <1>4. ASSUME NEW i \in 1..Len(mux.conns),
               \/ PollStarts(i) \/ PollEnds(i) \/ Closes(i) \/ Ages(i)
               \/ \E limit \in PeerLimits : Settings(i, limit)
        PROVE  FALSE
    BY <1>n, <1>4 DEF PollStarts, PollEnds, Closes, Ages, Settings
  <1>5. ~UNCHANGED muxVars
    BY <1>n DEF muxVars
  <1>6. ASSUME \/ \E config \in StreamConfigs : AdoptStreams(config)
               \/ \E answer \in StreamAnswers : NewNames(answer)
               \/ RetireStreams \/ DrainStreams
        PROVE  FALSE
    BY <1>n, <1>6 DEF AdoptStreams, NewNames, RetireStreams, DrainStreams
  <1> QED  BY <1>3, <1>4, <1>5, <1>6 DEF MuxNext

Admitted(s, s2, id) ==
  \E i \in DOMAIN s2.conns :
    /\ s2.conns[i].id = id
    /\ ~Revoked(s, s2.conns[i]) /\ s2.conns[i].open /\ ~s.closed
    /\ s2.conns[i].streams <= s.config.per /\ s2.conns[i].streams <= s2.conns[i].limit
    /\ s2.streams <= s.config.streams

LEMMA LeaseWithinLimits ==
  ASSUME IInv, NEW c \in StreamCallers, NextLease(c)
  PROVE  Admitted(mux, mux', streamer'[c].conn)
  <1> DEFINE p == Ready
             t == LookedAt(p)
             i == Chosen
             e == t.conns[i]
             f == Lent(e)
             n == t.streams + 1
             s2 == Counted(t, i, f, n)
  <1>1. /\ Turn(p) = "lease" /\ i \in DOMAIN t.conns /\ Takes(p, p.conns[i]) /\ mux' = s2
        /\ streamer' = [streamer EXCEPT ![c] = [NoStream EXCEPT !.pc = "served", !.conn = e.id]]
    BY LeaseOn
  <1>2. /\ p \in Muxes /\ Looked(p, t) /\ streamer \in Streamers /\ t \in Muxes
    BY ReadyBase DEF Base, Typed
  <1>3. /\ mux \in Muxes
    BY Here
  <1>4. /\ p.config = mux.config /\ p.streams = mux.streams /\ p.live = mux.live /\ p.closed = mux.closed
        /\ \A k \in DOMAIN p.conns : \E j \in DOMAIN mux.conns :
             SameConn(p.conns[k], mux.conns[j]) /\ (p.conns[k].retired <=> RetiredBy(mux, j, FALSE))
    BY <1>3, Pruned DEF Ready
  <1>5. ~p.closed /\ p.streams < p.config.streams
    BY <1>1, <1>2, Turns
  <1> HIDE DEF p, t, i
  <1>6. /\ i \in DOMAIN p.conns /\ e.id = p.conns[i].id /\ e.at = p.conns[i].at /\ e.open = p.conns[i].open
        /\ e.streams = p.conns[i].streams /\ e.limit = p.conns[i].limit /\ t.streams = p.streams
    BY <1>1, <1>2 DEF Looked
  <1>7. e \in Entries
    BY <1>1, <1>2, MuxTyped
  <1>8. /\ f \in Entries /\ f.id = e.id /\ f.streams = e.streams + 1 /\ f.at = e.at /\ f.open = e.open
        /\ f.limit = e.limit
    BY <1>7, LentTyped
  <1>9. n \in Int /\ n = t.streams + 1
    BY <1>2, MuxTyped
  <1> HIDE DEF f, n
  <1>10. Recounted(t, s2, i, f, n)
    BY <1>1, <1>2, <1>8, <1>9, CountedConn
  <1> HIDE DEF s2
  <1>11. i \in DOMAIN s2.conns /\ s2.conns[i] = f /\ s2.streams = n
    BY <1>1, <1>10 DEF Recounted
  <1>12. streamer'[c].conn = f.id
    <2> DEFINE k == e.id
    <2> HIDE DEF k
    <2>1. [NoStream EXCEPT !.pc = "served", !.conn = k].conn = k
      BY DEF NoStream
    <2>2. streamer'[c] = [NoStream EXCEPT !.pc = "served", !.conn = k]
      BY <1>1, <1>2 DEF Streamers, k
    <2> QED  BY <1>8, <2>1, <2>2 DEF k
  <1>13. ~Revoked(mux, f) /\ f.open
    <2>1. ~p.conns[i].retired /\ p.conns[i].open
      BY <1>1 DEF Takes
    <2>2. PICK j \in DOMAIN mux.conns : SameConn(p.conns[i], mux.conns[j]) /\ ~RetiredBy(mux, j, FALSE)
      BY <1>4, <1>6, <2>1
    <2>3. ~Revoked(mux, mux.conns[j]) /\ mux.conns[j].at = f.at
      BY <1>6, <1>8, <2>2 DEF RetiredBy, SameConn
    <2> QED  BY <1>6, <1>8, <2>1, <2>3 DEF Revoked
  <1>14. f.streams <= mux.config.per /\ f.streams <= f.limit
    <2>1. p.conns[i] \in Entries /\ p.config.per \in Int
      BY <1>2, <1>6, MuxTyped, ConfigTyped
    <2>2. p.conns[i].streams \in Int /\ p.conns[i].limit \in Int /\ p.conns[i].limit >= 0
      BY <2>1 DEF Entries
    <2>3. p.conns[i].streams < Low(p.config.per, StreamLimit(p.conns[i]))
      BY <1>1 DEF Takes
    <2>4. StreamLimit(p.conns[i]) \in Int /\ StreamLimit(p.conns[i]) <= p.conns[i].limit
      BY <2>2 DEF StreamLimit
    <2>5. p.conns[i].streams < p.config.per /\ p.conns[i].streams < p.conns[i].limit
      BY <2>1, <2>2, <2>3, <2>4 DEF Low
    <2>6. p.conns[i].streams + 1 <= p.config.per /\ p.conns[i].streams + 1 <= p.conns[i].limit
      BY <2>1, <2>2, <2>5
    <2> QED  BY <1>4, <1>6, <1>8, <2>6
  <1>15. s2.streams <= mux.config.streams
    <2>1. p.streams \in Int /\ p.config.streams \in Int
      BY <1>2, MuxTyped, ConfigTyped
    <2> QED  BY <1>4, <1>5, <1>6, <1>9, <1>11, <2>1
  <1>16. Admitted(mux, s2, f.id)
    BY <1>4, <1>5, <1>11, <1>13, <1>14, <1>15 DEF Admitted
  <1> QED  BY <1>1, <1>12, <1>16

\* A stream is lent only on an open connection to an address the pool was told of, within the
\* limits of the configuration in force and of the peer, and never after the drain.
THEOREM AdmissionOfStreams == MuxSpec => AdmitsWithinLimits
  <1>1. MuxInit => IInv
    BY InitInv
  <1>2. IInv /\ [MuxNext]_muxVars => IInv'
    BY StepInv
  <1> DEFINE A == \A c \in StreamCallers :
                    streamer[c].pc = "armed" /\ streamer'[c].pc = "served" =>
                      \E i \in DOMAIN mux'.conns :
                        /\ mux'.conns[i].id = streamer'[c].conn
                        /\ ~Revoked(mux, mux'.conns[i]) /\ mux'.conns[i].open /\ ~mux.closed
                        /\ mux'.conns[i].streams <= mux.config.per /\ mux'.conns[i].streams <= mux'.conns[i].limit
                        /\ mux'.streams <= mux.config.streams
  <1>3. IInv /\ [MuxNext]_muxVars => [A]_muxVars
    BY OnlyNextLends, LeaseWithinLimits DEF Admitted
  <1>4. MuxSpec => [][A]_muxVars
    BY <1>1, <1>2, <1>3, PTL DEF MuxSpec
  <1> QED  BY <1>4 DEF AdmitsWithinLimits

-----------------------------------------------------------------------------
(* Upstreams.  What a candidate is bound to is complete in itself (Whole)  *)
(* and shares with the generation in use whatever is compatible (Shares);  *)
(* so does a probe, which a publication may overtake and the activation    *)
(* after it compares by its identity.                                      *)

Mats == Materials \cup {0}
SetRefs == [id : Objects, compat : Targets \X Wires, active : Checks \cup {NoCheck}]
PoolRefs == [id : Objects, compat : Targets \X Wires \X Mats, material : Mats]
RuntimeStates == [spec : Specs, material : Mats, set : SetRefs, pool : PoolRefs]
Held == RuntimeStates \cup {NoRuntime}
WorkerStates(identities) ==
  [on : {TRUE}, identity : identities, runtime : RuntimeStates,
   pc : {"working", "answered", "asleep", "backoff"}, answer : Addresses \cup {0}]
ResolverStates == WorkerStates(Targets \X Lookups) \cup {NoWorker}
ProbeStates == WorkerStates(Targets \X (Checks \cup {NoCheck}) \X Wires \X Mats) \cup {NoWorker}
Policies == (Limits \X Lookups) \cup {NoPolicy}

UpstreamTypes ==
  /\ serving \in Held
  /\ cand \in [ready : BOOLEAN, runtime : Held]
  /\ request \in [pc : {"none", "lookup", "answered"}, runtime : Held, answer : Addresses \cup {0}]
  /\ resolver \in ResolverStates
  /\ probe \in ProbeStates
  /\ limits \in [Objects -> Policies]
  /\ act \in {"idle", "census", "resolvers", "probes"}
  /\ closed \in BOOLEAN
  /\ generation \in Nat
  /\ dns \in Addresses
  /\ files \in Materials

\* A runtime's set and pool were made for its own transport and material.
Whole(r) ==
  r # NoRuntime =>
    /\ r.set.compat = Transport(r.spec)
    /\ r.pool.compat = PoolCompat(r.spec, r.material)
    /\ r.pool.material = r.material

\* r has what the generation in use has, as far as its plan is compatible.
Shares(r) ==
  r # NoRuntime /\ serving # NoRuntime /\ Transport(r.spec) = Transport(serving.spec) =>
    /\ r.set = serving.set
    /\ r.material = serving.material => r.pool = serving.pool

InTurn ==
  /\ cand.ready => act = "idle" /\ ~closed
  /\ ~cand.ready => cand.runtime = NoRuntime
  /\ closed => act = "idle" /\ ~probe.on /\ ~resolver.on

Probes ==
  /\ probe.on =>
       /\ Whole(probe.runtime) /\ Shares(probe.runtime)
       /\ probe.identity = <<probe.runtime.spec.targets, probe.runtime.spec.health,
                             probe.runtime.spec.wire, probe.runtime.material>>
  /\ act = "idle" /\ ~closed =>
       /\ probe.on <=> WantsProbes
       /\ probe.on => /\ probe.runtime.set = serving.set
                      /\ probe.runtime.pool = serving.pool
                      /\ probe.runtime.spec.health = serving.spec.health

Resolves ==
  /\ resolver.on =>
       /\ Whole(resolver.runtime)
       /\ resolver.identity = <<resolver.runtime.spec.targets, resolver.runtime.spec.lookup>>
  /\ act \in {"probes", "idle"} /\ ~closed =>
       /\ resolver.on <=> WantsNames
       /\ resolver.on => /\ resolver.runtime.spec.targets = serving.spec.targets
                         /\ resolver.runtime.spec.lookup = serving.spec.lookup

Bindings ==
  /\ registry = [set |-> serving.set, pool |-> serving.pool]
  /\ Whole(serving) /\ Whole(request.runtime) /\ Whole(cand.runtime) /\ Shares(cand.runtime)
  /\ serving # NoRuntime => limits[serving.pool.id] = Policy(serving.spec)

UInv == UpstreamTypes /\ InTurn /\ Bindings /\ Probes /\ Resolves

\* Fresh finds an identity whenever there is one.
LEMMA FreshFound ==
  ASSUME NEW used, Objects \ used # {}
  PROVE  Fresh(used) \in Objects \ used
<1> DEFINE Free == Objects \ used
<1>1. Free \subseteq Nat /\ Free # {}
  BY UpstreamsAssumption
<1>2. \E x \in Free : \A y \in Free : ~ (<<y, x>> \in OpToRel(<, Nat))
  <2> HIDE DEF Free
  <2> QED
    BY <1>1, NatLessThanWellFounded, WFMin
<1>3. \E x \in Free : \A y \in Free : x <= y
  <2> HIDE DEF Free
  <2>1. PICK x \in Free : \A y \in Free : ~ (y < x)
    BY <1>1, <1>2 DEF OpToRel
  <2> QED
    BY <1>1, <2>1
<1> QED
  BY <1>3 DEF Fresh

\* What somebody holds.
LEMMA HeldParts ==
  ASSUME NEW r \in Held
  PROVE  /\ r # NoRuntime =>
              /\ r.spec \in Specs /\ r.material \in Mats /\ r.set.id \in Objects /\ r.pool.id \in Objects
              /\ r.set \in SetRefs /\ r.pool \in PoolRefs /\ r.spec.targets \in Targets /\ r.spec.wire \in Wires
              /\ r.spec.health \in Checks \cup {NoCheck} /\ r.spec.lookup \in Lookups /\ r.spec.limit \in Limits
         /\ r.set.id \in Objects \cup {0} /\ r.pool.id \in Objects \cup {0}
         /\ r = NoRuntime => r.spec = NoSpec /\ r.set = NoSet /\ r.pool = NoPool
<1>1. CASE r = NoRuntime
  BY <1>1 DEF NoRuntime, NoSet, NoPool
<1>2. CASE r # NoRuntime
  <2>1. r \in RuntimeStates
    BY <1>2 DEF Held
  <2>2. r.spec \in Specs /\ r.material \in Mats /\ r.set \in SetRefs /\ r.pool \in PoolRefs
    BY <2>1 DEF RuntimeStates
  <2> QED
    BY <1>2, <2>2 DEF SetRefs, PoolRefs, Specs
<1> QED
  BY <1>1, <1>2

\* Workers by their fields.
LEMMA ResolverParts ==
  ASSUME NEW w \in ResolverStates
  PROVE  /\ w.on \in BOOLEAN /\ (~w.on <=> w = NoWorker)
         /\ w.on => w.runtime \in RuntimeStates /\ w.runtime \in Held /\ w.identity \in Targets \X Lookups
<1>1. CASE w = NoWorker
  BY <1>1 DEF NoWorker
<1>2. CASE w \in WorkerStates(Targets \X Lookups)
  <2>1. w.on = TRUE /\ w.runtime \in RuntimeStates /\ w.identity \in Targets \X Lookups
    BY <1>2 DEF WorkerStates
  <2>2. w # NoWorker
    BY <2>1 DEF NoWorker
  <2> QED
    BY <2>1, <2>2 DEF Held
<1> QED
  BY <1>1, <1>2 DEF ResolverStates

LEMMA ProbeParts ==
  ASSUME NEW w \in ProbeStates
  PROVE  /\ w.on \in BOOLEAN /\ (~w.on <=> w = NoWorker)
         /\ w.on => w.runtime \in RuntimeStates /\ w.runtime \in Held
<1>1. CASE w = NoWorker
  BY <1>1 DEF NoWorker
<1>2. CASE w \in WorkerStates(Targets \X (Checks \cup {NoCheck}) \X Wires \X Mats)
  <2>1. w.on = TRUE /\ w.runtime \in RuntimeStates
    BY <1>2 DEF WorkerStates
  <2>2. w # NoWorker
    BY <2>1 DEF NoWorker
  <2> QED
    BY <2>1, <2>2 DEF Held
<1> QED
  BY <1>1, <1>2 DEF ProbeStates

LEMMA NothingHeld ==
  /\ NoRuntime \in Held /\ NoCand \in [ready : BOOLEAN, runtime : Held] /\ NoCand.ready = FALSE
  /\ NoCand.runtime = NoRuntime /\ NoWorker \in ResolverStates /\ NoWorker \in ProbeStates /\ NoWorker.on = FALSE
  /\ NoRequest \in [pc : {"none", "lookup", "answered"}, runtime : Held, answer : Addresses \cup {0}]
  /\ NoRequest.runtime = NoRuntime /\ Whole(NoRuntime) /\ Shares(NoRuntime)
<1>1. NoRuntime \in Held
  BY DEF Held
<1>2. NoCand \in [ready : BOOLEAN, runtime : Held] /\ NoCand.ready = FALSE /\ NoCand.runtime = NoRuntime
  BY <1>1 DEF NoCand
<1>3. /\ NoRequest \in [pc : {"none", "lookup", "answered"}, runtime : Held, answer : Addresses \cup {0}]
      /\ NoRequest.runtime = NoRuntime
  BY <1>1 DEF NoRequest
<1>4. Whole(NoRuntime) /\ Shares(NoRuntime)
  BY DEF Whole, Shares
<1> QED
  BY <1>1, <1>2, <1>3, <1>4 DEF NoWorker, ResolverStates, ProbeStates

-----------------------------------------------------------------------------
\* Facts that only look at the generation in use and one worker.
LEMMA ProbesSame ==
  ASSUME Probes, UNCHANGED <<serving, probe, closed>>, act' = act \/ act' \in {"census", "resolvers", "probes"}
  PROVE  Probes'
  BY DEF Probes, Whole, Shares, WantsProbes

LEMMA ResolvesSame ==
  ASSUME Resolves, UNCHANGED <<serving, resolver, closed>>, act' = act \/ act' \in {"census", "resolvers"}
                                                            \/ (act' = "idle" /\ act = "probes")
  PROVE  Resolves'
  BY DEF Resolves, Whole, WantsNames

\* Freeing what nobody holds keeps the pool in use.
LEMMA LimitsKept ==
  ASSUME UInv, serving' = serving, limits' = KeptPools(limits, Runtimes')
  PROVE  /\ limits' \in [Objects -> Policies]
         /\ serving # NoRuntime => limits'[serving.pool.id] = Policy(serving.spec)
<1>1. serving \in Runtimes'
  BY DEF Runtimes
<1>2. limits \in [Objects -> Policies] /\ serving \in Held
  BY DEF UInv, UpstreamTypes
<1>3. serving.pool.id \in {r.pool.id : r \in Runtimes'}
  BY <1>1
<1>4. PICK used : limits' = [o \in Objects |-> IF o \in used THEN limits[o] ELSE NoPolicy] /\ serving.pool.id \in used
  BY <1>3 DEF KeptPools, Kept
<1>5. limits' \in [Objects -> Policies]
  BY <1>2, <1>4 DEF Policies
<1>6. ASSUME serving # NoRuntime PROVE limits'[serving.pool.id] = Policy(serving.spec)
  <2>1. serving.pool.id \in Objects /\ limits[serving.pool.id] = Policy(serving.spec)
    BY <1>2, <1>6, HeldParts DEF UInv, Bindings
  <2> QED
    BY <1>4, <2>1
<1> QED
  BY <1>5, <1>6

LEMMA SpareObject ==
  ASSUME NEW a \in Objects \cup {0}, NEW b \in Objects \cup {0}, NEW c \in Objects \cup {0},
         NEW d \in Objects \cup {0}, NEW e \in Objects \cup {0}
  PROVE  Objects \ {a, b, c, d, e} # {}
  BY UpstreamsAssumption

\* There is always an identity for a new set and a new pool.
LEMMA FreshRefs ==
  ASSUME UInv, ~cand.ready
  PROVE  /\ FreshSet \in Objects /\ FreshSet # serving.set.id
         /\ FreshPool \in Objects /\ FreshPool # serving.pool.id
<1>1. /\ serving \in Held /\ request.runtime \in Held /\ cand.runtime = NoRuntime
      /\ resolver \in ResolverStates /\ probe \in ProbeStates
  BY DEF UInv, UpstreamTypes, InTurn
<1>2. PICK v \in Held, w \in Held : (resolver.on => v = resolver.runtime) /\ (probe.on => w = probe.runtime)
  BY <1>1, ResolverParts, ProbeParts, NothingHeld
<1>3. Runtimes \subseteq {serving, request.runtime, NoRuntime, v, w}
  BY <1>1, <1>2 DEF Runtimes
<1>4. \A r \in {serving, request.runtime, NoRuntime, v, w} :
        r.set.id \in Objects \cup {0} /\ r.pool.id \in Objects \cup {0}
  BY <1>1, HeldParts, NothingHeld
<1>5. serving \in Runtimes /\ registry.set.id = serving.set.id /\ registry.pool.id = serving.pool.id
  BY DEF UInv, Bindings, Runtimes
<1>6. FreshSet \in Objects /\ FreshSet # serving.set.id
  <2> DEFINE used == {registry.set.id} \cup {r.set.id : r \in Runtimes}
             S == {serving.set.id, request.runtime.set.id, NoRuntime.set.id, v.set.id, w.set.id}
  <2>1. used \subseteq S /\ serving.set.id \in used
    BY <1>3, <1>5
  <2>2. Objects \ S # {}
    <3>1. PICK a \in Objects \cup {0}, b \in Objects \cup {0}, c \in Objects \cup {0}, d \in Objects \cup {0}, e \in Objects \cup {0} :
            a = serving.set.id /\ b = request.runtime.set.id /\ c = NoRuntime.set.id /\ d = v.set.id /\ e = w.set.id
      BY <1>4
    <3>2. Objects \ {a, b, c, d, e} # {}
      BY SpareObject
    <3> QED
      BY <3>1, <3>2
  <2>3. Objects \ used # {}
    <3> HIDE DEF used, S
    <3> QED
      BY <2>1, <2>2
  <2>4. Fresh(used) \in Objects \ used
    <3> HIDE DEF used
    <3> QED
      BY <2>3, FreshFound
  <2>5. FreshSet = Fresh(used)
    BY DEF FreshSet
  <2> HIDE DEF used
  <2> QED
    BY <2>1, <2>4, <2>5
<1>7. FreshPool \in Objects /\ FreshPool # serving.pool.id
  <2> DEFINE used == {registry.pool.id} \cup {r.pool.id : r \in Runtimes}
             S == {serving.pool.id, request.runtime.pool.id, NoRuntime.pool.id, v.pool.id, w.pool.id}
  <2>1. used \subseteq S /\ serving.pool.id \in used
    BY <1>3, <1>5
  <2>2. Objects \ S # {}
    <3>1. PICK a \in Objects \cup {0}, b \in Objects \cup {0}, c \in Objects \cup {0}, d \in Objects \cup {0}, e \in Objects \cup {0} :
            a = serving.pool.id /\ b = request.runtime.pool.id /\ c = NoRuntime.pool.id /\ d = v.pool.id /\ e = w.pool.id
      BY <1>4
    <3>2. Objects \ {a, b, c, d, e} # {}
      BY SpareObject
    <3> QED
      BY <3>1, <3>2
  <2>3. Objects \ used # {}
    <3> HIDE DEF used, S
    <3> QED
      BY <2>1, <2>2
  <2>4. Fresh(used) \in Objects \ used
    <3> HIDE DEF used
    <3> QED
      BY <2>3, FreshFound
  <2>5. FreshPool = Fresh(used)
    BY DEF FreshPool
  <2> HIDE DEF used
  <2> QED
    BY <2>1, <2>4, <2>5
<1> QED
  BY <1>6, <1>7

\* The compatibility of a pool is that of the transport, with the material added.
LEMMA CompatTuple == ASSUME NEW a, NEW b, NEW m PROVE Append(<<a, b>>, m) = <<a, b, m>>
<1> DEFINE V == {a, b, m}
           s == Append(<<a, b>>, m)
           t == <<a, b, m>>
<1>1. <<a, b>> \in Seq(V) /\ m \in V
  OBVIOUS
<1>2. s \in Seq(V) /\ Len(s) = 3 /\ s[1] = a /\ s[2] = b /\ s[3] = m
  BY <1>1
<1>3. t \in Seq(V) /\ Len(t) = 3 /\ t[1] = a /\ t[2] = b /\ t[3] = m
  OBVIOUS
<1> HIDE DEF s, t, V
<1>4. \A i \in 1..Len(s) : s[i] = t[i]
  BY <1>2, <1>3
<1>5. s = t
  BY <1>2, <1>3, <1>4, SeqEqual
<1> QED
  BY <1>5 DEF s, t

LEMMA TransportOf == ASSUME NEW a, NEW b, NEW m PROVE SubSeq(<<a, b, m>>, 1, 2) = <<a, b>>
<1> DEFINE V == {a, b, m}
           s == SubSeq(<<a, b, m>>, 1, 2)
           t == <<a, b>>
<1>1. <<a, b, m>> \in Seq(V)
  OBVIOUS
<1>2. s \in Seq(V) /\ Len(s) = 2 /\ s[1] = a /\ s[2] = b
  BY <1>1
<1>3. t \in Seq(V) /\ Len(t) = 2 /\ t[1] = a /\ t[2] = b
  OBVIOUS
<1> HIDE DEF s, t, V
<1>4. \A i \in 1..Len(s) : s[i] = t[i]
  BY <1>2, <1>3
<1>5. s = t
  BY <1>2, <1>3, <1>4, SeqEqual
<1> QED
  BY <1>5 DEF s, t

LEMMA CompatParts ==
  ASSUME NEW spec \in Specs, NEW material \in Mats
  PROVE  /\ Transport(spec) \in Targets \X Wires /\ PoolCompat(spec, material) \in Targets \X Wires \X Mats
         /\ Transport(spec) # <<>> /\ PoolCompat(spec, material) # <<>>
         /\ PoolCompat(spec, material) = <<spec.targets, spec.wire, material>>
         /\ Transport(spec) = <<spec.targets, spec.wire>>
<1>1. spec.targets \in Targets /\ spec.wire \in Wires
  BY DEF Specs
<1>2. PoolCompat(spec, material) = <<spec.targets, spec.wire, material>>
  BY CompatTuple DEF PoolCompat, Transport
<1> QED
  BY <1>1, <1>2 DEF Transport

\* What a candidate is bound to.
LEMMA Binds ==
  ASSUME UInv, ~cand.ready, NEW spec \in Specs, NEW material \in Mats, NEW r,
         r = [spec |-> spec, material |-> material, set |-> BindSet(spec), pool |-> BindPool(spec, material)]
  PROVE  /\ r \in RuntimeStates /\ Whole(r) /\ Shares(r) /\ r # NoRuntime
         /\ BindPool(spec, material) # registry.pool =>
              r.pool.id # serving.pool.id
<1>1. /\ serving \in Held /\ Whole(serving) /\ registry.set = serving.set /\ registry.pool = serving.pool
  BY DEF UInv, UpstreamTypes, Bindings
<1>2. /\ FreshSet \in Objects /\ FreshPool \in Objects /\ FreshPool # serving.pool.id
  BY FreshRefs
<1>3. spec.health \in Checks \cup {NoCheck}
  BY DEF Specs
<1>4. serving = NoRuntime => serving.set.compat = <<>> /\ serving.pool.compat = <<>>
  BY DEF NoRuntime, NoSet, NoPool
<1>5. PICK set \in SetRefs : /\ set = BindSet(spec) /\ set.compat = Transport(spec)
                             /\ serving # NoRuntime /\ Transport(spec) = Transport(serving.spec) => set = serving.set
  <2>1. CASE registry.set.compat = Transport(spec)
    <3>1. serving # NoRuntime
      BY <1>1, <1>4, <2>1, CompatParts
    <3>2. serving.set \in SetRefs
      BY <1>1, <3>1, HeldParts
    <3> QED
      BY <1>1, <2>1, <3>1, <3>2 DEF BindSet
  <2>2. CASE registry.set.compat # Transport(spec)
    <3>1. BindSet(spec) = [id |-> FreshSet, compat |-> Transport(spec), active |-> spec.health]
      BY <2>2 DEF BindSet
    <3>2. BindSet(spec) \in SetRefs /\ BindSet(spec).compat = Transport(spec)
      BY <1>2, <1>3, <3>1, CompatParts DEF SetRefs
    <3> QED
      BY <1>1, <2>2, <3>2 DEF Whole
  <2> QED
    BY <2>1, <2>2
<1>6. PICK pool \in PoolRefs :
        /\ pool = BindPool(spec, material) /\ pool.compat = PoolCompat(spec, material) /\ pool.material = material
        /\ serving # NoRuntime /\ Transport(spec) = Transport(serving.spec) /\ material = serving.material =>
             pool = serving.pool
        /\ pool = registry.pool \/ pool.id = FreshPool
  <2>1. CASE registry.pool.compat = PoolCompat(spec, material)
    <3>1. serving # NoRuntime
      BY <1>1, <1>4, <2>1, CompatParts
    <3>2. serving.pool \in PoolRefs /\ serving.spec \in Specs /\ serving.material \in Mats
      BY <1>1, <3>1, HeldParts
    <3>3. serving.pool.compat = PoolCompat(serving.spec, serving.material) /\ serving.pool.material = serving.material
      BY <1>1, <3>1 DEF Whole
    <3>4. serving.material = material
      BY <1>1, <2>1, <3>2, <3>3, CompatParts
    <3> QED
      BY <1>1, <2>1, <3>1, <3>2, <3>3, <3>4 DEF BindPool
  <2>2. CASE registry.pool.compat # PoolCompat(spec, material)
    <3>1. BindPool(spec, material) = [id |-> FreshPool, compat |-> PoolCompat(spec, material), material |-> material]
      BY <2>2 DEF BindPool
    <3>2. /\ BindPool(spec, material) \in PoolRefs /\ BindPool(spec, material).compat = PoolCompat(spec, material)
          /\ BindPool(spec, material).material = material /\ BindPool(spec, material).id = FreshPool
      BY <1>2, <3>1, CompatParts DEF PoolRefs
    <3>3. ~(serving # NoRuntime /\ Transport(spec) = Transport(serving.spec) /\ material = serving.material)
      BY <1>1, <2>2 DEF Whole, PoolCompat
    <3> QED
      BY <3>2, <3>3
  <2> QED
    BY <2>1, <2>2
<1>7. r = [spec |-> spec, material |-> material, set |-> set, pool |-> pool]
  BY <1>5, <1>6
<1>8. r \in RuntimeStates /\ r.spec = spec /\ r.material = material /\ r.set = set /\ r.pool = pool
  BY <1>7 DEF RuntimeStates
<1>9. r # NoRuntime
  <2>1. set # NoSet
    BY <1>5, CompatParts DEF NoSet
  <2> QED
    BY <1>8, <2>1 DEF NoRuntime
<1>10. Whole(r)
  BY <1>5, <1>6, <1>8 DEF Whole
<1>11. Shares(r)
  BY <1>5, <1>6, <1>8 DEF Shares
<1> QED
  BY <1>2, <1>6, <1>8, <1>9, <1>10, <1>11

-----------------------------------------------------------------------------
\* A step that touches neither the generation in use nor a worker.
LEMMA Aside ==
  ASSUME UInv, UNCHANGED <<serving, registry, resolver, probe, act, closed>>, UpstreamTypes', InTurn',
         Whole(request.runtime)', Whole(cand.runtime)', Shares(cand.runtime)',
         serving # NoRuntime => limits'[serving.pool.id] = Policy(serving.spec)
  PROVE  UInv'
<1>1. Probes' /\ Resolves'
  BY ProbesSame, ResolvesSame DEF UInv
<1>2. Bindings'
  BY DEF UInv, Bindings, Whole
<1> QED
  BY <1>1, <1>2 DEF UInv

LEMMA StageStep == ASSUME UInv, NEW spec \in Offered, Stage(spec) PROVE UInv'
<1>1. spec \in Specs
  BY UpstreamsAssumption
<1>2. PICK material \in Mats : material = IF spec.wire \in Secured THEN files ELSE 0
  BY DEF UInv, UpstreamTypes, Mats
<1>3. PICK r : r = [spec |-> spec, material |-> material, set |-> BindSet(spec), pool |-> BindPool(spec, material)]
  OBVIOUS
<1>4. /\ ~cand.ready /\ act = "idle" /\ ~closed
      /\ cand' = [ready |-> TRUE, runtime |-> r] /\ limits' = StagedLimits(r.pool, spec)
      /\ UNCHANGED <<generation, serving, registry, act, closed, resolver, probe, request, dns, files>>
  BY <1>2, <1>3 DEF Stage, workers, world
<1>5. /\ r \in RuntimeStates /\ Whole(r) /\ Shares(r) /\ r # NoRuntime
      /\ r.pool # registry.pool => r.pool.id # serving.pool.id
  BY <1>1, <1>3, <1>4, Binds
<1>6. r \in Held /\ r.pool.id \in Objects /\ Policy(spec) \in Policies
  BY <1>1, <1>5, HeldParts DEF Held, Policy, Policies, Specs
<1>7. cand' \in [ready : BOOLEAN, runtime : Held] /\ cand'.ready = TRUE /\ cand'.runtime = r
  BY <1>4, <1>6
<1>8. limits \in [Objects -> Policies]
  BY DEF UInv, UpstreamTypes
<1>9. /\ limits' \in [Objects -> Policies]
      /\ serving # NoRuntime => limits'[serving.pool.id] = Policy(serving.spec)
  <2>1. limits' = limits \/ (limits' = [limits EXCEPT ![r.pool.id] = Policy(spec)] /\ r.pool # registry.pool)
    BY <1>4 DEF StagedLimits
  <2>2. serving # NoRuntime => serving.pool.id \in Objects /\ limits[serving.pool.id] = Policy(serving.spec)
    BY HeldParts DEF UInv, UpstreamTypes, Bindings
  <2> QED
    BY <1>5, <1>6, <1>8, <2>1, <2>2
<1>10. UpstreamTypes'
  BY <1>4, <1>7, <1>9 DEF UInv, UpstreamTypes
<1>11. InTurn'
  BY <1>4, <1>7 DEF UInv, InTurn
<1>12. Whole(request.runtime)' /\ Whole(cand.runtime)' /\ Shares(cand.runtime)'
  BY <1>4, <1>5, <1>7 DEF UInv, Bindings, Whole, Shares
<1> QED
  BY <1>4, <1>9, <1>10, <1>11, <1>12, Aside

LEMMA StageWithoutStep == ASSUME UInv, StageWithout PROVE UInv'
<1>1. /\ ~cand.ready /\ act = "idle" /\ ~closed /\ cand' = [ready |-> TRUE, runtime |-> NoRuntime]
      /\ UNCHANGED <<generation, serving, registry, limits, act, closed, resolver, probe, request, dns, files>>
  BY DEF StageWithout, bound, workers, world
<1>2. cand' \in [ready : BOOLEAN, runtime : Held] /\ cand'.ready = TRUE /\ cand'.runtime = NoRuntime
  BY <1>1, NothingHeld
<1>3. UpstreamTypes' /\ InTurn'
  BY <1>1, <1>2 DEF UInv, UpstreamTypes, InTurn
<1>4. Whole(request.runtime)' /\ Whole(cand.runtime)' /\ Shares(cand.runtime)'
  BY <1>1, <1>2 DEF UInv, Bindings, Whole, Shares
<1> QED
  BY <1>1, <1>3, <1>4, Aside DEF UInv, Bindings

LEMMA DiscardStep == ASSUME UInv, Discard PROVE UInv'
<1>1. /\ cand' = NoCand /\ limits' = KeptPools(limits, Runtimes')
      /\ UNCHANGED <<generation, serving, registry, act, closed, resolver, probe, request, dns, files>>
  BY DEF Discard, Frees, workers, world
<1>2. cand' \in [ready : BOOLEAN, runtime : Held] /\ cand'.ready = FALSE /\ cand'.runtime = NoRuntime
  BY <1>1, NothingHeld
<1>3. /\ limits' \in [Objects -> Policies]
      /\ serving # NoRuntime => limits'[serving.pool.id] = Policy(serving.spec)
  BY <1>1, LimitsKept
<1>4. UpstreamTypes' /\ InTurn'
  BY <1>1, <1>2, <1>3 DEF UInv, UpstreamTypes, InTurn
<1>5. Whole(request.runtime)' /\ Whole(cand.runtime)' /\ Shares(cand.runtime)'
  BY <1>1, <1>2 DEF UInv, Bindings, Whole, Shares
<1> QED
  BY <1>1, <1>3, <1>4, <1>5, Aside

\* Requests, and the world.
LEMMA RequestSteps ==
  ASSUME UInv, Arrives \/ LooksUp \/ FoundOnDemand \/ GivesUp \/ NameMoves \/ FilesReplaced
  PROVE  UInv'
<1>1. UNCHANGED <<generation, serving, registry, cand, act, closed, resolver, probe>>
  BY DEF Arrives, LooksUp, FoundOnDemand, GivesUp, NameMoves, FilesReplaced, RequestGoes, workers, bound
<1>2. /\ limits' \in [Objects -> Policies]
      /\ serving # NoRuntime => limits'[serving.pool.id] = Policy(serving.spec)
  <2>1. limits' = limits \/ limits' = KeptPools(limits, Runtimes')
    BY DEF Arrives, LooksUp, FoundOnDemand, GivesUp, NameMoves, FilesReplaced, Frees, bound
  <2>2. CASE limits' = limits
    BY <2>2 DEF UInv, UpstreamTypes, Bindings
  <2> QED
    BY <1>1, <2>1, <2>2, LimitsKept
<1>3. /\ request' \in [pc : {"none", "lookup", "answered"}, runtime : Held, answer : Addresses \cup {0}]
      /\ Whole(request'.runtime)
  <2>1. /\ request \in [pc : {"none", "lookup", "answered"}, runtime : Held, answer : Addresses \cup {0}]
        /\ Whole(request.runtime) /\ Whole(serving) /\ serving \in Held /\ dns \in Addresses
    BY DEF UInv, UpstreamTypes, Bindings
  <2>2. \/ request' = request \/ request' = NoRequest
        \/ request' = [pc |-> "lookup", runtime |-> serving, answer |-> 0]
        \/ request' = [request EXCEPT !.pc = "answered", !.answer = dns]
    BY DEF Arrives, LooksUp, FoundOnDemand, GivesUp, NameMoves, FilesReplaced, RequestGoes
  <2>3. CASE request' = [pc |-> "lookup", runtime |-> serving, answer |-> 0]
    BY <2>1, <2>3
  <2>4. CASE request' = [request EXCEPT !.pc = "answered", !.answer = dns]
    <3>1. request'.runtime = request.runtime
      BY <2>1, <2>4
    <3> QED
      BY <2>1, <2>4, <3>1
  <2> QED
    BY <2>1, <2>2, <2>3, <2>4, NothingHeld
<1>4. dns' \in Addresses /\ files' \in Materials
  BY DEF UInv, UpstreamTypes, Arrives, LooksUp, FoundOnDemand, GivesUp, NameMoves, FilesReplaced, RequestGoes, world
<1>5. UpstreamTypes' /\ InTurn'
  BY <1>1, <1>2, <1>3, <1>4 DEF UInv, UpstreamTypes, InTurn
<1>6. Whole(request.runtime)' /\ Whole(cand.runtime)' /\ Shares(cand.runtime)'
  BY <1>1, <1>3 DEF UInv, Bindings, Whole, Shares
<1> QED
  BY <1>1, <1>2, <1>5, <1>6, Aside

-----------------------------------------------------------------------------
LEMMA PublishStep == ASSUME UInv, Publish PROVE UInv'
<1>1. PICK r \in Held : r = cand.runtime
  BY DEF UInv, UpstreamTypes
<1>2. /\ cand.ready /\ ~closed /\ generation' = generation + 1 /\ serving' = r
      /\ registry' = [set |-> r.set, pool |-> r.pool] /\ cand' = NoCand /\ act' = "census"
      /\ UNCHANGED <<closed, resolver, probe, request, dns, files>>
      /\ limits' = KeptPools(Adopted(r), Runtimes')
  BY <1>1 DEF Publish, workers, world
<1>3. /\ UpstreamTypes /\ act = "idle" /\ Whole(r) /\ Shares(r) /\ Whole(serving) /\ serving \in Held
      /\ Probes /\ Resolves /\ Whole(request.runtime)
  BY <1>1, <1>2 DEF UInv, InTurn, Bindings, UpstreamTypes
<1>4. /\ Adopted(r) \in [Objects -> Policies]
      /\ r # NoRuntime => Adopted(r)[r.pool.id] = Policy(r.spec) /\ r.pool.id \in Objects
  <2>1. limits \in [Objects -> Policies]
    BY <1>3 DEF UpstreamTypes
  <2>2. CASE r = NoRuntime
    BY <2>1, <2>2 DEF Adopted, NoRuntime
  <2>3. CASE r # NoRuntime
    <3>1. r.pool.id \in Objects /\ r.spec.limit \in Limits /\ r.spec.lookup \in Lookups
      BY <2>3, HeldParts
    <3>2. Policy(r.spec) \in Policies
      BY <3>1 DEF Policy, Policies
    <3>3. r.pool # NoPool
      BY <3>1, UpstreamsAssumption DEF NoPool
    <3> QED
      BY <2>1, <3>1, <3>2, <3>3 DEF Adopted
  <2> QED
    BY <2>2, <2>3
<1>5. /\ limits' \in [Objects -> Policies]
      /\ r # NoRuntime => limits'[r.pool.id] = Policy(r.spec)
  <2>1. r \in Runtimes'
    BY <1>2 DEF Runtimes
  <2>2. r.pool.id \in {q.pool.id : q \in Runtimes'}
    BY <2>1
  <2>3. PICK used : /\ limits' = [o \in Objects |-> IF o \in used THEN Adopted(r)[o] ELSE NoPolicy]
                    /\ r.pool.id \in used
    BY <1>2, <2>2 DEF KeptPools, Kept
  <2> QED
    BY <1>4, <2>3 DEF Policies
<1>6. cand' \in [ready : BOOLEAN, runtime : Held] /\ cand'.ready = FALSE /\ cand'.runtime = NoRuntime
  BY <1>2, NothingHeld
<1>7. UpstreamTypes'
  BY <1>2, <1>3, <1>5, <1>6 DEF UpstreamTypes
<1>8. InTurn'
  BY <1>2, <1>6 DEF InTurn
<1>9. Bindings'
  BY <1>2, <1>3, <1>5, <1>6 DEF Bindings, Whole, Shares
<1>10. Probes'
  <2>1. ASSUME probe.on PROVE Shares(probe.runtime)'
    <3>1. /\ probe.runtime.set = serving.set /\ probe.runtime.pool = serving.pool /\ Whole(probe.runtime)
          /\ probe.runtime \in Held /\ probe.runtime \in RuntimeStates /\ serving.spec # NoSpec
      BY <1>2, <1>3, <2>1, ProbeParts DEF Probes, UpstreamTypes, WantsProbes
    <3>2. serving # NoRuntime
      BY <1>3, <3>1, HeldParts
    <3>3. SUFFICES ASSUME probe.runtime # NoRuntime, r # NoRuntime, Transport(probe.runtime.spec) = Transport(r.spec)
                   PROVE  /\ probe.runtime.set = r.set
                          /\ probe.runtime.material = r.material => probe.runtime.pool = r.pool
      BY <1>2 DEF Shares
    <3>4. Transport(r.spec) = Transport(serving.spec) /\ probe.runtime.material = serving.material
      BY <1>3, <3>1, <3>2, <3>3 DEF Whole
    <3> QED
      BY <1>3, <3>1, <3>2, <3>3, <3>4 DEF Shares
  <2> QED
    BY <1>2, <1>3, <2>1 DEF Probes, Whole
<1>11. Resolves'
  BY <1>2, <1>3 DEF Resolves, Whole
<1> QED
  BY <1>7, <1>8, <1>9, <1>10, <1>11 DEF UInv

LEMMA FollowStep == ASSUME UInv, Follow PROVE UInv'
<1>1. /\ act = "census" /\ act' = "resolvers"
      /\ UNCHANGED <<generation, serving, registry, limits, cand, closed, resolver, probe, request, dns, files>>
  BY DEF Follow, bound, workers, world
<1>2. UpstreamTypes' /\ InTurn' /\ Bindings'
  BY <1>1 DEF UInv, UpstreamTypes, InTurn, Bindings, Whole, Shares
<1>3. Probes' /\ Resolves'
  BY <1>1, ProbesSame, ResolvesSame DEF UInv
<1> QED
  BY <1>2, <1>3 DEF UInv

LEMMA ReconcileResolversStep == ASSUME UInv, ReconcileResolvers PROVE UInv'
<1>1. /\ act = "resolvers" /\ act' = "probes" /\ limits' = KeptPools(limits, Runtimes')
      /\ resolver' = Reconciled(resolver, WantsNames, IF WantsNames THEN ResolverIdentity ELSE <<>>)
      /\ UNCHANGED <<generation, serving, registry, cand, closed, probe, request, dns, files>>
  BY DEF ReconcileResolvers, Frees, world
<1>2. /\ limits' \in [Objects -> Policies]
      /\ serving # NoRuntime => limits'[serving.pool.id] = Policy(serving.spec)
  BY <1>1, LimitsKept
<1>3. /\ resolver \in ResolverStates /\ Resolves /\ Whole(serving) /\ serving \in Held /\ ~closed
  BY <1>1 DEF UInv, UpstreamTypes, Bindings, InTurn
<1>4. WantsNames \in BOOLEAN
  BY DEF WantsNames
<1>5. \/ ~WantsNames /\ resolver' = NoWorker
      \/ WantsNames /\ resolver' = resolver /\ resolver.on /\ resolver.identity = ResolverIdentity
      \/ WantsNames /\ resolver' = [on |-> TRUE, identity |-> ResolverIdentity, runtime |-> serving,
                                    pc |-> "working", answer |-> 0]
  <2>1. CASE ~WantsNames
    BY <1>1, <2>1 DEF Reconciled
  <2>2. CASE WantsNames /\ resolver.on /\ resolver.identity = ResolverIdentity
    BY <1>1, <2>2 DEF Reconciled
  <2>3. CASE WantsNames /\ ~(resolver.on /\ resolver.identity = ResolverIdentity)
    BY <1>1, <2>3 DEF Reconciled
  <2> QED
    BY <2>1, <2>2, <2>3
<1>6. WantsNames' <=> WantsNames
  BY <1>1 DEF WantsNames
<1>7. /\ resolver' \in ResolverStates /\ (resolver'.on <=> WantsNames)
      /\ WantsNames =>
           /\ Whole(resolver'.runtime)
           /\ resolver'.identity = <<resolver'.runtime.spec.targets, resolver'.runtime.spec.lookup>>
           /\ resolver'.runtime.spec.targets = serving.spec.targets
           /\ resolver'.runtime.spec.lookup = serving.spec.lookup
  <2>1. CASE ~WantsNames
    BY <1>5, <2>1, NothingHeld
  <2>2. CASE WantsNames /\ resolver' = resolver /\ resolver.on /\ resolver.identity = ResolverIdentity
    BY <1>3, <2>2 DEF Resolves, ResolverIdentity
  <2>3. CASE WantsNames /\ resolver' = [on |-> TRUE, identity |-> ResolverIdentity, runtime |-> serving,
                                        pc |-> "working", answer |-> 0]
    <3>1. serving # NoRuntime
      BY <1>3, <2>3, HeldParts DEF WantsNames
    <3>2. serving \in RuntimeStates /\ ResolverIdentity \in Targets \X Lookups
      BY <1>3, <3>1, HeldParts DEF Held, ResolverIdentity
    <3>3. resolver' \in WorkerStates(Targets \X Lookups)
      BY <2>3, <3>2 DEF WorkerStates
    <3>4. resolver'.on = TRUE /\ resolver'.runtime = serving /\ resolver'.identity = ResolverIdentity
      BY <2>3
    <3> QED
      BY <1>3, <2>3, <3>3, <3>4 DEF ResolverStates, ResolverIdentity
  <2> QED
    BY <1>5, <2>1, <2>2, <2>3
<1>8. UpstreamTypes'
  BY <1>1, <1>2, <1>7 DEF UInv, UpstreamTypes
<1>9. InTurn'
  BY <1>1, <1>3 DEF UInv, InTurn
<1>10. Bindings'
  BY <1>1, <1>2 DEF UInv, Bindings, Whole, Shares
<1>11. Probes'
  BY <1>1, ProbesSame DEF UInv
<1>12. Resolves'
  BY <1>1, <1>6, <1>7 DEF Resolves, Whole
<1> QED
  BY <1>8, <1>9, <1>10, <1>11, <1>12 DEF UInv

LEMMA ReconcileProbesStep == ASSUME UInv, ReconcileProbes PROVE UInv'
<1>1. /\ act = "probes" /\ act' = "idle" /\ limits' = KeptPools(limits, Runtimes')
      /\ probe' = Reconciled(probe, WantsProbes, IF WantsProbes THEN ProbeIdentity ELSE <<>>)
      /\ UNCHANGED <<generation, serving, registry, cand, closed, resolver, request, dns, files>>
  BY DEF ReconcileProbes, Frees, world
<1>2. /\ limits' \in [Objects -> Policies]
      /\ serving # NoRuntime => limits'[serving.pool.id] = Policy(serving.spec)
  BY <1>1, LimitsKept
<1>3. /\ probe \in ProbeStates /\ Probes /\ Whole(serving) /\ serving \in Held /\ ~closed /\ ~cand.ready
  BY <1>1 DEF UInv, UpstreamTypes, Bindings, InTurn
<1>4. WantsProbes \in BOOLEAN
  BY DEF WantsProbes
<1>5. \/ ~WantsProbes /\ probe' = NoWorker
      \/ WantsProbes /\ probe' = probe /\ probe.on /\ probe.identity = ProbeIdentity
      \/ WantsProbes /\ probe' = [on |-> TRUE, identity |-> ProbeIdentity, runtime |-> serving,
                                    pc |-> "working", answer |-> 0]
  <2>1. CASE ~WantsProbes
    BY <1>1, <2>1 DEF Reconciled
  <2>2. CASE WantsProbes /\ probe.on /\ probe.identity = ProbeIdentity
    BY <1>1, <2>2 DEF Reconciled
  <2>3. CASE WantsProbes /\ ~(probe.on /\ probe.identity = ProbeIdentity)
    BY <1>1, <2>3 DEF Reconciled
  <2> QED
    BY <2>1, <2>2, <2>3
<1>6. WantsProbes' <=> WantsProbes
  BY <1>1 DEF WantsProbes
<1>7. /\ probe' \in ProbeStates /\ (probe'.on <=> WantsProbes)
      /\ WantsProbes =>
           /\ Whole(probe'.runtime)
           /\ probe'.identity = <<probe'.runtime.spec.targets, probe'.runtime.spec.health,
                                  probe'.runtime.spec.wire, probe'.runtime.material>>
           /\ probe'.runtime.set = serving.set /\ probe'.runtime.pool = serving.pool
           /\ probe'.runtime.spec.health = serving.spec.health
  <2>1. CASE ~WantsProbes
    BY <1>5, <2>1, NothingHeld
  <2>2. CASE WantsProbes /\ probe' = probe /\ probe.on /\ probe.identity = ProbeIdentity
    <3>1. serving # NoRuntime
      BY <1>3, <2>2, HeldParts DEF WantsProbes
    <3>2. /\ Whole(probe.runtime) /\ Shares(probe.runtime) /\ probe.runtime \in RuntimeStates
          /\ probe.runtime.spec.targets = serving.spec.targets /\ probe.runtime.spec.health = serving.spec.health
          /\ probe.runtime.spec.wire = serving.spec.wire /\ probe.runtime.material = serving.material
      BY <1>3, <2>2, ProbeParts DEF Probes, ProbeIdentity
    <3>3. probe.runtime # NoRuntime
      <4>1. probe.runtime.spec \in Specs /\ probe.runtime.set \in SetRefs
        BY <3>2 DEF RuntimeStates
      <4>2. probe.runtime.set.id # 0
        BY <4>1, UpstreamsAssumption DEF SetRefs
      <4> QED
        BY <4>2 DEF NoRuntime, NoSet
    <3>4. probe.runtime.set = serving.set /\ probe.runtime.pool = serving.pool
      BY <3>1, <3>2, <3>3 DEF Shares, Transport
    <3> QED
      BY <1>3, <2>2, <3>2, <3>4 DEF Probes
  <2>3. CASE WantsProbes /\ probe' = [on |-> TRUE, identity |-> ProbeIdentity, runtime |-> serving,
                                      pc |-> "working", answer |-> 0]
    <3>1. serving # NoRuntime
      BY <1>3, <2>3, HeldParts DEF WantsProbes
    <3>2. /\ serving \in RuntimeStates
          /\ ProbeIdentity \in Targets \X (Checks \cup {NoCheck}) \X Wires \X Mats
      BY <1>3, <3>1, HeldParts DEF Held, ProbeIdentity
    <3>3. probe' \in WorkerStates(Targets \X (Checks \cup {NoCheck}) \X Wires \X Mats)
      BY <2>3, <3>2 DEF WorkerStates
    <3>4. probe'.on = TRUE /\ probe'.runtime = serving /\ probe'.identity = ProbeIdentity
      BY <2>3
    <3> QED
      BY <1>3, <2>3, <3>3, <3>4 DEF ProbeStates, ProbeIdentity
  <2> QED
    BY <1>5, <2>1, <2>2, <2>3
<1>8. UpstreamTypes'
  BY <1>1, <1>2, <1>7 DEF UInv, UpstreamTypes
<1>9. InTurn'
  BY <1>1, <1>3 DEF UInv, InTurn
<1>10. Bindings'
  BY <1>1, <1>2 DEF UInv, Bindings, Whole, Shares
<1>11. Resolves'
  BY <1>1, ResolvesSame DEF UInv
<1>12. Probes'
  <2>1. ASSUME WantsProbes PROVE Shares(probe.runtime)'
    BY <1>1, <1>3, <1>7, <2>1 DEF Shares
  <2> QED
    BY <1>1, <1>6, <1>7, <2>1 DEF Probes, Whole
<1> QED
  BY <1>8, <1>9, <1>10, <1>11, <1>12 DEF UInv

LEMMA ShutdownStep == ASSUME UInv, Shutdown PROVE UInv'
<1>1. /\ act = "idle" /\ ~cand.ready /\ closed' = TRUE /\ resolver' = NoWorker /\ probe' = NoWorker
      /\ limits' = KeptPools(limits, Runtimes')
      /\ UNCHANGED <<generation, serving, registry, cand, act, request, dns, files>>
  BY DEF Shutdown, Frees, world
<1>2. /\ limits' \in [Objects -> Policies]
      /\ serving # NoRuntime => limits'[serving.pool.id] = Policy(serving.spec)
  BY <1>1, LimitsKept
<1>3. /\ resolver' \in ResolverStates /\ probe' \in ProbeStates /\ resolver'.on = FALSE /\ probe'.on = FALSE
  BY <1>1, NothingHeld
<1>4. UpstreamTypes' /\ InTurn'
  BY <1>1, <1>2, <1>3 DEF UInv, UpstreamTypes, InTurn
<1>5. Bindings'
  BY <1>1, <1>2 DEF UInv, Bindings, Whole, Shares
<1>6. Probes' /\ Resolves'
  BY <1>1, <1>3 DEF Probes, Resolves
<1> QED
  BY <1>4, <1>5, <1>6 DEF UInv

LEMMA ResolverSteps == ASSUME UInv, Answers \/ NoAnswer \/ Panics \/ Wakes \/ Records PROVE UInv'
<1>1. PICK pc \in {"working", "answered", "asleep", "backoff"}, answer \in Addresses \cup {0} :
        /\ resolver.on /\ resolver' = [resolver EXCEPT !.pc = pc, !.answer = answer]
        /\ UNCHANGED <<bound, cand, act, closed, probe, request, world>>
  BY DEF Answers, NoAnswer, Panics, Wakes, Records, ResolverGoes, UInv, UpstreamTypes
<1>2. UNCHANGED <<generation, serving, registry, limits, cand, act, closed, probe, request, dns, files>>
  BY <1>1 DEF bound, world
<1>3. resolver \in WorkerStates(Targets \X Lookups)
  BY <1>1, ResolverParts DEF UInv, UpstreamTypes, ResolverStates
<1>4. /\ resolver' \in WorkerStates(Targets \X Lookups) /\ resolver'.runtime = resolver.runtime
      /\ resolver'.identity = resolver.identity
  BY <1>1, <1>3 DEF WorkerStates
<1>5. resolver'.on = TRUE /\ resolver.on = TRUE
  BY <1>3, <1>4 DEF WorkerStates
<1>6. UpstreamTypes'
  BY <1>2, <1>4 DEF UInv, UpstreamTypes, ResolverStates
<1>7. InTurn'
  BY <1>2, <1>5 DEF UInv, InTurn
<1>8. Bindings'
  BY <1>2 DEF UInv, Bindings, Whole, Shares
<1>9. Probes'
  BY <1>2, ProbesSame DEF UInv
<1>10. Resolves'
  BY <1>2, <1>4, <1>5 DEF UInv, Resolves, Whole, WantsNames
<1> QED
  BY <1>6, <1>7, <1>8, <1>9, <1>10 DEF UInv

LEMMA UpstreamStart == Init => UInv
<1> SUFFICES ASSUME Init PROVE UInv
  OBVIOUS
<1>1. /\ serving = NoRuntime /\ cand = NoCand /\ request = NoRequest /\ resolver = NoWorker /\ probe = NoWorker
      /\ act = "idle" /\ closed = FALSE /\ registry = [set |-> NoSet, pool |-> NoPool]
  BY DEF Init
<1>2. UpstreamTypes
  BY <1>1, NothingHeld DEF Init, UpstreamTypes, Policies
<1>3. InTurn
  BY <1>1, NothingHeld DEF InTurn
<1>4. Bindings
  <2>1. NoRuntime.set = NoSet /\ NoRuntime.pool = NoPool
    BY DEF NoRuntime
  <2> QED
    BY <1>1, <2>1, NothingHeld DEF Bindings, Shares
<1>5. serving.spec = NoSpec /\ probe.on = FALSE /\ resolver.on = FALSE
  BY <1>1, NothingHeld DEF NoRuntime
<1>6. Probes /\ Resolves
  BY <1>5 DEF Probes, Resolves, WantsProbes, WantsNames
<1> QED
  BY <1>2, <1>3, <1>4, <1>6 DEF UInv

LEMMA UpstreamKept == UInv /\ [Next]_vars => UInv'
<1> SUFFICES ASSUME UInv, [Next]_vars PROVE UInv'
  OBVIOUS
<1>1. CASE UNCHANGED vars
  <2>1. UNCHANGED <<generation, serving, registry, limits, cand, act, closed, resolver, probe, request, dns, files>>
    BY <1>1 DEF vars, bound, workers, world
  <2>2. UpstreamTypes' /\ InTurn' /\ Bindings'
    BY <2>1 DEF UInv, UpstreamTypes, InTurn, Bindings, Whole, Shares
  <2>3. Probes' /\ Resolves'
    BY <2>1, ProbesSame, ResolvesSame DEF UInv
  <2> QED
    BY <2>2, <2>3 DEF UInv
<1>2. CASE Next
  BY <1>2, StageStep, StageWithoutStep, DiscardStep, PublishStep, FollowStep, ReconcileResolversStep,
     ReconcileProbesStep, ShutdownStep, ResolverSteps, RequestSteps DEF Next
<1> QED
  BY <1>1, <1>2

LEMMA UpstreamAlways == Spec => []UInv
  BY UpstreamStart, UpstreamKept, PTL DEF Spec

\* What registry.rs, upstream.rs and supervisor.rs hold together across reloads:
\* requests, candidates and workers use the sets and pools made for their own
\* plan, the limits in force are those of the plan in use, and once an activation
\* has ended the workers are the ones that plan asks for.
THEOREM PlanIsFollowed == Spec => []PlanFollowed
<1>1. UInv => PlanFollowed
  <2> SUFFICES ASSUME UInv PROVE PlanFollowed
    OBVIOUS
  <2>1. probe.on \in BOOLEAN /\ resolver.on \in BOOLEAN
    BY ProbeParts, ResolverParts DEF UInv, UpstreamTypes
  <2>2. WorkersMatchPlan
    <3>1. WantsProbes \in BOOLEAN /\ WantsNames \in BOOLEAN
      BY DEF WantsProbes, WantsNames
    <3>2. ASSUME act = "idle", ~closed PROVE probe.on = WantsProbes /\ resolver.on = WantsNames
      <4>1. (probe.on <=> WantsProbes) /\ (resolver.on <=> WantsNames)
        BY <3>2 DEF UInv, Probes, Resolves
      <4> QED
        BY <2>1, <3>1, <4>1, Zenon
    <3> QED
      BY <3>2 DEF UInv, InTurn, Probes, Resolves, WorkersMatchPlan
  <2>3. \A r \in Runtimes : r \in Held /\ Whole(r)
    BY ProbeParts, ResolverParts DEF UInv, UpstreamTypes, Bindings, Probes, Resolves, Runtimes
  <2>4. ASSUME NEW r \in Runtimes, r.spec # NoSpec
        PROVE  /\ r.set.compat = Transport(r.spec)
               /\ SubSeq(r.pool.compat, 1, 2) = Transport(r.spec)
               /\ r.pool.material = r.material
    <3>1. r # NoRuntime
      BY <2>4 DEF NoRuntime
    <3>2. r.spec \in Specs /\ r.material \in Mats
      BY <2>3, <3>1, HeldParts
    <3>3. /\ r.set.compat = Transport(r.spec) /\ r.pool.compat = PoolCompat(r.spec, r.material)
          /\ r.pool.material = r.material
      BY <2>3, <3>1 DEF Whole
    <3>4. SubSeq(PoolCompat(r.spec, r.material), 1, 2) = Transport(r.spec)
      BY <3>2, CompatParts, TransportOf
    <3> QED
      BY <3>3, <3>4
  <2>5. serving.spec # NoSpec => limits[serving.pool.id] = Policy(serving.spec)
    BY DEF UInv, Bindings, NoRuntime
  <2> QED
    BY <2>2, <2>4, <2>5 DEF PlanFollowed, OwnTransport
<1> QED
  BY <1>1, UpstreamAlways, PTL

\* StateRegistry::bind keeps verdicts and connections over every reload that
\* changes neither transport nor material.
THEOREM ReloadsKeep == Spec => CompatibleKept
<1> DEFINE A == /\ generation' # generation
                /\ serving.spec # NoSpec /\ serving'.spec # NoSpec
                /\ Transport(serving'.spec) = Transport(serving.spec)
                => /\ serving'.set = serving.set
                   /\ serving'.material = serving.material => serving'.pool = serving.pool
<1>1. ASSUME UInv, Next PROVE A
  <2>1. CASE Publish
    <3>1. serving' = cand.runtime /\ Shares(cand.runtime)
      BY <1>1, <2>1 DEF Publish, UInv, Bindings
    <3> QED
      BY <3>1 DEF Shares, NoRuntime
  <2>2. CASE ~Publish
    <3>1. generation' = generation
      BY <1>1, <2>2 DEF Next, Stage, StageWithout, Discard, Follow, ReconcileResolvers, ReconcileProbes, Shutdown,
         Answers, NoAnswer, Panics, Wakes, Records, ResolverGoes, Arrives, LooksUp, FoundOnDemand, GivesUp,
         RequestGoes, NameMoves, FilesReplaced, bound
    <3> QED
      BY <3>1
  <2> QED
    BY <2>1, <2>2
<1>2. UInv /\ [Next]_vars => [A]_vars
  BY <1>1
<1> QED
  BY <1>2, UpstreamAlways, PTL DEF Spec, CompatibleKept

=============================================================================
