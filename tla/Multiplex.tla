----------------------------- MODULE Multiplex -----------------------------
(***************************************************************************)
(* One endpoint of an HTTP/2 connection pool (pool/multiplex.rs, demand.rs *)
(* and the driver of dial.rs): physical connections and the streams that   *)
(* requests reserve on them have bounds of their own, and a request that   *)
(* finds neither a stream nor room for a connection sleeps until it is     *)
(* notified.  Reloads, the resolver and the peers' SETTINGS and GOAWAY     *)
(* change what is available at any moment.                                 *)
(*                                                                         *)
(* An entry is a connection [id, at, streams, used, retired, open, age,    *)
(* limit, busy, skipped, seen, raced]: `limit' is the peer's stream        *)
(* limit, `busy' says that the driver polls the connection, so that its    *)
(* limit cannot be read, `skipped' that somebody tried, `seen' is the      *)
(* limit the driver last reported, and `age' is "cold" past the idle time  *)
(* and "old" past the lifetime.  `raced' is history: a caller has read a   *)
(* limit that the driver never reported.  An address is a TCP address: a   *)
(* Unix socket has none, and no answer of the resolver retires it.         *)
(***************************************************************************)
EXTENDS Collections

CONSTANTS StreamCallers,  \* requests that reserve a stream
          StreamConfigs,  \* [max, idle, waiters, streams, per] a reload may give
          StreamFirst,    \* the configuration the pool is made with
          StreamAnswers,  \* sets of addresses the name may resolve to
          StreamStart,    \* the first one
          PeerLimits,     \* stream limits a peer may announce
          PeerLimit,      \* the one it opens a connection with
          ConnIds,        \* identities of connections
          StreamUpdates   \* bound on reloads, answers and changes at peers

ASSUME MultiplexAssumption ==
  /\ StreamFirst \in StreamConfigs
  /\ \A c \in StreamConfigs :
       /\ c.max \in Nat /\ c.idle \in Nat /\ c.waiters \in Nat
       /\ c.streams \in Nat /\ c.per \in Nat
  /\ PeerLimits \subseteq Nat /\ PeerLimit \in PeerLimits
  /\ StreamStart \in StreamAnswers /\ ConnIds \subseteq Nat

VARIABLES mux,      \* State of the endpoint's Multiplex, and its waiting count
          streamer, \* of each caller: where checkout_h2 or its stream is
          names,    \* Endpoint.addresses, and whether the pool has been told of them
          changes   \* reloads, answers and peers' changes so far

muxVars == <<mux, streamer, names, changes>>

NoStream == [pc |-> "away", conn |-> 0, order |-> {}, dials |-> 0, most |-> 0, woken |-> FALSE]
Unlisted == {"any"}  \* State.live before the first update

MuxInit ==
  /\ mux = [config |-> StreamFirst, conns |-> <<>>, connecting |-> 0, streams |-> 0,
            live |-> Unlisted, closed |-> FALSE, waiting |-> 0]
  /\ streamer = [c \in StreamCallers |-> NoStream]
  /\ names = [set |-> StreamStart, told |-> TRUE]
  /\ changes = 0

StreamersAt(pcs) == {c \in StreamCallers : streamer[c].pc \in pcs}
Low(a, b) == IF a < b THEN a ELSE b
Changes == changes < StreamUpdates /\ changes' = changes + 1

\* Notify::notify_waiters wakes whoever has registered.
NotifyWaiters(callers) ==
  [c \in StreamCallers |->
     IF callers[c].pc \in {"armed", "asleep"} THEN [callers[c] EXCEPT !.woken = TRUE] ELSE callers[c]]

-----------------------------------------------------------------------------
(* State::prune.                                                           *)

Revoked(s, e) == s.live # Unlisted /\ e.at \notin s.live

\* A connection that is used, or that nobody waits for, may be too old.
Prunable(s, e, trim) == e.used \/ (trim /\ s.waiting = 0)

RetiredBy(s, i, trim) ==
  LET e == s.conns[i]
  IN \/ e.retired
     \/ s.closed
     \/ Revoked(s, e)
     \/ i > s.config.max
     \/ ~e.open
     \/ Prunable(s, e, trim) /\ (e.age = "old" \/ (e.age = "cold" /\ e.streams = 0))
Marked(s, trim) == [i \in DOMAIN s.conns |-> [s.conns[i] EXCEPT !.retired = RetiredBy(s, i, trim)]]

\* A fresh connection is kept for the waiters it was dialled for.
Spare(s, e) == e.streams = 0 /\ ~e.retired /\ (e.used \/ s.waiting = 0)
SparesUpTo(s, marked, i) == Cardinality({j \in 1..i : Spare(s, marked[j])})
Stays(s, marked, trim) ==
  {i \in DOMAIN marked :
     \/ marked[i].streams # 0
     \/ /\ ~marked[i].retired
        /\ Spare(s, marked[i]) /\ trim => SparesUpTo(s, marked, i) <= s.config.idle}

PruneActive(s, trim) ==  \* mutant: a retired connection goes with its streams
  [s EXCEPT !.conns = Retain(s.conns, {i \in DOMAIN s.conns : ~RetiredBy(s, i, trim)})]

Prune(s, trim) ==
  [s EXCEPT !.conns = Retain(Marked(s, trim), Stays(s, Marked(s, trim), trim))]

-----------------------------------------------------------------------------
(* checkout and checkout_h2.                                               *)

\* Whoever finds the queue full has joined it, and leaves it with its waiting
\* guard like the others.  Each round of the loop registers for notifications
\* (Notified::enable) before it looks at the state: the caller is "armed".
EnterQueue(c) ==
  /\ streamer[c].pc = "away"
  /\ mux' = [mux EXCEPT !.waiting = mux.waiting + 1]
  /\ streamer' = [streamer EXCEPT ![c] =
                   [NoStream EXCEPT !.pc = IF mux.waiting + 1 <= mux.config.waiters THEN "armed" ELSE "refused",
                                    !.most = mux.config.max]]
  /\ UNCHANGED <<names, changes>>

\* Observation::sample reads nothing while the driver has the connection.
StreamLimit(e) == IF e.busy THEN 0 ELSE e.limit
TakesBlind(s, e) == ~e.retired /\ e.open /\ e.streams < s.config.per  \* mutant: the peer's limit is not asked
Takes(s, e) == ~e.retired /\ e.open /\ e.streams < Low(s.config.per, StreamLimit(e))

\* Looking for a connection reads the limit of each one up to the first that serves.
Sampled(s, asked) ==
  [i \in DOMAIN s.conns |->
     IF i <= asked /\ ~s.conns[i].retired /\ s.conns[i].open
     THEN [s.conns[i] EXCEPT !.skipped = s.conns[i].busy,
                             !.raced = ~s.conns[i].busy /\ s.conns[i].limit # s.conns[i].seen]
     ELSE s.conns[i]]

\* Multiplex::next, after its prune.
Serving(s) == {i \in DOMAIN s.conns : Takes(s, s.conns[i])}
FirstServing(s) == CHOOSE i \in Serving(s) : \A j \in Serving(s) : i <= j
Room(s) == Len(s.conns) + s.connecting < s.config.max
Turn(s) ==
  CASE s.closed -> "closed"
    [] ~s.closed /\ s.streams >= s.config.streams -> "wait"
    [] ~s.closed /\ s.streams < s.config.streams /\ Serving(s) # {} -> "lease"
    [] ~s.closed /\ s.streams < s.config.streams /\ Serving(s) = {} -> IF Room(s) THEN "dial" ELSE "wait"
LookedAt(s) ==
  IF s.closed \/ s.streams >= s.config.streams THEN s
  ELSE [s EXCEPT !.conns = Sampled(s, IF Serving(s) = {} THEN Len(s.conns) ELSE FirstServing(s))]

Ready == Prune(mux, FALSE)

\* One stream more on a connection; its idle time starts again when the last is over.
Lent(e) ==
  [e EXCEPT !.streams = e.streams + 1, !.used = TRUE, !.age = IF e.age = "cold" THEN "new" ELSE e.age]
NextLease(c) ==
  LET s == LookedAt(Ready)
      i == FirstServing(Ready)
  IN /\ streamer[c].pc = "armed"
     /\ Turn(Ready) = "lease"
     /\ mux' = [s EXCEPT !.streams = s.streams + 1, !.conns = [s.conns EXCEPT ![i] = Lent(s.conns[i])]]
     /\ streamer' = [streamer EXCEPT ![c] = [NoStream EXCEPT !.pc = "served", !.conn = s.conns[i].id]]
     /\ UNCHANGED <<names, changes>>

\* The reservation of a dial.  One caller dials at most as often as the pool had
\* room for connections when it came, and only while its time for connecting
\* lasts; a reservation it does not use is dropped.
NextDial(c) ==
  LET s == LookedAt(Ready)
  IN /\ streamer[c].pc = "armed"
     /\ Turn(Ready) = "dial"
     /\ \/ /\ streamer[c].dials < streamer[c].most
           /\ mux' = [s EXCEPT !.connecting = s.connecting + 1]
           /\ streamer' = [streamer EXCEPT ![c].pc = "dialing", ![c].order = names.set,
                                           ![c].dials = @ + 1, ![c].woken = FALSE]
        \/ /\ streamer[c].dials >= streamer[c].most \/ streamer[c].dials > 0
           /\ mux' = s
           /\ streamer' = NotifyWaiters([streamer EXCEPT ![c] = [NoStream EXCEPT !.pc = "refused"]])
     /\ UNCHANGED <<names, changes>>

NextWait(c) ==
  /\ streamer[c].pc = "armed"
  /\ Turn(Ready) = "wait"
  /\ mux' = LookedAt(Ready)
  /\ streamer' = [streamer EXCEPT ![c].pc = "asleep"]
  /\ UNCHANGED <<names, changes>>

\* Next::Closed.
NextClosed(c) ==
  /\ streamer[c].pc = "armed"
  /\ Turn(Ready) = "closed"
  /\ mux' = LookedAt(Ready)
  /\ streamer' = [streamer EXCEPT ![c] = [NoStream EXCEPT !.pc = "refused"]]
  /\ UNCHANGED <<names, changes>>

StreamerWakes(c) ==
  /\ streamer[c].pc = "asleep"
  /\ streamer[c].woken
  /\ streamer' = [streamer EXCEPT ![c].pc = "armed", ![c].woken = FALSE]
  /\ UNCHANGED <<mux, names, changes>>

\* The waiting guard goes with the checkout, after the queue timeout, an error or
\* a cancelled request as after a lease: the count first, then finish_wait trims
\* what was kept for it and lets the others look again.
LeavesQueue(c) ==
  /\ streamer[c].pc \in {"asleep", "refused", "served"}
  /\ mux' = [mux EXCEPT !.waiting = mux.waiting - 1]
  /\ streamer' = [streamer EXCEPT ![c] =
                   [NoStream EXCEPT !.pc = IF streamer[c].pc = "served" THEN "lent" ELSE "left",
                                    !.conn = streamer[c].conn]]
  /\ UNCHANGED <<names, changes>>

FinishWait(c) ==
  /\ streamer[c].pc \in {"left", "lent"}
  /\ mux' = Prune(mux, TRUE)
  /\ streamer' = NotifyWaiters([streamer EXCEPT ![c].pc = IF streamer[c].pc = "lent" THEN "streaming" ELSE "away"])
  /\ UNCHANGED <<names, changes>>

-----------------------------------------------------------------------------
(* Dial and Stream.                                                        *)

ConnsOf(s) == {s.conns[i].id : i \in DOMAIN s.conns}
FreshConn ==
  LET unused == ConnIds \ ConnsOf(mux)
  IN CHOOSE id \in unused : \A other \in unused : id <= other

\* The driver runs from the handshake on: it may have reported the limit already.
Entry(id, a, seen, busy) ==
  [id |-> id, at |-> a, streams |-> 0, used |-> FALSE, retired |-> FALSE, open |-> TRUE,
   age |-> "new", limit |-> PeerLimit, busy |-> busy, skipped |-> FALSE, seen |-> seen,
   raced |-> FALSE]

\* Dial::finish: what is no longer wanted is not registered.
FinishDial(c, a, id, seen, busy) ==
  /\ streamer[c].pc = "dialing"
  /\ a \in streamer[c].order
  /\ id \in ConnIds \ ConnsOf(mux)
  /\ mux' = [mux EXCEPT !.connecting = mux.connecting - 1,
                        !.conns = IF ~mux.closed /\ ~Revoked(mux, [at |-> a]) /\ Len(mux.conns) < mux.config.max
                                  THEN Append(mux.conns, Entry(id, a, seen, busy)) ELSE mux.conns]
  /\ streamer' = [NotifyWaiters(streamer) EXCEPT ![c].pc = "armed", ![c].order = {}]
  /\ UNCHANGED <<names, changes>>

\* Dial::drop.
FailDial(c) ==
  /\ streamer[c].pc = "dialing"
  /\ mux' = [mux EXCEPT !.connecting = mux.connecting - 1]
  /\ streamer' = NotifyWaiters([streamer EXCEPT ![c] = [NoStream EXCEPT !.pc = "refused"]])
  /\ UNCHANGED <<names, changes>>

Registered(id) == \E i \in DOMAIN mux.conns : mux.conns[i].id = id
IndexOf(id) == CHOOSE i \in DOMAIN mux.conns : mux.conns[i].id = id
WithConn(i, e) == [mux EXCEPT !.conns = [mux.conns EXCEPT ![i] = e]]
Fewer(e) == [e EXCEPT !.streams = e.streams - 1]

\* Stream::drop, when both the response and the upload are done with it.
DropStream(c) ==
  LET i == IndexOf(streamer[c].conn)
  IN /\ streamer[c].pc = "streaming"
     /\ Registered(streamer[c].conn)
     /\ mux' = Prune([WithConn(i, Fewer(mux.conns[i])) EXCEPT !.streams = mux.streams - 1], TRUE)
     /\ streamer' = NotifyWaiters([streamer EXCEPT ![c] = NoStream])
     /\ UNCHANGED <<names, changes>>

\* Stream::poison: only a connection that is closed is retired for it.
Poison(c) ==
  LET i == IndexOf(streamer[c].conn)
  IN /\ streamer[c].pc = "streaming"
     /\ Registered(streamer[c].conn)
     /\ ~mux.conns[i].open
     /\ mux' = WithConn(i, [mux.conns[i] EXCEPT !.retired = TRUE])
     /\ streamer' = NotifyWaiters(streamer)
     /\ UNCHANGED <<names, changes>>

-----------------------------------------------------------------------------
(* The driver of a connection, and its peer.                               *)

\* The driver polls when the connection has work, and while somebody waits when
\* the observer's tick is due.
PollStarts(i) ==
  /\ mux.conns[i].open /\ ~mux.conns[i].busy
  /\ mux' = WithConn(i, [mux.conns[i] EXCEPT !.busy = TRUE, !.skipped = FALSE])
  /\ UNCHANGED <<streamer, names, changes>>

\* Observation::restore tells whether a reader was turned away meanwhile; they
\* are woken for that, or for a limit that is not the one last reported.
Reports(e) == e.skipped \/ e.seen # e.limit
ReportsQuiet(e) == e.seen # e.limit  \* mutant: a skipped reading is not reported
PollEnds(i) ==
  LET e == mux.conns[i]
  IN /\ e.open /\ e.busy
     /\ mux' = WithConn(i, [e EXCEPT !.busy = FALSE, !.skipped = FALSE, !.seen = e.limit,
                                     !.raced = e.raced /\ ~Reports(e)])
     /\ streamer' = IF Reports(e) THEN NotifyWaiters(streamer) ELSE streamer
     /\ UNCHANGED <<names, changes>>

\* The poll ends with the connection: the dispatcher closes, then all are told.
Closes(i) ==
  /\ mux.conns[i].open
  /\ Changes
  /\ mux' = WithConn(i, [mux.conns[i] EXCEPT !.open = FALSE, !.busy = FALSE, !.seen = 0, !.limit = 0])
  /\ streamer' = NotifyWaiters(streamer)
  /\ UNCHANGED names

Settings(i, limit) ==
  /\ mux.conns[i].open /\ mux.conns[i].limit # limit
  /\ Changes
  /\ mux' = WithConn(i, [mux.conns[i] EXCEPT !.limit = limit])
  /\ UNCHANGED <<streamer, names>>

Ages(i) ==
  /\ mux.conns[i].age # "old"
  /\ Changes
  /\ mux' = WithConn(i, [mux.conns[i] EXCEPT !.age =
                          IF mux.conns[i].age = "new" /\ mux.conns[i].streams = 0 THEN "cold" ELSE "old"])
  /\ UNCHANGED <<streamer, names>>

-----------------------------------------------------------------------------
(* Reload, resolution and drain.                                           *)

AdoptStreams(config) ==
  /\ config # mux.config
  /\ Changes
  /\ mux' = Prune([mux EXCEPT !.config = config], TRUE)
  /\ streamer' = NotifyWaiters(streamer)
  /\ UNCHANGED names

\* The resolver sets the addresses of the endpoint, then tells the pool of them.
NewNames(answer) ==
  /\ names.told /\ answer # names.set
  /\ Changes
  /\ names' = [set |-> answer, told |-> FALSE]
  /\ UNCHANGED <<mux, streamer>>
RetireStreams ==
  /\ ~names.told
  /\ names' = [set |-> names.set, told |-> TRUE]
  /\ mux' = Prune([mux EXCEPT !.live = names.set], TRUE)
  /\ streamer' = NotifyWaiters(streamer)
  /\ UNCHANGED changes

\* A caller may have passed the test of the draining flag before it was set.
DrainStreams ==
  /\ ~mux.closed
  /\ Changes
  /\ mux' = Prune([mux EXCEPT !.closed = TRUE], TRUE)
  /\ streamer' = NotifyWaiters(streamer)
  /\ UNCHANGED names

StreamSteps(c) ==
  \/ NextLease(c) \/ NextDial(c) \/ NextWait(c) \/ NextClosed(c) \/ StreamerWakes(c)
  \/ \E a \in UNION StreamAnswers, seen \in {0, PeerLimit}, busy \in BOOLEAN :
       FinishDial(c, a, FreshConn, seen, busy)
  \/ FailDial(c) \/ LeavesQueue(c) \/ FinishWait(c) \/ DropStream(c) \/ Poison(c)

MuxNext ==
  \/ \E c \in StreamCallers : EnterQueue(c) \/ StreamSteps(c)
  \/ \E i \in 1..Len(mux.conns) :
       \/ PollStarts(i) \/ PollEnds(i) \/ Closes(i) \/ Ages(i)
       \/ \E limit \in PeerLimits : Settings(i, limit)
  \/ \E config \in StreamConfigs : AdoptStreams(config)
  \/ \E answer \in StreamAnswers : NewNames(answer)
  \/ RetireStreams \/ DrainStreams

MuxSpec == MuxInit /\ [][MuxNext]_muxVars

-----------------------------------------------------------------------------
Holding == {"served", "lent", "streaming"}
StreamHolders(id) == {c \in StreamersAt(Holding) : streamer[c].conn = id}

\* Whoever holds a stream finds its connection registered when it lets go,
\* after any retirement, shrink, drain or close, and the two levels of counters
\* agree with the streams that are really held.
StreamsAccounted ==
  /\ \A c \in StreamersAt(Holding) : Registered(streamer[c].conn)
  /\ \A i \in DOMAIN mux.conns : mux.conns[i].streams = Cardinality(StreamHolders(mux.conns[i].id))
  /\ mux.streams = Cardinality(StreamersAt(Holding))
  /\ mux.connecting = Cardinality(StreamersAt({"dialing"}))
  /\ mux.waiting = Cardinality(StreamersAt({"armed", "asleep", "dialing", "served", "refused"}))

\* A new stream is admitted only on a connection to an address the pool has been
\* told of, within the limits in force, however old the connection is, and never
\* after the drain.
AdmitsWithinLimits ==
  [][\A c \in StreamCallers :
       streamer[c].pc = "armed" /\ streamer'[c].pc = "served" =>
         \E i \in DOMAIN mux'.conns :
           /\ mux'.conns[i].id = streamer'[c].conn
           /\ ~Revoked(mux, mux'.conns[i]) /\ mux'.conns[i].open /\ ~mux.closed
           /\ mux'.conns[i].streams <= mux.config.per /\ mux'.conns[i].streams <= mux'.conns[i].limit
           /\ mux'.streams <= mux.config.streams]_muxVars

\* A caller that sleeps unnotified has missed nothing: no stream, no room for a
\* connection and no drain is there for it, unless somebody is about to wake it.
NoMissedWake ==
  \A c \in StreamersAt({"asleep"}) :
    \/ streamer[c].woken
    \/ Turn(mux) = "wait"
    \/ \E i \in DOMAIN mux.conns :
         /\ mux.conns[i].open
         /\ mux.conns[i].limit # mux.conns[i].seen \/ mux.conns[i].raced \/ mux.conns[i].skipped
    \/ StreamersAt({"dialing", "served", "refused", "left", "lent"}) # {}

\* Streams are accounted for on connections that are still registered, and
\* nobody sleeps through the room somebody made.
StreamsSound == StreamsAccounted /\ NoMissedWake

=============================================================================
