------------------------------- MODULE Sinks -------------------------------
(***************************************************************************)
(* Log sinks (gatel-observe sink.rs, sink_lifecycle.rs, sink_policy.rs,    *)
(* sink_io.rs): a file has one writer thread, shared by every generation   *)
(* that logs to it, fed through a bounded queue, and gone once the last    *)
(* generation that held the sink is and the queue is empty.                *)
(*                                                                         *)
(* One candidate generation is prepared at a time.  The sinks it asks for  *)
(* are held by it, then by the published generation, then by the requests  *)
(* of an outgoing one; a sink is dropped with its last holder, and closes  *)
(* the queue.  Rotation policies are staged and take effect together when  *)
(* the candidate is published.  The size of a file is counted in lines; a  *)
(* rolled file is the number at the end of its name.                       *)
(***************************************************************************)
EXTENDS Naturals, Sequences, FiniteSets

CONSTANTS LogFiles,
          Policies,     \* rotation policies a configuration may ask for
          QueueLimit,   \* QUEUE
          WriterLimit,  \* MAX_WRITERS
          MaxLogLines, MaxWriters, MaxStages   \* bounds of the instance

ASSUME SinksAssumption ==
    /\ QueueLimit \in Nat \ {0} /\ WriterLimit \in Nat \ {0}
    /\ MaxLogLines \in Nat /\ MaxWriters \in Nat /\ MaxStages \in Nat
    /\ Policies \subseteq [size : Nat, keep : Nat]
    /\ "stderr" \notin LogFiles

VARIABLES sinks,      \* every sink ever opened, with its queue and its writer thread
          registry,   \* Registry: the writer registered for each file, and whether it is closed
          stage,      \* StagedSinks of the candidate
          published,  \* what the generation in force asked for
          outgoing,   \* the outgoing generations that still hold sinks
          archive,    \* of each file: its lines and the rolled files beside it
          drain       \* the future a shutdown returns

sinkVars == <<sinks, registry, stage, published, outgoing, archive, drain>>

Stderr == "stderr"
LogNames == LogFiles \cup {Stderr}
Never == [size |-> 0, keep |-> 0]
NoSinkStage == [asked |-> {}, failed |-> FALSE, count |-> 0]
NewSink(name) ==
    [name |-> name, queued |-> 0, closed |-> FALSE, policy |-> Never, kept |-> 0, worker |-> "running", file |-> TRUE,
     accepted |-> 0, written |-> 0, lost |-> 0, dropped |-> 0, waiting |-> FALSE]

SinkInit ==
    /\ sinks = <<>>
    /\ registry = [open |-> <<>>, closed |-> FALSE]
    /\ stage = NoSinkStage
    /\ published = {}
    /\ outgoing = {}
    /\ archive = [f \in LogFiles |-> [lines |-> 0, rolled |-> {}]]
    /\ drain = [pc |-> "none", workers |-> {}, registered |-> FALSE, waker |-> FALSE, woken |-> FALSE]

-----------------------------------------------------------------------------
(* The registry.                                                           *)

SinksOf(asked) == {a.sink : a \in asked}
OutgoingSinks == UNION {SinksOf(g.asked) : g \in outgoing}
HeldSinks == SinksOf(stage.asked) \cup SinksOf(published) \cup OutgoingSinks
Finished(s) == sinks[s].worker \in {"done", "gone"}
ReapEarly(open) ==  \* mutant: an entry goes with its sink, finished or not
    [f \in {f \in DOMAIN open : open[f] \in HeldSinks} |-> open[f]]
Reap(open) ==
    [f \in {f \in DOMAIN open : open[f] \in HeldSinks \/ ~Finished(open[f])} |-> open[f]]
\* Registry::existing: shared, or draining, or free.
Existing(open, name) ==
    CASE registry.closed -> "refused"
      [] ~registry.closed /\ name \notin DOMAIN open -> "free"
      [] OTHER -> IF open[name] \in HeldSinks THEN "shared" ELSE "refused"
\* Sinks left by their last holder close their queues.
Dropped(held) ==
    [s \in DOMAIN sinks |-> IF s \in held THEN sinks[s] ELSE [sinks[s] EXCEPT !.closed = TRUE]]

\* StagedSinks::file: two policies for one file are a conflict; a live policy is not touched.
Asks(name, policy, s) ==
    IF \E a \in stage.asked : a.name = name /\ a.policy # policy THEN [stage EXCEPT !.failed = TRUE]
    ELSE [stage EXCEPT !.asked = @ \cup {[name |-> name, sink |-> s, policy |-> policy]}]
Fails == /\ stage' = [stage EXCEPT !.failed = TRUE]
         /\ UNCHANGED sinks
SharedAtOnce(name, policy, s) ==  \* mutant: the policy takes effect while it is only asked for
    /\ stage' = Asks(name, policy, s)
    /\ sinks' = [sinks EXCEPT ![s].policy = policy]
Shared(name, policy, s) ==
    /\ stage' = Asks(name, policy, s)
    /\ UNCHANGED sinks
\* Sinks::resolve: the writer of a name, or a new one where there is room.
Resolves(name, policy) ==
    LET open == Reap(registry.open)
        found == Existing(open, name)
        room == Cardinality(DOMAIN open) < WriterLimit
    IN  \/ found = "shared" /\ Shared(name, policy, open[name]) /\ registry' = [registry EXCEPT !.open = open]
        \/ /\ found = "free" /\ room
           /\ sinks' = Append(sinks, NewSink(name))
           /\ registry' = [registry EXCEPT !.open = [f \in DOMAIN open \cup {name} |->
                                                      IF f = name THEN Len(sinks) + 1 ELSE open[f]]]
           /\ stage' = Asks(name, policy, Len(sinks) + 1)
        \/ /\ found = "refused" \/ (found = "free" /\ ~room)
           /\ Fails /\ registry' = [registry EXCEPT !.open = open]
\* Sinks::file_handle: a file nobody writes is opened before its writer is registered.
StageFile(name, policy) ==
    /\ ~stage.failed /\ stage.count < MaxStages /\ Len(sinks) < MaxWriters
    /\ \/ Resolves(name, policy)
       \/ /\ Existing(Reap(registry.open), name) = "free"  \* it cannot be opened
          /\ Fails /\ registry' = [registry EXCEPT !.open = Reap(registry.open)]
    /\ UNCHANGED <<published, outgoing, archive, drain>>
\* Sinks::stderr, which never rotates and has no policy to ask for.
StageStderr ==
    /\ ~stage.failed /\ stage.count < MaxStages /\ Len(sinks) < MaxWriters
    /\ Resolves(Stderr, Never)
    /\ UNCHANGED <<published, outgoing, archive, drain>>
\* The candidate is given up.
AbandonStage ==
    /\ stage.asked # {} \/ stage.failed
    /\ stage' = [NoSinkStage EXCEPT !.count = stage.count + 1]
    /\ sinks' = Dropped(SinksOf(published) \cup OutgoingSinks)
    /\ UNCHANGED <<registry, published, outgoing, archive, drain>>
\* SinkUpdate::begin holds every policy, publish sets them: no writer sees some of them.
PublishStage ==
    /\ ~stage.failed /\ stage.count < MaxStages
    /\ sinks' = [s \in DOMAIN sinks |->
                   [sinks[s] EXCEPT !.policy = IF \E a \in stage.asked : a.sink = s
                                               THEN (CHOOSE a \in stage.asked : a.sink = s).policy ELSE @]]
    /\ published' = stage.asked
    /\ outgoing' = IF published = {} THEN outgoing ELSE outgoing \cup {[n |-> stage.count, asked |-> published]}
    /\ stage' = [NoSinkStage EXCEPT !.count = stage.count + 1]
    /\ UNCHANGED <<registry, archive, drain>>
\* The last request of an outgoing generation is over.
RetiredEnds(g) ==
    /\ outgoing' = outgoing \ {g}
    /\ sinks' = Dropped(SinksOf(stage.asked) \cup SinksOf(published) \cup
                         UNION {SinksOf(h.asked) : h \in outgoing \ {g}})
    /\ UNCHANGED <<registry, stage, published, archive, drain>>

-----------------------------------------------------------------------------
(* Writing.                                                                *)

\* Sink::write never waits.
Refused(w) == [w EXCEPT !.dropped = @ + 1]
Taken(w) == [w EXCEPT !.queued = @ + 1, !.accepted = @ + 1]
SinkWrite(s) ==
    /\ s \in SinksOf(published) \cup OutgoingSinks
    /\ sinks[s].accepted + sinks[s].dropped < MaxLogLines
    /\ sinks' = [sinks EXCEPT ![s] = IF sinks[s].closed \/ sinks[s].queued = QueueLimit
                                     THEN Refused(sinks[s]) ELSE Taken(sinks[s])]
    /\ UNCHANGED <<registry, stage, published, outgoing, archive, drain>>

Lost(w) == [w EXCEPT !.queued = @ - 1, !.lost = @ + 1]
Wrote(w) == [w EXCEPT !.queued = @ - 1, !.written = @ + 1, !.file = TRUE]
\* roll: the files a smaller number keeps no more go from the lowest up, then the last kept one;
\* the others move up from the highest down, and the log becomes number 1.
Pruned(rolled, keep, to) == rolled \ (keep + 1 .. to)
Moved(rolled, keep, from) ==
    {i \in rolled : i < from \/ i > keep} \cup {i + 1 : i \in rolled \cap (from .. keep - 1)}
Rolled(a, keep, kept) ==
    [lines |-> 0, rolled |-> IF keep = 0 THEN Pruned(a.rolled, keep, kept)
                             ELSE {1} \cup Moved(Pruned(a.rolled, keep, kept), keep, 1)]
\* What a step of it that fails leaves: the log where it was, or moved and not there again.
HalfRolled(a, keep, kept) ==
    {[a EXCEPT !.rolled = Pruned(@, keep, to)] : to \in {keep} \cup (keep .. kept)}
    \cup {[a EXCEPT !.rolled = Moved(Pruned(@, keep, kept), keep, from)] : from \in 1 .. keep}
    \cup {Rolled(a, keep, kept)}
\* Destination::write, by the policy in force.  A rotation that fails leaves no open file,
\* and the next line opens it again.
WriterWrites(s) ==
    LET w == sinks[s]
        more == [archive[w.name] EXCEPT !.lines = @ + 1]
        due == w.policy.size > 0 /\ more.lines >= w.policy.size
    IN  /\ w.worker = "running" /\ w.queued > 0
        /\ \/ sinks' = [sinks EXCEPT ![s] = Lost(w)] /\ UNCHANGED archive
           \/ w.name = Stderr /\ sinks' = [sinks EXCEPT ![s] = Wrote(w)] /\ UNCHANGED archive
           \/ /\ w.name # Stderr /\ ~due
              /\ sinks' = [sinks EXCEPT ![s] = Wrote(w)]
              /\ archive' = [archive EXCEPT ![w.name] = more]
           \/ /\ w.name # Stderr /\ due
              /\ sinks' = [sinks EXCEPT ![s] = [Wrote(w) EXCEPT !.kept = w.policy.keep]]
              /\ archive' = [archive EXCEPT ![w.name] = Rolled(more, w.policy.keep, w.kept)]
           \/ /\ w.name # Stderr /\ due
              /\ sinks' = [sinks EXCEPT ![s] = [Wrote(w) EXCEPT !.file = FALSE]]
              /\ \E left \in HalfRolled(more, w.policy.keep, w.kept) : archive' = [archive EXCEPT ![w.name] = left]
        /\ UNCHANGED <<registry, stage, published, outgoing, drain>>
WriterStopsEarly(s) ==  \* mutant: a line left in the queue does not keep the writer
    /\ sinks[s].worker = "running" /\ sinks[s].closed
    /\ sinks' = [sinks EXCEPT ![s].worker = "stopping"]
    /\ UNCHANGED <<registry, stage, published, outgoing, archive, drain>>
\* The queue is closed and empty: the last flush, and the writer stops.
WriterStops(s) ==
    LET w == sinks[s] IN
    /\ w.worker = "running" /\ w.queued = 0 /\ w.closed
    /\ sinks' = [sinks EXCEPT ![s].worker = "stopping"]
    /\ UNCHANGED <<registry, stage, published, outgoing, archive, drain>>
\* The thread ends: its file is closed, then it says so, then it wakes who waits.
WriterCloses(s) ==
    /\ sinks[s].worker = "stopping"
    /\ sinks' = [sinks EXCEPT ![s].file = FALSE, ![s].worker = "closed"]
    /\ UNCHANGED <<registry, stage, published, outgoing, archive, drain>>
WriterDone(s) ==
    /\ sinks[s].worker = "closed"
    /\ sinks' = [sinks EXCEPT ![s].worker = "done"]
    /\ UNCHANGED <<registry, stage, published, outgoing, archive, drain>>
WriterWakes(s) ==
    /\ sinks[s].worker = "done"
    /\ sinks' = [sinks EXCEPT ![s].worker = "gone", ![s].waiting = FALSE]
    /\ drain' = IF sinks[s].waiting /\ drain.waker THEN [drain EXCEPT !.waker = FALSE, !.woken = TRUE] ELSE drain
    /\ UNCHANGED <<registry, stage, published, outgoing, archive>>

-----------------------------------------------------------------------------
(* Shutting down.                                                          *)

SinksShutdown ==
    LET open == Reap(registry.open)
        workers == {open[f] : f \in DOMAIN open}
    IN  /\ ~registry.closed
        /\ registry' = [open |-> open, closed |-> TRUE]
        /\ sinks' = [s \in DOMAIN sinks |-> IF s \in workers THEN [sinks[s] EXCEPT !.closed = TRUE] ELSE sinks[s]]
        /\ drain' = [drain EXCEPT !.pc = "poll", !.workers = workers]
        /\ UNCHANGED <<stage, published, outgoing, archive>>
DrainPollsOnce ==  \* mutant: the waker is kept from the first poll only
    /\ drain.pc = "poll" \/ (drain.pc = "pending" /\ drain.woken)
    /\ drain' = [drain EXCEPT !.pc = "test", !.waker = @ \/ ~drain.registered, !.woken = FALSE, !.registered = TRUE]
    /\ sinks' = [s \in DOMAIN sinks |->
                   IF s \in drain.workers /\ ~drain.registered THEN [sinks[s] EXCEPT !.waiting = TRUE] ELSE sinks[s]]
    /\ UNCHANGED <<registry, stage, published, outgoing, archive>>
\* Drain::poll: the waker first, then the registrations, then the test.
DrainPolls ==
    /\ drain.pc = "poll" \/ (drain.pc = "pending" /\ drain.woken)
    /\ drain' = [drain EXCEPT !.pc = "test", !.waker = TRUE, !.woken = FALSE, !.registered = TRUE]
    /\ sinks' = [s \in DOMAIN sinks |->
                   IF s \in drain.workers /\ ~drain.registered THEN [sinks[s] EXCEPT !.waiting = TRUE] ELSE sinks[s]]
    /\ UNCHANGED <<registry, stage, published, outgoing, archive>>
DrainTests ==
    /\ drain.pc = "test"
    /\ drain' = [drain EXCEPT !.pc = IF \A s \in drain.workers : Finished(s) THEN "ready" ELSE "pending"]
    /\ UNCHANGED <<sinks, registry, stage, published, outgoing, archive>>

SinkNext ==
    \/ \E f \in LogFiles, p \in Policies : StageFile(f, p)
    \/ StageStderr \/ AbandonStage \/ PublishStage
    \/ \E g \in outgoing : RetiredEnds(g)
    \/ \E s \in DOMAIN sinks :
          \/ SinkWrite(s) \/ WriterWrites(s) \/ WriterStops(s)
          \/ WriterCloses(s) \/ WriterDone(s) \/ WriterWakes(s)
    \/ SinksShutdown \/ DrainPolls \/ DrainTests

\* Threads run, and a future that is woken is polled.
SinkFairness ==
    /\ \A s \in 1..MaxWriters :
          /\ WF_sinkVars(s \in DOMAIN sinks /\ WriterWrites(s))
          /\ WF_sinkVars(s \in DOMAIN sinks /\ WriterStops(s))
          /\ WF_sinkVars(s \in DOMAIN sinks /\ (WriterCloses(s) \/ WriterDone(s) \/ WriterWakes(s)))
    /\ WF_sinkVars(DrainPolls) /\ WF_sinkVars(DrainTests)

SinkSpec == SinkInit /\ [][SinkNext]_sinkVars /\ SinkFairness

-----------------------------------------------------------------------------
(* Properties.                                                             *)

\* No file is ever open in two writer threads, through reloads that drop a sink and ask for it again
\* while its writer drains: two would interleave lines and rotate each other's file away.
OneWriterPerFile ==
    \A s, t \in DOMAIN sinks :
        s # t /\ sinks[s].name = sinks[t].name => ~(sinks[s].worker \in {"running", "stopping"}
                                                    /\ sinks[t].worker \in {"running", "stopping"})

\* Every line that was taken is written or counted as an error by the time its writer is done; closing a
\* queue, on a reload or a shutdown, loses none.
LinesAccounted ==
    \A s \in DOMAIN sinks :
        /\ sinks[s].accepted = sinks[s].queued + sinks[s].written + sinks[s].lost
        /\ sinks[s].worker # "running" => sinks[s].queued = 0

\* The policy a writer follows is the one the generation in force asked for, whatever a candidate that
\* is being prepared, or was given up, asks for the same file.
PolicyOfPublished == \A a \in published : sinks[a.sink].policy = a.policy

\* A shutdown that waits for the writers ends, whichever of them ends last.
DrainEnds == (drain.pc # "none") ~> (drain.pc = "ready")

\* Through reloads that drop a log file and ask for it again while its writer drains: one writer for a
\* file, no line lost on the way, and the policy of the generation in force.
SinksSound == OneWriterPerFile /\ LinesAccounted /\ PolicyOfPublished
=============================================================================
