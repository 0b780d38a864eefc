------------------------------ MODULE AppHost ------------------------------
(***************************************************************************)
(* The host of a gatel process: App (app.rs, app_submissions.rs,           *)
(* app_completion.rs, app_health.rs) and the file watcher's discovery work *)
(* (watch.rs).                                                             *)
(*                                                                         *)
(* A reload is an owned task.  It takes a reload slot and an admission,    *)
(* queues for reload_execution, runs its work on the single configuration  *)
(* worker (which admits itself again), activates what it published under   *)
(* the lifecycle lock, runs its receipt and lets everything go:            *)
(*   idle - slotted - queued - want - acquired - work - prepare -          *)
(*   worked - decide - lock - applied - finish - unlock - leave - notify - *)
(*   release - idle                                                        *)
(* Shutdown closes the gates, seals the store, drains the admissions and   *)
(* only then tears the process down:                                       *)
(*   open - worker - submissions - seal - fence - drain - check - poll -    *)
(*   await - lock - server - binds - supervisor - plugins - acme -          *)
(*   sinks - done                                                          *)
(* What a candidate contains, and the version it is written against, is    *)
(* the subject of GenerationStore: here an attempt publishes, finds        *)
(* nothing to do, or fails.                                                *)
(***************************************************************************)
EXTENDS Integers, Sequences, FiniteSets, Collections

CONSTANTS Tasks,       \* owned reload tasks
          Watchers,    \* discovery calls of configuration_work (watch.rs)
          Shutdown,    \* the thread that runs App::shutdown
          Readers,     \* administration requests reading the progress
          SlotLimit,   \* MAX_RELOAD_TASKS
          MaxGen       \* bound on published generations

ASSUME HostAssumption ==
  /\ SlotLimit \in Nat \ {0}
  /\ MaxGen \in Nat
  /\ Shutdown \notin Tasks \cup Watchers
  /\ Tasks \cap Watchers = {}

VARIABLES pc,          \* where each task and each watcher is
          result,      \* the Outcome of each task's latest reload
          got,         \* the generation that Outcome names
          target,      \* activate's committed: the generation being applied
          slots,       \* tasks holding a reload_slots permit
          admissions,  \* outstanding Admission guards (Submissions.running)
          execution,   \* reload_execution: owner first, then waiters (FIFO)
          worker,      \* configuration_slot: owner first, then waiters (FIFO)
          lifecycle,   \* lifecycle mutex: owner first, then waiters (FIFO)
          closed,      \* which gates shutdown has closed
          generation,  \* number of the store's current generation
          activated,   \* App.activated
          live,        \* what the process has running
          sd,          \* where shutdown is
          waiter,      \* the Notified future of Submissions::drained
          progress     \* configuration_progress: activated, generation read

gates == <<slots, admissions, execution, worker>>
told == <<result, got>>
local == <<pc, told>>
run == <<generation, activated, target, live>>
stop == <<closed, sd, waiter>>
vars == <<local, gates, lifecycle, run, stop, progress>>

Procs == Tasks \cup Watchers
Resources == {"server", "binds", "supervisor", "plugins", "acme", "sinks"}
Outcomes == {"none", "stale", "failed", "noop", "published", "panicked"}

Init ==
  /\ pc = [p \in Procs |-> "idle"]
  /\ result = [t \in Tasks |-> "none"]
  /\ got = [t \in Tasks |-> 0]
  /\ target = [t \in Tasks |-> 0]
  /\ slots = {}
  /\ admissions = {}
  /\ execution = <<>>
  /\ worker = <<>>
  /\ lifecycle = <<>>
  /\ closed = {}
  /\ generation = 0
  /\ activated = 0
  /\ live = {"sinks"}
  /\ sd = "open"
  /\ waiter = "none"
  /\ progress = [r \in Readers |-> [activated |-> 0, generation |-> 0, pending |-> FALSE]]

Step(p, from, to) == pc[p] = from /\ pc' = [pc EXCEPT ![p] = to]

Owns(p, lock) == lock # <<>> /\ Head(lock) = p
Leaves(p, lock) == Retain(lock, {i \in DOMAIN lock : lock[i] # p})

Says(t, outcome, number) ==
  /\ result' = [result EXCEPT ![t] = outcome]
  /\ got' = [got EXCEPT ![t] = number]

-----------------------------------------------------------------------------
(* reload_task_finishing, in the caller: no await before the task owns its  *)
(* slot and its admission, so a caller that goes away changes nothing.      *)

\* try_acquire_owned.
TakeSlot(t) ==
  /\ Step(t, "idle", "slotted")
  /\ "slots" \notin closed
  /\ Cardinality(slots) < SlotLimit
  /\ slots' = slots \cup {t}
  /\ Says(t, "none", 0)
  /\ UNCHANGED <<admissions, execution, worker, lifecycle, run, stop, progress>>

\* Closed or NoPermits: Outcome::Stale.
NoSlot(t) ==
  /\ pc[t] = "idle"
  /\ "slots" \in closed \/ Cardinality(slots) >= SlotLimit
  /\ Says(t, "stale", 0)
  /\ UNCHANGED <<pc, gates, lifecycle, run, stop, progress>>

\* submissions.enter, then the spawned task queues for reload_execution.
Enter(t) ==
  /\ pc[t] = "slotted"
  /\ \/ /\ "submissions" \in closed
        /\ pc' = [pc EXCEPT ![t] = "idle"]
        /\ slots' = slots \ {t}
        /\ Says(t, "stale", 0)
        /\ UNCHANGED <<admissions, execution>>
     \/ /\ "submissions" \notin closed
        /\ pc' = [pc EXCEPT ![t] = "queued"]
        /\ admissions' = admissions \cup {<<t, "task">>}
        /\ execution' = Append(execution, t)
        /\ UNCHANGED <<slots, told>>
  /\ UNCHANGED <<worker, lifecycle, run, stop, progress>>

\* The task owns reload_execution: is_sealed, then work.
Execute(t) ==
  /\ pc[t] = "queued"
  /\ Owns(t, execution)
  /\ \/ /\ "sealed" \in closed
        /\ pc' = [pc EXCEPT ![t] = "unlock"]
        /\ Says(t, "stale", 0)
        /\ UNCHANGED worker
     \/ /\ "sealed" \notin closed
        /\ pc' = [pc EXCEPT ![t] = "want"]
        /\ worker' = Append(worker, t)
        /\ UNCHANGED told
  /\ UNCHANGED <<slots, admissions, execution, lifecycle, run, stop, progress>>

-----------------------------------------------------------------------------
(* configuration_work, of a task and of the watcher's directory discovery.  *)

\* wait_for_change returned; refresh_directories asks for the worker.
Discover(w) ==
  /\ Step(w, "idle", "want")
  /\ "worker" \notin closed
  /\ worker' = Append(worker, w)
  /\ UNCHANGED <<told, slots, admissions, execution, lifecycle, run, stop, progress>>

\* reload_until's select drops the watcher while it waits for the worker.
CancelForgets(w) ==  \* mutant: the dropped future stays queued
  /\ Step(w, "want", "idle")
  /\ UNCHANGED <<told, gates, lifecycle, run, stop, progress>>

Cancel(w) ==
  /\ Step(w, "want", "idle")
  /\ worker' = Leaves(w, worker)
  /\ UNCHANGED <<told, slots, admissions, execution, lifecycle, run, stop, progress>>

\* acquire_owned fails: the semaphore is closed.
NoWorkerRetries(p) ==  \* mutant: a reload that is refused asks again
  /\ pc[p] = "want"
  /\ "worker" \in closed
  /\ IF p \in Tasks
     THEN UNCHANGED vars
     ELSE /\ worker' = Leaves(p, worker)
          /\ Step(p, "want", "idle")
          /\ UNCHANGED <<told, slots, admissions, execution, lifecycle, run, stop, progress>>

NoWorker(p) ==
  /\ pc[p] = "want"
  /\ "worker" \in closed
  /\ worker' = Leaves(p, worker)
  /\ IF p \in Tasks
     THEN Step(p, "want", "decide") /\ Says(p, "stale", 0)
     ELSE Step(p, "want", "idle") /\ UNCHANGED told
  /\ UNCHANGED <<slots, admissions, execution, lifecycle, run, stop, progress>>

TakeWorker(p) ==
  /\ Step(p, "want", "acquired")
  /\ "worker" \notin closed
  /\ Owns(p, worker)
  /\ UNCHANGED <<told, gates, lifecycle, run, stop, progress>>

\* The second enter; a refusal drops the permit.
EnterWork(p) ==
  /\ pc[p] = "acquired"
  /\ \/ /\ "submissions" \in closed
        /\ worker' = Leaves(p, worker)
        /\ IF p \in Tasks
           THEN Step(p, "acquired", "decide") /\ Says(p, "stale", 0)
           ELSE Step(p, "acquired", "idle") /\ UNCHANGED told
        /\ UNCHANGED admissions
     \/ /\ "submissions" \notin closed
        /\ Step(p, "acquired", "work")
        /\ admissions' = admissions \cup {<<p, "work">>}
        /\ UNCHANGED <<worker, told>>
  /\ UNCHANGED <<slots, execution, lifecycle, run, stop, progress>>

\* attempt_snapshot_if: the third enter and is_sealed, then the conditional
\* transaction with prepare_runtime.  Its admission is dropped before the
\* worker's, both while the task's own is held: never the last one.
EnterAttempt(t) ==
  /\ pc[t] = "work"
  /\ IF closed \cap {"submissions", "sealed"} # {}
     THEN Step(t, "work", "worked") /\ Says(t, "stale", 0) /\ UNCHANGED admissions
     ELSE /\ Step(t, "work", "prepare")
          /\ admissions' = admissions \cup {<<t, "attempt">>}
          /\ UNCHANGED told
  /\ UNCHANGED <<slots, execution, worker, lifecycle, run, stop, progress>>

\* finish_attempt commits: Started or Reloaded.  The candidate's sockets and
\* plugin tasks are adopted with it.
Publish(t) ==
  /\ Step(t, "prepare", "worked")
  /\ "sealed" \notin closed
  /\ generation < MaxGen
  /\ generation' = generation + 1
  /\ live' = live \cup {"binds", "plugins"}
  /\ Says(t, "published", generation + 1)
  /\ UNCHANGED <<gates, lifecycle, activated, target, stop, progress>>

\* NoOp, a rejected, unpreparable or conflicting candidate, a candidate the
\* seal made stale, or a panic of the worker (resumed in the task).
NotPublished(t) ==
  /\ Step(t, "prepare", "worked")
  /\ \/ Says(t, "failed", 0)
     \/ Says(t, "panicked", 0)
     \/ "sealed" \in closed /\ Says(t, "stale", 0)
     \/ "sealed" \notin closed /\ generation > 0 /\ Says(t, "noop", generation)
  /\ UNCHANGED <<gates, lifecycle, run, stop, progress>>

\* The worker's guards go before its result is joined.
WorkerDone(t) ==
  /\ Step(t, "worked", "decide")
  /\ admissions' = admissions \ {<<t, "work">>, <<t, "attempt">>}
  /\ worker' = Leaves(t, worker)
  /\ UNCHANGED <<told, slots, execution, lifecycle, run, stop, progress>>

\* The watcher's worker read watched_paths; its admission may be the last.
Watched(w) ==
  /\ Step(w, "work", "leave")
  /\ UNCHANGED <<told, gates, lifecycle, run, stop, progress>>

-----------------------------------------------------------------------------
(* Back in the task: activation, the receipt, and letting go.               *)

NeedsActivation(t) ==
  \/ result[t] = "published"
  \/ result[t] = "noop" /\ activated < got[t]

DecideUnlocked(t) ==  \* mutant: reload_execution ends with the work
  /\ pc[t] = "decide"
  /\ Step(t, "decide", IF NeedsActivation(t) THEN "lock" ELSE "finish")
  /\ execution' = Leaves(t, execution)
  /\ lifecycle' = IF NeedsActivation(t) THEN Append(lifecycle, t) ELSE lifecycle
  /\ UNCHANGED <<told, slots, admissions, worker, run, stop, progress>>

\* A worker's panic is resumed and unwinds the task past its receipt.
Decide(t) ==
  /\ pc[t] = "decide"
  /\ IF result[t] = "panicked"
     THEN Step(t, "decide", "unlock") /\ UNCHANGED lifecycle
     ELSE IF NeedsActivation(t)
     THEN Step(t, "decide", "lock") /\ lifecycle' = Append(lifecycle, t)
     ELSE Step(t, "decide", "finish") /\ UNCHANGED lifecycle
  /\ UNCHANGED <<told, gates, run, stop, progress>>

\* activate: behind a closed lifecycle there is nothing to bring in line.
ActivateClosed(t) ==
  /\ Owns(t, lifecycle)
  /\ Step(t, "lock", "finish")
  /\ "lifecycle" \in closed
  /\ lifecycle' = Leaves(t, lifecycle)
  /\ UNCHANGED <<told, gates, run, stop, progress>>

\* One round: server.sync, supervisor.reconcile, the ACME account.
ApplyAnyway(t) ==  \* mutant: lifecycle.closed is not looked at
  /\ Owns(t, lifecycle)
  /\ Step(t, "lock", "applied")
  /\ target' = [target EXCEPT ![t] = generation]
  /\ live' = live \cup {"server", "supervisor", "acme"}
  /\ UNCHANGED <<told, gates, lifecycle, generation, activated, stop, progress>>

Apply(t) ==
  /\ Owns(t, lifecycle)
  /\ Step(t, "lock", "applied")
  /\ "lifecycle" \notin closed
  /\ target' = [target EXCEPT ![t] = generation]
  /\ live' = live \cup {"server", "supervisor", "acme"}
  /\ UNCHANGED <<told, gates, lifecycle, generation, activated, stop, progress>>

\* Another round if a commit landed meanwhile; else prune, advance, unlock.
Settle(t) ==
  /\ pc[t] = "applied"
  /\ IF target[t] # generation
     THEN Step(t, "applied", "lock") /\ UNCHANGED <<lifecycle, activated, target>>
     ELSE /\ Step(t, "applied", "finish")
          /\ target' = [target EXCEPT ![t] = 0]
          /\ activated' = target[t]
          /\ lifecycle' = Leaves(t, lifecycle)
  /\ UNCHANGED <<told, gates, generation, live, stop, progress>>

\* Activation or the receipt panics: the guards unwind.
Panic(t) ==
  /\ \/ Step(t, "applied", "unlock")
     \/ Step(t, "finish", "unlock")
  /\ result' = [result EXCEPT ![t] = "panicked"]
  /\ target' = [target EXCEPT ![t] = 0]
  /\ lifecycle' = Leaves(t, lifecycle)
  /\ UNCHANGED <<got, gates, generation, activated, live, stop, progress>>

\* finish, on a blocking worker of its own when it persists
\* (reload_task_persisting): no admission, no gate, not even the seal.
Finish(t) ==
  /\ Step(t, "finish", "unlock")
  /\ UNCHANGED <<told, gates, lifecycle, run, stop, progress>>

ReleaseExecution(t) ==
  /\ Step(t, "unlock", "leave")
  /\ execution' = Leaves(t, execution)
  /\ UNCHANGED <<told, slots, admissions, worker, lifecycle, run, stop, progress>>

\* Admission::drop: the count under its mutex, the wake-up after it.
Leave(p) ==
  /\ pc[p] = "leave"
  /\ admissions' = admissions \ ({p} \X {"task", "work"})
  /\ pc' = [pc EXCEPT ![p] = IF admissions' = {} THEN "notify" ELSE "release"]
  /\ UNCHANGED <<told, slots, execution, worker, lifecycle, run, stop, progress>>

Notify(p) ==
  /\ Step(p, "notify", "release")
  /\ waiter' = IF waiter = "registered" THEN "woken" ELSE waiter
  /\ UNCHANGED <<told, gates, lifecycle, run, closed, sd, progress>>

\* The slot goes last: the reload slot of a task, the worker of a watcher.
Release(p) ==
  /\ Step(p, "release", "idle")
  /\ slots' = slots \ {p}
  /\ worker' = Leaves(p, worker)
  /\ IF p \in Tasks THEN Says(p, "none", 0) ELSE UNCHANGED told
  /\ UNCHANGED <<admissions, execution, lifecycle, run, stop, progress>>

-----------------------------------------------------------------------------
(* App::shutdown.                                                           *)

Closes(from, gate, to) ==
  /\ sd = from
  /\ sd' = to
  /\ closed' = closed \cup {gate}
  /\ UNCHANGED <<local, gates, run, waiter, progress>>

CloseSlots == Closes("open", "slots", "worker") /\ UNCHANGED lifecycle
CloseWorker == Closes("worker", "worker", "submissions") /\ UNCHANGED lifecycle
CloseSubmissions == Closes("submissions", "submissions", "seal") /\ UNCHANGED lifecycle
Seal == Closes("seal", "sealed", "fence") /\ lifecycle' = Append(lifecycle, Shutdown)

\* The first hold of the lifecycle lock, given up before the drain so that a
\* task queued in activate can see it closed.
Fence ==
  /\ Owns(Shutdown, lifecycle)
  /\ Closes("fence", "lifecycle", "drain")
  /\ lifecycle' = Leaves(Shutdown, lifecycle)

\* drained: create the Notified, look at the count, await the Notified.
DrainLate ==  \* mutant: the Notified is created after the count is read
  /\ sd = "drain"
  /\ sd' = "check"
  /\ waiter' = "none"
  /\ UNCHANGED <<local, gates, lifecycle, run, closed, progress>>

Drain ==
  /\ sd = "drain"
  /\ sd' = "check"
  /\ waiter' = "registered"
  /\ UNCHANGED <<local, gates, lifecycle, run, closed, progress>>

CheckOne ==  \* mutant: drained is satisfied by one remaining submission
  /\ sd = "check"
  /\ IF Cardinality(admissions) <= 1
     THEN sd' = "lock" /\ lifecycle' = Append(lifecycle, Shutdown)
     ELSE sd' = "poll" /\ UNCHANGED lifecycle
  /\ UNCHANGED <<local, gates, run, closed, waiter, progress>>

Check ==
  /\ sd = "check"
  /\ IF admissions = {}
     THEN sd' = "lock" /\ lifecycle' = Append(lifecycle, Shutdown)
     ELSE sd' = "poll" /\ UNCHANGED lifecycle
  /\ UNCHANGED <<local, gates, run, closed, waiter, progress>>

Poll ==
  /\ sd = "poll"
  /\ sd' = "await"
  /\ waiter' = IF waiter = "none" THEN "registered" ELSE waiter
  /\ UNCHANGED <<local, gates, lifecycle, run, closed, progress>>

Await ==
  /\ sd = "await"
  /\ waiter = "woken"
  /\ sd' = "drain"
  /\ UNCHANGED <<local, gates, lifecycle, run, closed, waiter, progress>>

\* The second hold: accept loops, sockets, probes, plugin tasks, the account.
Teardown == <<"server", "binds", "supervisor", "plugins", "acme">>

StartTeardown ==
  /\ sd = "lock"
  /\ Owns(Shutdown, lifecycle)
  /\ sd' = Teardown[1]
  /\ UNCHANGED <<local, gates, lifecycle, run, closed, waiter, progress>>

Stops ==
  \E i \in DOMAIN Teardown :
    /\ sd = Teardown[i]
    /\ live' = live \ {Teardown[i]}
    /\ IF i < Len(Teardown)
       THEN sd' = Teardown[i + 1] /\ UNCHANGED lifecycle
       ELSE sd' = "sinks" /\ lifecycle' = Leaves(Shutdown, lifecycle)
    /\ UNCHANGED <<local, gates, generation, activated, target, closed, waiter, progress>>

\* Drained within two seconds, or recorded as timed out: closed either way.
CloseSinks ==
  /\ sd = "sinks"
  /\ sd' = "done"
  /\ live' = live \ {"sinks"}
  /\ UNCHANGED <<local, gates, lifecycle, generation, activated, target, closed, waiter, progress>>

-----------------------------------------------------------------------------
(* configuration_progress, read by the administration API at any time.      *)

Sampled == [activated |-> activated, generation |-> generation]
StatusFirst == <<"generation", "activated">>  \* mutant: the other order
SampleOrder == <<"activated", "generation">>

Samples(r, i) ==
  /\ progress' = [progress EXCEPT ![r] = [@ EXCEPT ![SampleOrder[i]] = Sampled[SampleOrder[i]],
                                                  !.pending = (i = 1)]]
  /\ UNCHANGED <<local, gates, lifecycle, run, stop>>

Sample(r) == ~progress[r].pending /\ Samples(r, 1)
Report(r) == progress[r].pending /\ Samples(r, 2)

-----------------------------------------------------------------------------
TaskStep(t) ==
  \/ Enter(t) \/ Execute(t)
  \/ NoWorker(t) \/ TakeWorker(t) \/ EnterWork(t) \/ EnterAttempt(t)
  \/ Publish(t) \/ NotPublished(t) \/ WorkerDone(t)
  \/ Decide(t) \/ ActivateClosed(t) \/ Apply(t) \/ Settle(t) \/ Finish(t)
  \/ ReleaseExecution(t) \/ Leave(t) \/ Notify(t) \/ Release(t)

WatcherStep(w) ==
  \/ NoWorker(w) \/ TakeWorker(w) \/ EnterWork(w) \/ Watched(w)
  \/ Leave(w) \/ Notify(w) \/ Release(w)

ShutdownStep ==
  \/ CloseWorker \/ CloseSubmissions \/ Seal \/ Fence
  \/ Drain \/ Check \/ Poll \/ Await
  \/ StartTeardown \/ Stops \/ CloseSinks

Next ==
  \/ \E t \in Tasks : TakeSlot(t) \/ NoSlot(t) \/ TaskStep(t) \/ Panic(t)
  \/ \E w \in Watchers : Discover(w) \/ Cancel(w) \/ WatcherStep(w)
  \/ CloseSlots \/ ShutdownStep
  \/ \E r \in Readers : Sample(r) \/ Report(r)

Spec == Init /\ [][Next]_vars

\* The runtime polls every ready task, a blocking worker returns, and the
\* mutexes and the semaphore are FIFO, so their first waiter gets them.
Fairness ==
  /\ \A t \in Tasks : WF_vars(TaskStep(t))
  /\ \A w \in Watchers : WF_vars(WatcherStep(w))
  /\ WF_vars(ShutdownStep)

FairSpec == Spec /\ Fairness

-----------------------------------------------------------------------------
(* Properties.                                                             *)

TaskLabels ==
  {"idle", "slotted", "queued", "want", "acquired", "work", "prepare", "worked",
   "decide", "lock", "applied", "finish", "unlock", "leave", "notify", "release"}
WatcherLabels == {"idle", "want", "acquired", "work", "leave", "notify", "release"}
ShutdownLabels ==
  {"open", "worker", "submissions", "seal", "fence", "drain", "check", "poll",
   "await", "lock", "server", "binds", "supervisor", "plugins", "acme",
   "sinks", "done"}

\* The type of the host's state; generation numbers stay within their bound,
\* which finish_attempt's checked increment enforces.
TypeOK ==
  /\ pc \in [Procs -> TaskLabels]
  /\ \A w \in Watchers : pc[w] \in WatcherLabels
  /\ result \in [Tasks -> Outcomes]
  /\ got \in [Tasks -> 0..MaxGen]
  /\ target \in [Tasks -> 0..MaxGen]
  /\ slots \subseteq Tasks
  /\ admissions \subseteq Procs \X {"task", "work", "attempt"}
  /\ execution \in Seq(Tasks)
  /\ worker \in Seq(Procs)
  /\ lifecycle \in Seq(Tasks \cup {Shutdown})
  /\ closed \subseteq {"slots", "worker", "submissions", "sealed", "lifecycle"}
  /\ generation \in 0..MaxGen
  /\ activated \in 0..MaxGen
  /\ live \subseteq Resources
  /\ sd \in ShutdownLabels
  /\ waiter \in {"none", "registered", "woken"}
  /\ progress \in [Readers -> [activated : 0..MaxGen, generation : 0..MaxGen, pending : BOOLEAN]]

Holds(p, lock) == \E i \in DOMAIN lock : lock[i] = p

\* Guards and control agree: a task or a worker holds, or waits for, exactly
\* what its place in the code says, on every path out of it (refusal, closed
\* gate, cancellation, panic), so nothing leaks and nothing is held twice; and
\* from the first teardown step on no reload and no discovery worker is at
\* work: only callers that will be refused and guards being let go remain.
GuardsMatchControl ==
  /\ \A t \in Tasks :
       /\ t \in slots <=> pc[t] # "idle"
       /\ <<t, "task">> \in admissions <=>
            pc[t] \notin {"idle", "slotted", "notify", "release"}
       /\ <<t, "attempt">> \in admissions => pc[t] \in {"prepare", "worked"}
       /\ Holds(t, execution) <=>
            pc[t] \notin {"idle", "slotted", "leave", "notify", "release"}
       /\ pc[t] \notin {"idle", "slotted", "queued", "leave", "notify", "release"}
            => Owns(t, execution)
       /\ Holds(t, lifecycle) <=> pc[t] \in {"lock", "applied"}
       /\ <<t, "work">> \in admissions <=> pc[t] \in {"work", "prepare", "worked"}
       /\ Holds(t, worker) <=>
            pc[t] \in {"want", "acquired", "work", "prepare", "worked"}
  /\ \A w \in Watchers :
       /\ <<w, "work">> \in admissions <=> pc[w] \in {"work", "leave"}
       /\ Holds(w, worker) <=> pc[w] # "idle"
  /\ \A p \in Procs :
       pc[p] \in {"acquired", "work", "prepare", "worked"} => Owns(p, worker)
  /\ sd \in {"server", "binds", "supervisor", "plugins", "acme", "sinks", "done"} =>
       /\ \A t \in Tasks : pc[t] \in {"idle", "slotted", "notify", "release"}
       /\ \A w \in Watchers : pc[w] \in WatcherLabels \ {"work", "leave"}
       /\ sd \notin {"sinks", "done"} => lifecycle = <<Shutdown>>

\* A receipt tells the truth: from the moment its work returns until its
\* receipt has run, the generation a reload names is still the current one,
\* and when the receipt runs on an open host that generation is activated.
\* And the administration API's two reads never report an activation of a
\* generation later than the one they report as published.
ReceiptHonest ==
  /\ \A t \in Tasks :
       result[t] \in {"published", "noop"} =>
         /\ pc[t] \in {"worked", "decide", "lock", "applied", "finish", "unlock"}
              => got[t] = generation
         /\ pc[t] \in {"finish", "unlock"} /\ "lifecycle" \notin closed
              => activated = got[t]
  /\ \A r \in Readers : ~progress[r].pending => progress[r].activated <= progress[r].generation

\* Once readiness says draining, no step starts anything again.
NothingStartsAfterFence == [][ "lifecycle" \in closed => live' \subseteq live ]_vars

\* Shutdown terminates, whatever reloads and watchers were doing when it began,
\* and every reload that got a slot ends, and gives the slot back.
HostProceeds ==
  /\ sd # "open" ~> sd = "done"
  /\ \A t \in Tasks : pc[t] = "slotted" ~> pc[t] = "idle"
=============================================================================
