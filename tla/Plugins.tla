------------------------------ MODULE Plugins ------------------------------
(***************************************************************************)
(* A generation's plugins (gatel-http plugin_prepare.rs, plugin_tasks.rs,  *)
(* plugin_retirement.rs; gatel-plugin-runtime secrets.rs, task.rs): the    *)
(* secrets its directives read while it is prepared, the background tasks  *)
(* it starts once published, and the shutdown of those tasks, either by    *)
(* the retirement job of a generation nobody holds any more or by the host *)
(* when the process stops.                                                 *)
(*                                                                         *)
(* A task scope is shut down under its own lock.  The call holds the join  *)
(* handles meanwhile; a call that is dropped gives them back.              *)
(***************************************************************************)
EXTENDS Naturals, Sequences, FiniteSets

CONSTANTS Tasks,           \* the background tasks of a generation
          Cooperative,     \* <<generation, task>>: those that get a grace period
          SecretReads,     \* the secrets the directives of a plan read, in order
          RetireLimit,     \* Retirements::LIMIT
          MaxScopes, MaxRotations, MaxCancels   \* bounds of the instance

ASSUME PluginsAssumption ==
    /\ Cooperative \subseteq (1..MaxScopes) \X Tasks
    /\ SecretReads \in Seq({SecretReads[i] : i \in DOMAIN SecretReads})
    /\ RetireLimit \in Nat \ {0} /\ MaxScopes \in Nat

VARIABLES secret,     \* what each secret reads as now
          candidate,  \* PreparedPlugins of the generation under preparation
          scopes,     \* TaskScope of each generation
          tasks,      \* Report: the outcome of each task
          aborted,    \* tasks whose handle was aborted
          calls,      \* shutdown futures of each scope, by caller
          retirements,   \* Retirements
          inUse,      \* the scope of the generation in force
          holders,    \* who holds each generation's PluginTasks
          host,       \* the shutdown of the process
          cancels     \* how often that shutdown was dropped

pluginVars == <<secret, candidate, scopes, tasks, aborted, calls, retirements, inUse, holders, host, cancels>>

Scopes == 1..MaxScopes
Callers == {"job", "host", "app"}
Refs == {SecretReads[i] : i \in DOMAIN SecretReads}
NoScope == 0
NoCandidate == [pc |-> "none", scope |-> NoScope, read |-> <<>>]
Inactive == [pc |-> "none", held |-> {}]

PluginInit ==
    /\ secret = [r \in Refs |-> 0]
    /\ candidate = NoCandidate
    /\ scopes = [g \in Scopes |-> [state |-> "unborn", handles |-> {}]]
    /\ tasks = [g \in Scopes |-> [t \in Tasks |-> "pending"]]
    /\ aborted = [g \in Scopes |-> {}]
    /\ calls = [g \in Scopes |-> [c \in Callers |-> Inactive]]
    /\ retirements = [entries |-> {}, jobs |-> {}, closed |-> FALSE]
    /\ inUse = NoScope
    /\ holders = [g \in Scopes |-> {}]
    /\ host = "running"
    /\ cancels = 0

-----------------------------------------------------------------------------
(* The task scope.                                                         *)

Locked(g) == \E c \in Callers : calls[g][c].pc \in {"grace", "rest"}
LiveTasks(g) == {t \in Tasks : tasks[g][t] = "running"}

StoppedByState(g) == scopes[g].state = "stopped"  \* mutant: the shutdown lock is not tried
Stopped(g) == ~Locked(g) /\ scopes[g].state = "stopped"

\* TaskScope::activate, from Server::sync or from an accept loop that pinned the generation first.
Activate(g) ==
    /\ host = "running"
    /\ holders[g] # {} /\ g # candidate.scope
    /\ scopes[g].state = "pending"
    /\ scopes' = [scopes EXCEPT ![g] = [state |-> "running", handles |-> Tasks]]
    /\ tasks' = [tasks EXCEPT ![g] = [t \in Tasks |-> "running"]]
    /\ UNCHANGED <<secret, candidate, aborted, calls, retirements, inUse, holders, host, cancels>>

\* A task returns, fails or panics by itself, cooperative ones also because they were asked to.
TaskEnds(g, t) ==
    /\ t \in LiveTasks(g)
    /\ tasks' = [tasks EXCEPT ![g][t] = "ended"]
    /\ UNCHANGED <<secret, candidate, scopes, aborted, calls, retirements, inUse, holders, host, cancels>>

\* Completion::drop: an aborted task is dropped at its next poll.
TaskCancelled(g, t) ==
    /\ t \in LiveTasks(g) /\ t \in aborted[g]
    /\ tasks' = [tasks EXCEPT ![g][t] = "cancelled"]
    /\ UNCHANGED <<secret, candidate, scopes, aborted, calls, retirements, inUse, holders, host, cancels>>

\* TaskScope::shutdown past its lock: the state is replaced, what never started is cancelled,
\* and the handles move into the call, those of tasks that do not cooperate aborted at once.
Enter(g, c) ==
    LET held == scopes[g].handles IN
    /\ calls[g][c].pc = "waiting" /\ ~Locked(g)
    /\ scopes' = [scopes EXCEPT ![g] = [state |-> "stopped", handles |-> {}]]
    /\ tasks' = [tasks EXCEPT ![g] = [t \in Tasks |-> IF @[t] = "pending" THEN "cancelled" ELSE @[t]]]
    /\ aborted' = [aborted EXCEPT ![g] = @ \cup {t \in held : <<g, t>> \notin Cooperative}]
    /\ calls' = [calls EXCEPT ![g][c] = [pc |-> IF held = {} THEN "ended" ELSE "grace", held |-> held]]
    /\ UNCHANGED <<secret, candidate, retirements, inUse, holders, host, cancels>>

GraceExpiresQuietly(g, c) ==  \* mutant: the rest is awaited without being aborted
    /\ calls[g][c].pc = "grace"
    /\ calls' = [calls EXCEPT ![g][c].pc = "rest"]
    /\ UNCHANGED <<secret, candidate, scopes, tasks, aborted, retirements, inUse, holders, host, cancels>>
\* The shared deadline passes: the rest is aborted, and awaited without a limit.
GraceExpires(g, c) ==
    /\ calls[g][c].pc = "grace"
    /\ aborted' = [aborted EXCEPT ![g] = @ \cup calls[g][c].held]
    /\ calls' = [calls EXCEPT ![g][c].pc = "rest"]
    /\ UNCHANGED <<secret, candidate, scopes, tasks, retirements, inUse, holders, host, cancels>>

JoinedAtDeadline(g, c) == calls[g][c].pc = "rest"  \* mutant: aborted is as good as joined
Joined(g, c) == calls[g][c].pc \in {"grace", "rest"} /\ calls[g][c].held \cap LiveTasks(g) = {}

\* The last handle is joined; the lock is free again.
ShutdownEnds(g, c) ==
    /\ Joined(g, c)
    /\ calls' = [calls EXCEPT ![g][c] = [pc |-> "ended", held |-> {}]]
    /\ UNCHANGED <<secret, candidate, scopes, tasks, aborted, retirements, inUse, holders, host, cancels>>

Joining(g, cs) == {c \in cs : calls[g][c].pc \in {"grace", "rest"}}

\* ShutdownWork::drop of the calls by cs: the handles are aborted and kept for the next call.
AbandonedLost(g, cs) ==  \* mutant: the handles go with the call
    scopes[g]
Abandoned(g, cs) ==
    IF Joining(g, cs) = {} THEN scopes[g]
    ELSE [scopes[g] EXCEPT !.state = "stopping", !.handles = UNION {calls[g][c].held : c \in Joining(g, cs)}]
AbandonCalls(cs) ==
    /\ scopes' = [g \in Scopes |-> Abandoned(g, cs)]
    /\ aborted' = [g \in Scopes |-> aborted[g] \cup UNION {calls[g][c].held : c \in Joining(g, cs)}]
    /\ calls' = [g \in Scopes |-> [c \in Callers |-> IF c \in cs THEN Inactive ELSE calls[g][c]]]

-----------------------------------------------------------------------------
(* Preparation.                                                            *)

\* State::reap: a retired generation leaves once its job is done and its scope stopped.
Reaped == {g \in retirements.jobs : calls[g]["job"].pc = "ended" /\ Stopped(g)}

StartPreparation(g) ==
    /\ host = "running" /\ candidate.pc = "none"
    /\ scopes[g].state = "unborn" /\ \A h \in 1..(g - 1) : scopes[h].state # "unborn"
    /\ candidate' = [pc |-> "reading", scope |-> g, read |-> <<>>]
    /\ UNCHANGED <<secret, scopes, tasks, aborted, calls, retirements, inUse, holders, host, cancels>>

\* SecretDependencies::read: a secret read before must read the same.
ConsistentNow(r) == TRUE  \* mutant: only the first reading is remembered
Consistent(r) ==
    \A i \in DOMAIN candidate.read : SecretReads[i] = r => candidate.read[i] = secret[r]

\* The next directive is prepared, or the preparation fails and everything it had built is dropped.
ReadSecret ==
    LET r == SecretReads[Len(candidate.read) + 1] IN
    /\ candidate.pc = "reading" /\ Len(candidate.read) < Len(SecretReads)
    /\ candidate' = IF Consistent(r) THEN [candidate EXCEPT !.read = Append(@, secret[r])] ELSE NoCandidate
    /\ UNCHANGED <<secret, scopes, tasks, aborted, calls, retirements, inUse, holders, host, cancels>>

\* PreparedPlugins::tasks and Retirements::register: the scope is registered before it can be published.
Register ==
    LET g == candidate.scope
        tracked == retirements.entries \ Reaped IN
    /\ candidate.pc = "reading" /\ Len(candidate.read) = Len(SecretReads)
    /\ IF retirements.closed \/ Cardinality(tracked) >= RetireLimit
       THEN /\ candidate' = NoCandidate
            /\ retirements' = IF retirements.closed THEN retirements
                           ELSE [retirements EXCEPT !.entries = tracked, !.jobs = @ \ Reaped]
            /\ UNCHANGED <<scopes, holders>>
       ELSE /\ candidate' = [candidate EXCEPT !.pc = "prepared"]
            /\ retirements' = [retirements EXCEPT !.entries = tracked \cup {g}, !.jobs = @ \ Reaped]
            /\ scopes' = [scopes EXCEPT ![g] = [state |-> "pending", handles |-> {}]]
            /\ holders' = [holders EXCEPT ![g] = {"store"}]
    /\ UNCHANGED <<secret, tasks, aborted, calls, inUse, host, cancels>>

\* Retirements::retire: the last holder of gone is gone.
Retired(gone) ==
    IF gone \notin retirements.entries \/ (retirements.closed /\ ~Stopped(gone) /\ scopes[gone].state # "pending")
    THEN retirements
    ELSE IF scopes[gone].state = "pending" \/ Stopped(gone)
         THEN [retirements EXCEPT !.entries = @ \ {gone}]
         ELSE [retirements EXCEPT !.jobs = @ \cup {gone}]
ReleaseHolder(g, who) ==
    /\ holders' = [holders EXCEPT ![g] = @ \ {who}]
    /\ IF holders[g] = {who}
       THEN /\ retirements' = Retired(g)
            /\ calls' = IF Retired(g).jobs # retirements.jobs THEN [calls EXCEPT ![g]["job"].pc = "waiting"] ELSE calls
       ELSE UNCHANGED <<retirements, calls>>

\* GenerationStore publishes the candidate and drops the generation it replaces.
PublishPlugins ==
    /\ candidate.pc = "prepared" /\ host = "running"
    /\ inUse' = candidate.scope
    /\ candidate' = NoCandidate
    /\ IF inUse = NoScope THEN UNCHANGED <<holders, retirements, calls>> ELSE ReleaseHolder(inUse, "store")
    /\ UNCHANGED <<secret, scopes, tasks, aborted, host, cancels>>

\* The candidate went stale: it is dropped as it is.
DiscardCandidate ==
    /\ candidate.pc = "prepared"
    /\ candidate' = NoCandidate
    /\ ReleaseHolder(candidate.scope, "store")
    /\ UNCHANGED <<secret, scopes, tasks, aborted, inUse, host, cancels>>

\* A connection holds the generation it was accepted under.
PinPlugins(g) ==
    /\ host = "running" /\ g = inUse /\ "connection" \notin holders[g]
    /\ holders' = [holders EXCEPT ![g] = @ \cup {"connection"}]
    /\ UNCHANGED <<secret, candidate, scopes, tasks, aborted, calls, retirements, inUse, host, cancels>>
UnpinPlugins(g) ==
    /\ "connection" \in holders[g]
    /\ ReleaseHolder(g, "connection")
    /\ UNCHANGED <<secret, candidate, scopes, tasks, aborted, inUse, host, cancels>>

\* Whoever manages the secrets replaces one.
RotateSecret(r) ==
    /\ secret[r] < MaxRotations
    /\ secret' = [secret EXCEPT ![r] = @ + 1]
    /\ UNCHANGED <<candidate, scopes, tasks, aborted, calls, retirements, inUse, holders, host, cancels>>

-----------------------------------------------------------------------------
(* The process stops: Server::shutdown, then App::shutdown.                *)

\* Retirements::shutdown: registration is sealed and every registered scope is shut down.
HostBegins ==
    /\ host \in {"running", "dropped"} /\ candidate.pc = "none"
    /\ host' = "scopes"
    /\ retirements' = [retirements EXCEPT !.closed = TRUE]
    /\ calls' = [g \in Scopes |-> IF g \in retirements.entries THEN [calls[g] EXCEPT !["host"].pc = "waiting"] ELSE calls[g]]
    /\ UNCHANGED <<secret, candidate, scopes, tasks, aborted, inUse, holders, cancels>>

\* Then the retirement jobs are joined and the retirements emptied.
HostJoinsJobs ==
    /\ host = "scopes"
    /\ \A g \in Scopes : calls[g]["host"].pc \in {"none", "ended"}
    /\ \A g \in retirements.jobs : calls[g]["job"].pc = "ended"
    /\ retirements' = [retirements EXCEPT !.entries = {}, !.jobs = {}]
    /\ host' = IF inUse = NoScope THEN "done" ELSE "app"
    /\ calls' = IF inUse = NoScope THEN calls ELSE [calls EXCEPT ![inUse]["app"].pc = "waiting"]
    /\ UNCHANGED <<secret, candidate, scopes, tasks, aborted, inUse, holders, cancels>>
HostEnds ==
    /\ host = "app" /\ calls[inUse]["app"].pc = "ended"
    /\ host' = "done"
    /\ UNCHANGED <<secret, candidate, scopes, tasks, aborted, calls, retirements, inUse, holders, cancels>>

\* Whoever awaits the shutdown drops it; it is called again.
HostCancelled ==
    /\ host \in {"scopes", "app"} /\ cancels < MaxCancels
    /\ host' = "dropped"
    /\ cancels' = cancels + 1
    /\ AbandonCalls({"host", "app"})
    /\ UNCHANGED <<secret, candidate, tasks, retirements, inUse, holders>>

\* The application is dropped instead, and with the last generation Retirements: scopes and jobs are
\* aborted, none awaited.
HostDropped ==
    /\ host \in {"running", "dropped"} /\ candidate.pc = "none"
    /\ \A g \in Scopes : "connection" \notin holders[g]
    /\ host' = "gone"
    /\ scopes' = [g \in Scopes |-> Abandoned(g, {"job"})]
    /\ aborted' = [g \in Scopes |->
         aborted[g] \cup scopes[g].handles \cup UNION {calls[g][c].held : c \in Joining(g, {"job"})}]
    /\ calls' = [g \in Scopes |-> [c \in Callers |-> Inactive]]
    /\ retirements' = [retirements EXCEPT !.entries = {}, !.jobs = {}]
    /\ holders' = [g \in Scopes |-> {}]
    /\ UNCHANGED <<secret, candidate, tasks, inUse, cancels>>

ScopeNext(g) ==
    \/ Activate(g) \/ StartPreparation(g) \/ PinPlugins(g) \/ UnpinPlugins(g)
    \/ \E t \in Tasks : TaskEnds(g, t) \/ TaskCancelled(g, t)
    \/ \E c \in Callers : Enter(g, c) \/ GraceExpires(g, c) \/ ShutdownEnds(g, c)
PluginNext ==
    \/ \E g \in Scopes : ScopeNext(g)
    \/ \E r \in Refs : RotateSecret(r)
    \/ ReadSecret \/ Register \/ PublishPlugins \/ DiscardCandidate
    \/ HostBegins \/ HostJoinsJobs \/ HostEnds \/ HostCancelled \/ HostDropped

\* The runtime polls every future and drops aborted tasks; the deadline passes.  Nothing makes a task
\* end by itself, a connection close or the process stop.
PluginFairness ==
    /\ \A g \in Scopes : \A t \in Tasks : WF_pluginVars(TaskCancelled(g, t))
    /\ \A g \in Scopes : \A c \in Callers :
         WF_pluginVars(Enter(g, c)) /\ WF_pluginVars(GraceExpires(g, c)) /\ WF_pluginVars(ShutdownEnds(g, c))
    /\ WF_pluginVars(HostJoinsJobs) /\ WF_pluginVars(HostEnds)

-----------------------------------------------------------------------------
(* Properties.                                                             *)

\* A task that runs can be ended by someone: its handle is in its scope or in a shutdown of it that is
\* under way, or it is aborted already; and a shutdown of the process that returned left none running.
\* A shutdown dropped half-way, or a generation released during one, loses no task.
NoTaskLeft ==
    /\ \A g \in Scopes : \A t \in LiveTasks(g) :
         t \in aborted[g] \cup scopes[g].handles \cup UNION {calls[g][c].held : c \in Joining(g, Callers)}
    /\ host = "done" => \A g \in Scopes : LiveTasks(g) = {}

\* Every directive of the generation under preparation saw the same value of a secret, whatever rotates meanwhile.
SecretsAgree ==
    \A i, j \in DOMAIN candidate.read : SecretReads[i] = SecretReads[j] => candidate.read[i] = candidate.read[j]

\* Once nobody holds a generation that was started, its tasks end, without waiting for them to agree,
\* unless whoever stops the process drops its shutdown and does not call it again.
ReleasedTasksEnd ==
    \A g \in Scopes : (scopes[g].state # "unborn" /\ holders[g] = {}) ~> (LiveTasks(g) = {} \/ host = "dropped")

\* Shutdowns dropped half-way and secrets rotated during a preparation leave no
\* task that nobody can end and no generation that believes two values at once.
PluginsSound == NoTaskLeft /\ SecretsAgree
=============================================================================
