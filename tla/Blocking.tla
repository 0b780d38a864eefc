------------------------------ MODULE Blocking ------------------------------
(***************************************************************************)
(* Admission of plugins' blocking work (gatel-plugin-runtime blocking.rs): *)
(* a budget of jobs and of declared memory shared by every generation.  A  *)
(* job is admitted or refused at once and is charged until its closure is  *)
(* gone, its waiter being there or not.  The limits change with the        *)
(* generation that is published, and never take back what is charged.      *)
(***************************************************************************)
EXTENDS Integers, FiniteSets

CONSTANTS Jobs,             \* pieces of blocking work
          MemoryBytes,      \* what a job may declare
          BlockingLimits    \* [jobs, memory] a configuration may ask for

ASSUME BlockingAssumption ==
    /\ MemoryBytes \subseteq Nat
    /\ \A l \in BlockingLimits : l.jobs \in 1..1024 /\ l.memory \in Nat \ {0}   \* Limits::validate

VARIABLES budget,       \* Snapshot
          reservations, \* Reservation of each job
          change,       \* PreparedChange of the candidate, and Publication while it is published
          inForce       \* the limits published, or set, last

blockingVars == <<budget, reservations, change, inForce>>

NoChange == [pc |-> "none"]

BlockingInit ==
    /\ \E l \in BlockingLimits :
         budget = [limits |-> l, jobs |-> 0, memory |-> 0, running |-> 0, closed |-> FALSE,
                   admitted |-> 0, refused |-> [closed |-> 0, jobs |-> 0, memory |-> 0], completed |-> 0, panicked |-> 0, abandoned |-> 0]
    /\ reservations = [j \in Jobs |-> [phase |-> "none", memory |-> 0]]
    /\ change = NoChange
    /\ inForce = budget.limits

\* The mutex is held from begin_publication until the publication is over.
Unlocked == change.pc # "publishing"
Charged(phases) == {j \in Jobs : reservations[j].phase \in phases}

\* Why a job is refused, the first reason that applies: it is counted under that one.
Refusal(m) ==
    IF budget.closed THEN "closed"
    ELSE IF budget.jobs >= budget.limits.jobs THEN "jobs"
    ELSE IF budget.memory + m > budget.limits.memory THEN "memory" ELSE "none"

\* Executor::reserve.
ReserveBlocking(j, m) ==
    /\ Unlocked /\ reservations[j].phase = "none"
    /\ IF Refusal(m) # "none"
       THEN /\ reservations' = [reservations EXCEPT ![j].phase = "refused"]
            /\ budget' = [budget EXCEPT !.refused[Refusal(m)] = @ + 1]
       ELSE /\ reservations' = [reservations EXCEPT ![j] = [phase |-> "queued", memory |-> m]]
            /\ budget' = [budget EXCEPT !.jobs = @ + 1, !.memory = @ + m, !.admitted = @ + 1]
    /\ UNCHANGED <<change, inForce>>

\* Reservation::start, on a blocking thread.
StartBlocking(j) ==
    /\ Unlocked /\ reservations[j].phase = "queued"
    /\ reservations' = [reservations EXCEPT ![j].phase = "running"]
    /\ budget' = [budget EXCEPT !.running = @ + 1]
    /\ UNCHANGED <<change, inForce>>

\* Reservation::drop: the closure returned, it panicked, or the runtime dropped it before it started.
SettleQueued(j, returned) ==  \* mutant: a closure that never ran counts as one that did
    [budget EXCEPT !.jobs = @ - 1, !.memory = @ - reservations[j].memory,
                   !.running = @ - 1, !.panicked = @ + 1]
Settle(j, returned) ==
    LET freed == [budget EXCEPT !.jobs = @ - 1, !.memory = @ - reservations[j].memory] IN
    IF reservations[j].phase = "queued" THEN [freed EXCEPT !.abandoned = @ + 1]
    ELSE IF returned THEN [freed EXCEPT !.running = @ - 1, !.completed = @ + 1]
         ELSE [freed EXCEPT !.running = @ - 1, !.panicked = @ + 1]
DropReservation(j, returned) ==
    /\ Unlocked /\ reservations[j].phase \in {"queued", "running"}
    /\ returned => reservations[j].phase = "running"
    /\ reservations' = [reservations EXCEPT ![j].phase = "over"]
    /\ budget' = Settle(j, returned)
    /\ UNCHANGED <<change, inForce>>

\* Budget::prepare: inert.
PrepareLimits(l) ==
    /\ change.pc = "none"
    /\ change' = [pc |-> "prepared", limits |-> l]
    /\ UNCHANGED <<budget, reservations, inForce>>
\* PreparedChange::begin_publication, under the generation's write lock.
BeginPublication ==
    /\ change.pc = "prepared"
    /\ change' = [pc |-> "publishing", limits |-> change.limits, previous |-> budget.limits]
    /\ budget' = [budget EXCEPT !.limits = change.limits]
    /\ UNCHANGED <<reservations, inForce>>
\* Publication::publish, or its drop without having been published.
RolledBackNever == UNCHANGED budget  \* mutant: the limits stay
RolledBack == budget' = [budget EXCEPT !.limits = change.previous]
EndPublication(published) ==
    /\ change.pc = "publishing"
    /\ IF published THEN UNCHANGED budget ELSE RolledBack
    /\ inForce' = IF published THEN change.limits ELSE inForce
    /\ change' = NoChange
    /\ UNCHANGED reservations
DropChange ==
    /\ change.pc = "prepared"
    /\ change' = NoChange
    /\ UNCHANGED <<budget, reservations, inForce>>

\* Budget::reconfigure: the limits at once, outside any publication.
Reconfigure(l) ==
    /\ Unlocked
    /\ budget' = [budget EXCEPT !.limits = l]
    /\ inForce' = l
    /\ UNCHANGED <<reservations, change>>
\* Budget::close.
CloseBudget ==
    /\ Unlocked /\ ~budget.closed
    /\ budget' = [budget EXCEPT !.closed = TRUE]
    /\ UNCHANGED <<reservations, change, inForce>>

BlockingNext ==
    \/ \E j \in Jobs : \E m \in MemoryBytes : ReserveBlocking(j, m)
    \/ \E j \in Jobs : StartBlocking(j) \/ \E returned \in BOOLEAN : DropReservation(j, returned)
    \/ \E l \in BlockingLimits : PrepareLimits(l) \/ Reconfigure(l)
    \/ BeginPublication \/ DropChange \/ CloseBudget
    \/ \E published \in BOOLEAN : EndPublication(published)

BlockingSpec == BlockingInit /\ [][BlockingNext]_blockingVars

-----------------------------------------------------------------------------
(* Properties.                                                             *)

\* The bytes the closures that still exist declared, each told apart by its job.
ChargedBytes == UNION {{j} \X (1..reservations[j].memory) : j \in Charged({"queued", "running"})}
AskedJobs == {j \in Jobs : reservations[j].phase # "none"}
Refusals == budget.refused.closed + budget.refused.jobs + budget.refused.memory

\* The budget is exactly what the closures that still exist declared, and every job asked for is
\* counted once, in order of its fate, although limits shrink below what is charged, closures panic
\* and waiters leave.
BudgetAccounts ==
    /\ budget.jobs = Cardinality(Charged({"queued", "running"}))
    /\ budget.running = Cardinality(Charged({"running"}))
    /\ budget.memory = Cardinality(ChargedBytes)
    /\ budget.admitted = budget.jobs + budget.completed + budget.panicked + budget.abandoned
    /\ budget.admitted + Refusals = Cardinality(AskedJobs)

\* A job is admitted only within the limits of the generation in force, and never once the budget is
\* closed: the limits a publication that failed had put there admit nothing.
AdmitsWithinBudget ==
    [][budget'.admitted > budget.admitted =>
         /\ ~budget.closed
         /\ budget'.jobs <= inForce.jobs /\ budget'.memory <= inForce.memory]_blockingVars
=============================================================================
