------------------------ MODULE Administration_proofs -----------------------
(***************************************************************************)
(* Proofs about the host, for every set of tasks, watchers and readers,    *)
(* and about what administration keeps on disk, for every number of edits, *)
(* processes and records.                                                  *)
(*                                                                         *)
(* The guards agree with the control because each process changes only     *)
(* what is its own in the sets of permits and in the queues (Apart), which *)
(* needs no more than the labels; that nothing is at work in the teardown  *)
(* needs the gates that were closed before (GatesClosed) and who may hold  *)
(* the lifecycle lock (Shutting).  The receipts are honest because only    *)
(* the owner of reload_execution publishes or activates.                   *)
(*                                                                         *)
(* Whatever crashes come between any two steps, the log and both versions  *)
(* of the checkpoint fit together, and nothing confirmed is lost.          *)
(***************************************************************************)
EXTENDS AppHost, Durability, WellFoundedInduction, TLAPS

-----------------------------------------------------------------------------
(* Queues.                                                                 *)

\* m is l after p has come or gone.
Apart(l, m, p) == \A u : u # p => (Holds(u, m) <=> Holds(u, l)) /\ (Owns(u, l) => Owns(u, m))

LEMMA Same == ASSUME NEW l, NEW p PROVE Apart(l, l, p)
  BY DEF Apart

LEMMA Comes ==
  ASSUME NEW A, NEW l \in Seq(A), NEW p \in A
  PROVE  /\ Append(l, p) \in Seq(A)
         /\ Holds(p, Append(l, p))
         /\ Apart(l, Append(l, p), p)
<1>1. /\ Append(l, p) \in Seq(A) /\ DOMAIN Append(l, p) = 1..Len(l) + 1 /\ Len(l) \in Nat
      /\ DOMAIN l = 1..Len(l)
      /\ \A i \in DOMAIN l : Append(l, p)[i] = l[i]
      /\ Append(l, p)[Len(l) + 1] = p
  OBVIOUS
<1>2. Holds(p, Append(l, p))
  BY <1>1 DEF Holds
<1>3. ASSUME NEW u, u # p PROVE Holds(u, Append(l, p)) <=> Holds(u, l)
  <2>1. \A i \in 1..Len(l) + 1 : i \in 1..Len(l) \/ i = Len(l) + 1
    BY <1>1
  <2>2. \A i \in 1..Len(l) : i \in 1..Len(l) + 1
    BY <1>1
  <2> QED
    BY <1>1, <1>3, <2>1, <2>2 DEF Holds
<1>4. ASSUME NEW u, Owns(u, l) PROVE Owns(u, Append(l, p))
  <2>1. l # <<>> /\ Head(l) = u
    BY <1>4 DEF Owns
  <2>2. Append(l, p) # <<>> /\ Head(Append(l, p)) = l[1] /\ Head(l) = l[1]
    BY <1>1, <2>1
  <2> QED
    BY <2>1, <2>2 DEF Owns
<1> QED
  BY <1>1, <1>2, <1>3, <1>4 DEF Apart

LEMMA Goes ==
  ASSUME NEW A, NEW l \in Seq(A), NEW p
  PROVE  /\ Leaves(p, l) \in Seq(A)
         /\ ~ Holds(p, Leaves(p, l))
         /\ Apart(l, Leaves(p, l), p)
<1> DEFINE keep == {i \in DOMAIN l : l[i] # p}
           m == Leaves(p, l)
<1>0. keep \in SUBSET DOMAIN l /\ m = Retain(l, keep)
  BY DEF Leaves
<1>1. /\ m \in Seq(A)
      /\ Len(m) = Cardinality(keep)
      /\ \A k \in DOMAIN m : \E i \in keep : m[k] = l[i] /\ Rank(keep, i) = k
      /\ \A i \in keep : \E k \in DOMAIN m : m[k] = l[i]
  <2> HIDE DEF keep, m
  <2> QED
    BY <1>0, Retained
<1>2. ~ Holds(p, m)
  BY <1>1 DEF Holds
<1>3. ASSUME NEW u, u # p PROVE Holds(u, m) <=> Holds(u, l)
  BY <1>1, <1>3 DEF Holds
<1>4. ASSUME NEW u, u # p, Owns(u, l) PROVE Owns(u, m)
  <2>1. l # <<>> /\ Head(l) = u /\ 1 \in DOMAIN l /\ l[1] = u
    BY <1>4 DEF Owns
  <2>2. 1 \in keep
    BY <1>4, <2>1
  <2>3. PICK k \in DOMAIN m : \E i \in keep : i = 1 /\ m[k] = l[i]
    BY <1>1, <2>2
  <2>4. m # <<>> /\ 1 \in DOMAIN m /\ Head(m) = m[1]
    BY <1>1, <2>3
  <2>5. PICK i \in keep : m[1] = l[i] /\ Rank(keep, i) = 1
    BY <1>1, <2>4
  <2>6. i = 1
    <3> SUFFICES ASSUME i # 1 PROVE FALSE
      OBVIOUS
    <3>1. Len(l) \in Nat /\ DOMAIN l = 1..Len(l) /\ keep \in SUBSET (1..Len(l))
      OBVIOUS
    <3>2. 1 < i
      BY <3>1
    <3>3. Rank(keep, 1) < Rank(keep, i) /\ Rank(keep, 1) \in 1..Cardinality(keep) /\ Cardinality(keep) \in Nat
      <4> HIDE DEF keep
      <4> QED
        BY <2>2, <2>5, <3>1, <3>2, Ranked
    <3> QED
      BY <2>5, <3>3
  <2> QED
    BY <2>1, <2>4, <2>5, <2>6 DEF Owns
<1> QED
  BY <1>1, <1>2, <1>3, <1>4 DEF Apart

LEMMA Changes ==
  ASSUME NEW A, NEW l \in Seq(A), NEW p, NEW m,
         m = l \/ (p \in A /\ m = Append(l, p)) \/ m = Leaves(p, l)
  PROVE  m \in Seq(A) /\ Apart(l, m, p)
<1>1. CASE m = l
  BY <1>1, Same
<1>2. CASE p \in A /\ m = Append(l, p)
  BY <1>2, Comes
<1>3. CASE m = Leaves(p, l)
  BY <1>3, Goes
<1> QED
  BY <1>1, <1>2, <1>3

LEMMA Nobody ==
  ASSUME NEW A, NEW l \in Seq(A), \A u \in A : ~ Holds(u, l)
  PROVE  l = <<>>
<1>1. \A i \in DOMAIN l : l[i] \in A
  OBVIOUS
<1>2. DOMAIN l = {}
  BY <1>1 DEF Holds
<1> QED
  BY <1>2

-----------------------------------------------------------------------------
(* The guards.                                                             *)

GuardTypes ==
  /\ pc \in [Procs -> TaskLabels]
  /\ \A w \in Watchers : pc[w] \in WatcherLabels
  /\ slots \subseteq Tasks
  /\ admissions \subseteq Procs \X {"task", "work", "attempt"}
  /\ execution \in Seq(Tasks)
  /\ worker \in Seq(Procs)
  /\ lifecycle \in Seq(Tasks \cup {Shutdown})
  /\ closed \subseteq {"slots", "worker", "submissions", "sealed", "lifecycle"}
  /\ sd \in ShutdownLabels
  /\ waiter \in {"none", "registered", "woken"}

TaskGuards(t) ==
  /\ t \in slots <=> pc[t] # "idle"
  /\ <<t, "task">> \in admissions <=> pc[t] \notin {"idle", "slotted", "notify", "release"}
  /\ <<t, "attempt">> \in admissions => pc[t] \in {"prepare", "worked"}
  /\ Holds(t, execution) <=> pc[t] \notin {"idle", "slotted", "leave", "notify", "release"}
  /\ pc[t] \notin {"idle", "slotted", "queued", "leave", "notify", "release"} => Owns(t, execution)
  /\ Holds(t, lifecycle) <=> pc[t] \in {"lock", "applied"}
  /\ <<t, "work">> \in admissions <=> pc[t] \in {"work", "prepare", "worked"}
  /\ Holds(t, worker) <=> pc[t] \in {"want", "acquired", "work", "prepare", "worked"}
WatcherGuards(w) ==
  /\ <<w, "work">> \in admissions <=> pc[w] \in {"work", "leave"}
  /\ Holds(w, worker) <=> pc[w] # "idle"
  /\ <<w, "task">> \notin admissions /\ <<w, "attempt">> \notin admissions
WorkerOwned(p) == pc[p] \in {"acquired", "work", "prepare", "worked"} => Owns(p, worker)
Guards ==
  /\ \A t \in Tasks : TaskGuards(t)
  /\ \A w \in Watchers : WatcherGuards(w)
  /\ \A p \in Procs : WorkerOwned(p)

\* Which gates shutdown has closed where it is.
Opening == {"open", "worker", "submissions"}
GatesClosed ==
  /\ "submissions" \in closed <=> sd \notin Opening
  /\ "sealed" \in closed <=> sd \notin Opening \cup {"seal"}
  /\ "lifecycle" \in closed <=> sd \notin Opening \cup {"seal", "fence"}

\* When shutdown holds the lifecycle lock, and from when on nothing is at work.
Dismantling == {"lock", "server", "binds", "supervisor", "plugins", "acme"}
AtRest(p) ==
  IF p \in Tasks THEN pc[p] \in {"idle", "slotted", "notify", "release"} ELSE pc[p] \notin {"work", "leave"}
Shutting ==
  /\ Holds(Shutdown, lifecycle) <=> sd \in Dismantling \cup {"fence"}
  /\ sd \in Dismantling => lifecycle = <<Shutdown>>
  /\ sd \in Dismantling \cup {"sinks", "done"} => \A p \in Procs : AtRest(p)

GInv == GuardTypes /\ Guards /\ GatesClosed /\ Shutting

-----------------------------------------------------------------------------
(* A step of one process.                                                  *)

\* What p leaves alone: what the others hold.
OthersKeep(p) ==
  /\ \A u \in Procs : u # p => pc'[u] = pc[u]
  /\ \A u \in Tasks : u # p => (u \in slots' <=> u \in slots)
  /\ \A u \in Procs, k \in {"task", "work", "attempt"} :
       u # p => (<<u, k>> \in admissions' <=> <<u, k>> \in admissions)
  /\ Apart(execution, execution', p)
  /\ Apart(worker, worker', p)
  /\ Apart(lifecycle, lifecycle', p)

LEMMA Roles ==
  /\ Tasks \subseteq Procs /\ Watchers \subseteq Procs
  /\ \A t \in Tasks : t \notin Watchers /\ t # Shutdown
  /\ \A w \in Watchers : w \notin Tasks /\ w # Shutdown
  /\ \A p \in Procs : p # Shutdown /\ (p \in Tasks \/ p \in Watchers)
  BY HostAssumption DEF Procs

LEMMA OthersGuarded ==
  ASSUME Guards, NEW p \in Procs, OthersKeep(p)
  PROVE  /\ \A u \in Tasks : u # p => TaskGuards(u)'
         /\ \A u \in Watchers : u # p => WatcherGuards(u)'
         /\ \A u \in Procs : u # p => WorkerOwned(u)'
<1>1. ASSUME NEW u \in Tasks, u # p PROVE TaskGuards(u)'
  <2>1. TaskGuards(u)
    BY DEF Guards
  <2>2. /\ pc'[u] = pc[u]
        /\ u \in slots' <=> u \in slots
        /\ <<u, "task">> \in admissions' <=> <<u, "task">> \in admissions
        /\ <<u, "work">> \in admissions' <=> <<u, "work">> \in admissions
        /\ <<u, "attempt">> \in admissions' <=> <<u, "attempt">> \in admissions
    BY <1>1, Roles DEF OthersKeep
  <2>3. /\ Holds(u, execution') <=> Holds(u, execution)
        /\ Holds(u, worker') <=> Holds(u, worker)
        /\ Holds(u, lifecycle') <=> Holds(u, lifecycle)
        /\ Owns(u, execution) => Owns(u, execution')
    BY <1>1 DEF OthersKeep, Apart
  <2> QED
    BY <2>1, <2>2, <2>3, Zenon DEF TaskGuards
<1>2. ASSUME NEW u \in Watchers, u # p PROVE WatcherGuards(u)'
  <2>1. WatcherGuards(u)
    BY DEF Guards
  <2>2. /\ pc'[u] = pc[u]
        /\ <<u, "task">> \in admissions' <=> <<u, "task">> \in admissions
        /\ <<u, "work">> \in admissions' <=> <<u, "work">> \in admissions
        /\ <<u, "attempt">> \in admissions' <=> <<u, "attempt">> \in admissions
    BY <1>2, Roles DEF OthersKeep
  <2>3. Holds(u, worker') <=> Holds(u, worker)
    BY <1>2 DEF OthersKeep, Apart
  <2> QED
    BY <2>1, <2>2, <2>3, Zenon DEF WatcherGuards
<1>3. ASSUME NEW u \in Procs, u # p PROVE WorkerOwned(u)'
  <2>1. WorkerOwned(u) /\ pc'[u] = pc[u]
    BY <1>3 DEF Guards, OthersKeep
  <2>2. Owns(u, worker) => Owns(u, worker')
    BY <1>3 DEF OthersKeep, Apart
  <2> QED
    BY <2>1, <2>2, Zenon DEF WorkerOwned
<1> QED
  BY <1>1, <1>2, <1>3

\* A step of p that is right for p is right.
LEMMA ProcKeeps ==
  ASSUME GInv, NEW p \in Procs, OthersKeep(p), GuardTypes', UNCHANGED <<closed, sd>>,
         p \in Tasks => TaskGuards(p)', p \in Watchers => WatcherGuards(p)', WorkerOwned(p)',
         AtRest(p) /\ "submissions" \in closed => AtRest(p)' /\ UNCHANGED lifecycle
  PROVE  GInv'
<1>1. Guards'
  BY OthersGuarded DEF GInv, Guards
<1>2. GatesClosed'
  BY DEF GInv, GatesClosed
<1>3. Shutting'
  <2>1. Holds(Shutdown, lifecycle') <=> Holds(Shutdown, lifecycle)
    BY Roles DEF OthersKeep, Apart
  <2>2. ASSUME sd \in Dismantling \cup {"sinks", "done"} PROVE UNCHANGED lifecycle /\ \A u \in Procs : AtRest(u)'
    <3>1. "submissions" \in closed
      BY <2>2 DEF GInv, GatesClosed, Dismantling, Opening
    <3>2. \A u \in Procs : AtRest(u)
      BY <2>2 DEF GInv, Shutting
    <3>3. AtRest(p)' /\ UNCHANGED lifecycle
      BY <3>1, <3>2
    <3>4. ASSUME NEW u \in Procs, u # p PROVE AtRest(u)'
      BY <3>2, <3>4 DEF OthersKeep, AtRest
    <3> QED
      BY <3>3, <3>4
  <2> QED
    BY <2>1, <2>2 DEF GInv, Shutting
<1> QED
  BY <1>1, <1>2, <1>3 DEF GInv

LEMMA Moves ==
  ASSUME GInv, NEW p \in Procs, NEW x \in TaskLabels, p \in Watchers => x \in WatcherLabels,
         pc' = [pc EXCEPT ![p] = x]
  PROVE  /\ pc' \in [Procs -> TaskLabels]
         /\ \A w \in Watchers : pc'[w] \in WatcherLabels
         /\ pc'[p] = x
         /\ \A u \in Procs : u # p => pc'[u] = pc[u]
  BY Roles DEF GInv, GuardTypes

LEMMA Own ==
  ASSUME GInv, NEW p \in Procs
  PROVE  /\ p \in Tasks => TaskGuards(p)
         /\ p \in Watchers => WatcherGuards(p)
         /\ WorkerOwned(p)
         /\ execution \in Seq(Tasks) /\ worker \in Seq(Procs) /\ lifecycle \in Seq(Tasks \cup {Shutdown})
         /\ p \in Tasks => p \in Tasks \cup {Shutdown}
  BY DEF GInv, GuardTypes, Guards

\* A step that only moves p.
LEMMA LabelOnly ==
  ASSUME GInv, NEW p \in Procs, NEW x \in TaskLabels, p \in Watchers => x \in WatcherLabels,
         pc' = [pc EXCEPT ![p] = x], UNCHANGED <<gates, lifecycle, closed, sd>>,
         waiter' \in {"none", "registered", "woken"},
         pc'[p] = x => (p \in Tasks => TaskGuards(p)') /\ (p \in Watchers => WatcherGuards(p)')
                        /\ WorkerOwned(p)' /\ (AtRest(p) => AtRest(p)')
  PROVE  GInv'
<1>1. /\ pc' \in [Procs -> TaskLabels]
      /\ \A w \in Watchers : pc'[w] \in WatcherLabels
      /\ pc'[p] = x
      /\ \A u \in Procs : u # p => pc'[u] = pc[u]
  BY Moves
<1>2. UNCHANGED <<slots, admissions, execution, worker, lifecycle, closed, sd>>
  BY DEF gates
<1>3. GuardTypes'
  BY <1>1, <1>2 DEF GInv, GuardTypes
<1>4. OthersKeep(p)
  BY <1>1, <1>2, Same DEF OthersKeep
<1> QED
  BY <1>1, <1>2, <1>3, <1>4, ProcKeeps

LEMMA LabelSteps ==
  ASSUME GInv, NEW t \in Tasks,
         \/ TakeWorker(t) \/ Publish(t) \/ NotPublished(t) \/ Apply(t) \/ Finish(t)
         \/ Decide(t) /\ UNCHANGED lifecycle
         \/ Settle(t) /\ UNCHANGED lifecycle
         \/ Notify(t)
  PROVE  GInv'
<1>0. t \in Procs /\ t \notin Watchers /\ TaskGuards(t) /\ WorkerOwned(t)
  BY Own, Roles
<1>w. waiter \in {"none", "registered", "woken"}
  BY DEF GInv, GuardTypes
<1>1. CASE TakeWorker(t)
  <2>1. /\ pc[t] = "want" /\ pc' = [pc EXCEPT ![t] = "acquired"] /\ UNCHANGED <<gates, lifecycle, closed, sd, waiter>>
        /\ Owns(t, worker)
    BY <1>1 DEF TakeWorker, Step, stop
  <2>2. pc'[t] = "acquired" => TaskGuards(t)' /\ WorkerOwned(t)'
    BY <1>0, <2>1 DEF TaskGuards, WorkerOwned, gates
  <2> QED
    BY <1>0, <1>w, <2>1, <2>2, LabelOnly DEF TaskLabels, AtRest
<1>2. CASE Publish(t) \/ NotPublished(t)
  <2>1. /\ pc[t] = "prepare" /\ pc' = [pc EXCEPT ![t] = "worked"] /\ UNCHANGED <<gates, lifecycle, closed, sd, waiter>>
    BY <1>2 DEF Publish, NotPublished, Step, stop
  <2>2. pc'[t] = "worked" => TaskGuards(t)' /\ WorkerOwned(t)'
    BY <1>0, <2>1 DEF TaskGuards, WorkerOwned, gates
  <2> QED
    BY <1>0, <1>w, <2>1, <2>2, LabelOnly DEF TaskLabels, AtRest
<1>3. CASE Apply(t)
  <2>1. /\ pc[t] = "lock" /\ pc' = [pc EXCEPT ![t] = "applied"] /\ UNCHANGED <<gates, lifecycle, closed, sd, waiter>>
    BY <1>3 DEF Apply, Step, stop
  <2>2. pc'[t] = "applied" => TaskGuards(t)' /\ WorkerOwned(t)'
    BY <1>0, <2>1 DEF TaskGuards, WorkerOwned, gates
  <2> QED
    BY <1>0, <1>w, <2>1, <2>2, LabelOnly DEF TaskLabels, AtRest
<1>4. CASE Finish(t)
  <2>1. /\ pc[t] = "finish" /\ pc' = [pc EXCEPT ![t] = "unlock"] /\ UNCHANGED <<gates, lifecycle, closed, sd, waiter>>
    BY <1>4 DEF Finish, Step, stop
  <2>2. pc'[t] = "unlock" => TaskGuards(t)' /\ WorkerOwned(t)'
    BY <1>0, <2>1 DEF TaskGuards, WorkerOwned, gates
  <2> QED
    BY <1>0, <1>w, <2>1, <2>2, LabelOnly DEF TaskLabels, AtRest
<1>5. CASE Decide(t) /\ UNCHANGED lifecycle
  <2>1. PICK x \in {"unlock", "lock", "finish"} :
          /\ pc[t] = "decide" /\ pc' = [pc EXCEPT ![t] = x] /\ UNCHANGED <<gates, lifecycle, closed, sd, waiter>>
          /\ x = "lock" => lifecycle' = Append(lifecycle, t)
    BY <1>5 DEF Decide, Step, stop
  <2>2. x # "lock"
    <3> SUFFICES ASSUME x = "lock" PROVE FALSE
      OBVIOUS
    <3>1. Holds(t, Append(lifecycle, t))
      BY <1>0, Own, Comes
    <3> QED
      BY <1>0, <2>1, <3>1 DEF TaskGuards
  <2>3. pc'[t] = x => TaskGuards(t)' /\ WorkerOwned(t)'
    BY <1>0, <2>1, <2>2 DEF TaskGuards, WorkerOwned, gates
  <2> QED
    BY <1>0, <1>w, <2>1, <2>2, <2>3, LabelOnly DEF TaskLabels, AtRest
<1>6. CASE Settle(t) /\ UNCHANGED lifecycle
  <2>1. PICK x \in {"lock", "finish"} :
          /\ pc[t] = "applied" /\ pc' = [pc EXCEPT ![t] = x] /\ UNCHANGED <<gates, lifecycle, closed, sd, waiter>>
          /\ x = "finish" => lifecycle' = Leaves(t, lifecycle)
    BY <1>6 DEF Settle, Step, stop
  <2>2. x # "finish"
    <3> SUFFICES ASSUME x = "finish" PROVE FALSE
      OBVIOUS
    <3>1. ~ Holds(t, Leaves(t, lifecycle))
      BY <1>0, Own, Goes
    <3> QED
      BY <1>0, <2>1, <3>1 DEF TaskGuards
  <2>3. pc'[t] = x => TaskGuards(t)' /\ WorkerOwned(t)'
    BY <1>0, <2>1, <2>2 DEF TaskGuards, WorkerOwned, gates
  <2> QED
    BY <1>0, <1>w, <2>1, <2>2, <2>3, LabelOnly DEF TaskLabels, AtRest
<1>7. CASE Notify(t)
  <2>1. /\ pc[t] = "notify" /\ pc' = [pc EXCEPT ![t] = "release"] /\ UNCHANGED <<gates, lifecycle, closed, sd>>
        /\ waiter' \in {waiter, "woken"}
    BY <1>7 DEF Notify, Step
  <2>2. pc'[t] = "release" => TaskGuards(t)' /\ WorkerOwned(t)'
    BY <1>0, <2>1 DEF TaskGuards, WorkerOwned, gates
  <2> QED
    BY <1>0, <1>w, <2>1, <2>2, LabelOnly DEF TaskLabels, AtRest
<1> QED
  BY <1>1, <1>2, <1>3, <1>4, <1>5, <1>6, <1>7

\* A step that moves p and touches only what may be p's.
Kinds == {"task", "work", "attempt"}
LEMMA Touched ==
  ASSUME GInv, NEW p \in Procs, NEW x \in TaskLabels, p \in Watchers => x \in WatcherLabels,
         pc' = [pc EXCEPT ![p] = x], UNCHANGED <<closed, sd, waiter>>,
         execution' = execution \/ (p \in Tasks /\ execution' \in {Append(execution, p), Leaves(p, execution)}),
         worker' \in {worker, Append(worker, p), Leaves(p, worker)},
         lifecycle' = lifecycle \/ (p \in Tasks /\ lifecycle' \in {Append(lifecycle, p), Leaves(p, lifecycle)}),
         slots' \in {slots, slots \ {p}} \/ (p \in Tasks /\ slots' = slots \cup {p}),
         \E new, old \in SUBSET Kinds : admissions' = (admissions \cup ({p} \X new)) \ ({p} \X old)
  PROVE  OthersKeep(p) /\ GuardTypes' /\ pc'[p] = x
<1>1. /\ pc' \in [Procs -> TaskLabels]
      /\ \A w \in Watchers : pc'[w] \in WatcherLabels
      /\ pc'[p] = x
      /\ \A u \in Procs : u # p => pc'[u] = pc[u]
  BY Moves
<1>2. execution' \in Seq(Tasks) /\ Apart(execution, execution', p)
  <2>1. execution \in Seq(Tasks)
    BY Own
  <2>2. execution' = execution \/ (p \in Tasks /\ execution' = Append(execution, p)) \/ execution' = Leaves(p, execution)
    OBVIOUS
  <2> QED
    BY <2>1, <2>2, Changes
<1>3. worker' \in Seq(Procs) /\ Apart(worker, worker', p)
  <2>1. worker \in Seq(Procs)
    BY Own
  <2>2. worker' = worker \/ (p \in Procs /\ worker' = Append(worker, p)) \/ worker' = Leaves(p, worker)
    OBVIOUS
  <2> QED
    BY <2>1, <2>2, Changes
<1>4. lifecycle' \in Seq(Tasks \cup {Shutdown}) /\ Apart(lifecycle, lifecycle', p)
  <2>1. lifecycle \in Seq(Tasks \cup {Shutdown})
    BY Own
  <2>2. lifecycle' = lifecycle \/ (p \in Tasks \cup {Shutdown} /\ lifecycle' = Append(lifecycle, p)) \/ lifecycle' = Leaves(p, lifecycle)
    OBVIOUS
  <2> QED
    BY <2>1, <2>2, Changes
<1>5. slots' \subseteq Tasks /\ \A u \in Tasks : u # p => (u \in slots' <=> u \in slots)
  BY DEF GInv, GuardTypes
<1>6. PICK new, old \in SUBSET Kinds : admissions' = (admissions \cup ({p} \X new)) \ ({p} \X old)
  OBVIOUS
<1>7. \A u \in Procs, k \in Kinds : u # p => (<<u, k>> \in admissions' <=> <<u, k>> \in admissions)
  BY <1>6
<1>8. admissions' \subseteq Procs \X Kinds
  BY <1>6 DEF GInv, GuardTypes, Kinds
<1>9. GuardTypes'
  BY <1>1, <1>2, <1>3, <1>4, <1>5, <1>8 DEF GInv, GuardTypes, Kinds
<1> QED
  BY <1>1, <1>2, <1>3, <1>4, <1>5, <1>7, <1>9 DEF OthersKeep, Kinds

\* The guards of a task after it has moved.
LEMMA TaskMoves ==
  ASSUME GInv, NEW t \in Tasks, NEW x \in TaskLabels,
         pc' = [pc EXCEPT ![t] = x], UNCHANGED <<closed, sd, waiter>>,
         execution' \in {execution, Append(execution, t), Leaves(t, execution)},
         worker' \in {worker, Append(worker, t), Leaves(t, worker)},
         lifecycle' \in {lifecycle, Append(lifecycle, t), Leaves(t, lifecycle)},
         slots' \in {slots, slots \ {t}, slots \cup {t}},
         \E new, old \in SUBSET Kinds : admissions' = (admissions \cup ({t} \X new)) \ ({t} \X old),
         pc'[t] = x => TaskGuards(t)' /\ WorkerOwned(t)',
         AtRest(t) /\ "submissions" \in closed => x \in {"idle", "slotted", "notify", "release"} /\ UNCHANGED lifecycle
  PROVE  GInv'
<1>1. t \in Procs /\ t \notin Watchers
  BY Roles
<1>2. OthersKeep(t) /\ GuardTypes' /\ pc'[t] = x
  BY <1>1, Touched
<1>3. AtRest(t) /\ "submissions" \in closed => AtRest(t)' /\ UNCHANGED lifecycle
  BY <1>2 DEF AtRest
<1> QED
  BY <1>1, <1>2, <1>3, ProcKeeps

LEMMA TakeSlotStep == ASSUME GInv, NEW t \in Tasks, TakeSlot(t) PROVE GInv'
<1>1. /\ pc[t] = "idle" /\ pc' = [pc EXCEPT ![t] = "slotted"] /\ slots' = slots \cup {t}
      /\ UNCHANGED <<closed, sd, waiter, execution, worker, lifecycle, admissions>>
  BY DEF TakeSlot, Step, stop
<1>2. pc'[t] = "slotted" => TaskGuards(t)' /\ WorkerOwned(t)'
  BY <1>1, Own, Roles DEF TaskGuards, WorkerOwned
<1>3. admissions' = (admissions \cup ({t} \X {})) \ ({t} \X {})
  BY <1>1
<1> QED
  BY <1>1, <1>2, <1>3, TaskMoves DEF TaskLabels

LEMMA NoSlotStep == ASSUME GInv, NEW t \in Tasks, NoSlot(t) PROVE GInv'
<1>1. UNCHANGED <<pc, gates, lifecycle, stop>>
  BY DEF NoSlot
<1> QED
  BY <1>1 DEF GInv, GuardTypes, Guards, GatesClosed, Shutting, gates, stop,
              TaskGuards, WatcherGuards, WorkerOwned, AtRest

LEMMA EnterStep == ASSUME GInv, NEW t \in Tasks, Enter(t) PROVE GInv'
<1>0. TaskGuards(t) /\ WorkerOwned(t) /\ pc[t] = "slotted" /\ UNCHANGED <<closed, sd, waiter, worker, lifecycle>>
  BY Own, Roles DEF Enter, stop
<1>1. CASE pc' = [pc EXCEPT ![t] = "idle"] /\ slots' = slots \ {t} /\ UNCHANGED <<admissions, execution>>
  <2>1. pc'[t] = "idle" => TaskGuards(t)' /\ WorkerOwned(t)'
    BY <1>0, <1>1 DEF TaskGuards, WorkerOwned
  <2>2. admissions' = (admissions \cup ({t} \X {})) \ ({t} \X {})
    BY <1>1
  <2> QED
    BY <1>0, <1>1, <2>1, <2>2, TaskMoves DEF TaskLabels
<1>2. CASE /\ "submissions" \notin closed /\ pc' = [pc EXCEPT ![t] = "queued"]
           /\ admissions' = admissions \cup {<<t, "task">>}
           /\ execution' = Append(execution, t) /\ UNCHANGED slots
  <2>1. Holds(t, execution')
    BY <1>2, Own, Roles, Comes
  <2>2. pc'[t] = "queued" => TaskGuards(t)' /\ WorkerOwned(t)'
    BY <1>0, <1>2, <2>1 DEF TaskGuards, WorkerOwned
  <2>3. admissions' = (admissions \cup ({t} \X {"task"})) \ ({t} \X {})
    BY <1>2
  <2> QED
    BY <1>0, <1>2, <2>2, <2>3, TaskMoves DEF TaskLabels, Kinds
<1> QED
  BY <1>1, <1>2 DEF Enter

LEMMA ExecuteStep == ASSUME GInv, NEW t \in Tasks, Execute(t) PROVE GInv'
<1>0. /\ TaskGuards(t) /\ WorkerOwned(t) /\ pc[t] = "queued" /\ Owns(t, execution)
      /\ UNCHANGED <<closed, sd, waiter, slots, admissions, execution, lifecycle>>
  BY Own, Roles DEF Execute, stop
<1>3. admissions' = (admissions \cup ({t} \X {})) \ ({t} \X {})
  BY <1>0
<1>1. CASE pc' = [pc EXCEPT ![t] = "unlock"] /\ UNCHANGED worker
  <2>1. pc'[t] = "unlock" => TaskGuards(t)' /\ WorkerOwned(t)'
    BY <1>0, <1>1 DEF TaskGuards, WorkerOwned
  <2> QED
    BY <1>0, <1>1, <1>3, <2>1, TaskMoves DEF TaskLabels, AtRest
<1>2. CASE pc' = [pc EXCEPT ![t] = "want"] /\ worker' = Append(worker, t)
  <2>1. Holds(t, worker')
    BY <1>2, Own, Roles, Comes
  <2>2. pc'[t] = "want" => TaskGuards(t)' /\ WorkerOwned(t)'
    BY <1>0, <1>2, <2>1 DEF TaskGuards, WorkerOwned
  <2> QED
    BY <1>0, <1>2, <1>3, <2>2, TaskMoves DEF TaskLabels, AtRest
<1> QED
  BY <1>1, <1>2 DEF Execute

LEMMA RefusedWorkStep ==
  ASSUME GInv, NEW t \in Tasks, pc[t] \in {"want", "acquired"},
         pc' = [pc EXCEPT ![t] = "decide"], worker' = Leaves(t, worker),
         UNCHANGED <<closed, sd, waiter, slots, admissions, execution, lifecycle>>
  PROVE  GInv'
<1>0. TaskGuards(t) /\ WorkerOwned(t)
  BY Own, Roles
<1>1. ~ Holds(t, worker')
  BY Own, Roles, Goes
<1>2. pc'[t] = "decide" => TaskGuards(t)' /\ WorkerOwned(t)'
  BY <1>0, <1>1 DEF TaskGuards, WorkerOwned
<1>3. admissions' = (admissions \cup ({t} \X {})) \ ({t} \X {})
  OBVIOUS
<1> QED
  BY <1>2, <1>3, TaskMoves DEF TaskLabels, AtRest

LEMMA NoWorkerStep == ASSUME GInv, NEW t \in Tasks, NoWorker(t) PROVE GInv'
  BY RefusedWorkStep DEF NoWorker, Step, stop

LEMMA EnterWorkStep == ASSUME GInv, NEW t \in Tasks, EnterWork(t) PROVE GInv'
<1>0. /\ TaskGuards(t) /\ WorkerOwned(t) /\ pc[t] = "acquired"
      /\ UNCHANGED <<closed, sd, waiter, slots, execution, lifecycle>>
  BY Own, Roles DEF EnterWork, stop
<1>1. CASE pc' = [pc EXCEPT ![t] = "decide"] /\ worker' = Leaves(t, worker) /\ UNCHANGED admissions
  BY <1>0, <1>1, RefusedWorkStep
<1>2. CASE pc' = [pc EXCEPT ![t] = "work"] /\ admissions' = admissions \cup {<<t, "work">>} /\ UNCHANGED worker
  <2>1. pc'[t] = "work" => TaskGuards(t)' /\ WorkerOwned(t)'
    BY <1>0, <1>2 DEF TaskGuards, WorkerOwned
  <2>2. admissions' = (admissions \cup ({t} \X {"work"})) \ ({t} \X {})
    BY <1>2
  <2> QED
    BY <1>0, <1>2, <2>1, <2>2, TaskMoves DEF TaskLabels, AtRest, Kinds
<1> QED
  BY <1>1, <1>2 DEF EnterWork, Step

LEMMA EnterAttemptStep == ASSUME GInv, NEW t \in Tasks, EnterAttempt(t) PROVE GInv'
<1>0. /\ TaskGuards(t) /\ WorkerOwned(t) /\ pc[t] = "work"
      /\ UNCHANGED <<closed, sd, waiter, slots, execution, worker, lifecycle>>
  BY Own, Roles DEF EnterAttempt, stop
<1>1. CASE pc' = [pc EXCEPT ![t] = "worked"] /\ UNCHANGED admissions
  <2>1. pc'[t] = "worked" => TaskGuards(t)' /\ WorkerOwned(t)'
    BY <1>0, <1>1 DEF TaskGuards, WorkerOwned
  <2>2. admissions' = (admissions \cup ({t} \X {})) \ ({t} \X {})
    BY <1>1
  <2> QED
    BY <1>0, <1>1, <2>1, <2>2, TaskMoves DEF TaskLabels, AtRest
<1>2. CASE pc' = [pc EXCEPT ![t] = "prepare"] /\ admissions' = admissions \cup {<<t, "attempt">>}
  <2>1. pc'[t] = "prepare" => TaskGuards(t)' /\ WorkerOwned(t)'
    BY <1>0, <1>2 DEF TaskGuards, WorkerOwned
  <2>2. admissions' = (admissions \cup ({t} \X {"attempt"})) \ ({t} \X {})
    BY <1>2
  <2> QED
    BY <1>0, <1>2, <2>1, <2>2, TaskMoves DEF TaskLabels, AtRest, Kinds
<1> QED
  BY <1>1, <1>2 DEF EnterAttempt, Step

LEMMA WorkerDoneStep == ASSUME GInv, NEW t \in Tasks, WorkerDone(t) PROVE GInv'
<1>0. /\ TaskGuards(t) /\ WorkerOwned(t) /\ pc[t] = "worked" /\ pc' = [pc EXCEPT ![t] = "decide"]
      /\ admissions' = admissions \ {<<t, "work">>, <<t, "attempt">>}
      /\ worker' = Leaves(t, worker)
      /\ UNCHANGED <<closed, sd, waiter, slots, execution, lifecycle>>
  BY Own, Roles DEF WorkerDone, Step, stop
<1>1. ~ Holds(t, worker')
  BY <1>0, Own, Roles, Goes
<1>2. pc'[t] = "decide" => TaskGuards(t)' /\ WorkerOwned(t)'
  BY <1>0, <1>1 DEF TaskGuards, WorkerOwned
<1>3. admissions' = (admissions \cup ({t} \X {})) \ ({t} \X {"work", "attempt"})
  BY <1>0
<1> QED
  BY <1>0, <1>2, <1>3, TaskMoves DEF TaskLabels, AtRest, Kinds

LEMMA DecideStep == ASSUME GInv, NEW t \in Tasks, Decide(t) PROVE GInv'
<1>1. CASE UNCHANGED lifecycle
  BY <1>1, LabelSteps
<1>2. CASE pc' = [pc EXCEPT ![t] = "lock"] /\ lifecycle' = Append(lifecycle, t)
  <2>0. /\ TaskGuards(t) /\ WorkerOwned(t) /\ pc[t] = "decide"
        /\ UNCHANGED <<closed, sd, waiter, slots, admissions, execution, worker>>
    BY <1>2, Own, Roles DEF Decide, stop, gates
  <2>1. Holds(t, lifecycle')
    BY <1>2, Own, Roles, Comes
  <2>2. pc'[t] = "lock" => TaskGuards(t)' /\ WorkerOwned(t)'
    BY <2>0, <1>2, <2>1 DEF TaskGuards, WorkerOwned
  <2>3. admissions' = (admissions \cup ({t} \X {})) \ ({t} \X {})
    BY <2>0
  <2> QED
    BY <1>2, <2>0, <2>2, <2>3, TaskMoves DEF TaskLabels, AtRest
<1> QED
  BY <1>1, <1>2 DEF Decide, Step

\* Lifecycle is let go.
LEMMA UnlocksStep ==
  ASSUME GInv, NEW t \in Tasks, NEW x \in {"finish", "unlock"}, pc[t] \in {"lock", "applied", "finish"},
         pc' = [pc EXCEPT ![t] = x], lifecycle' = Leaves(t, lifecycle),
         UNCHANGED <<closed, sd, waiter, slots, admissions, execution, worker>>
  PROVE  GInv'
<1>0. TaskGuards(t) /\ WorkerOwned(t)
  BY Own, Roles
<1>1. ~ Holds(t, lifecycle')
  BY Own, Roles, Goes
<1>2. pc'[t] = x => TaskGuards(t)' /\ WorkerOwned(t)'
  BY <1>0, <1>1 DEF TaskGuards, WorkerOwned
<1>3. admissions' = (admissions \cup ({t} \X {})) \ ({t} \X {})
  OBVIOUS
<1> QED
  BY <1>2, <1>3, TaskMoves DEF TaskLabels, AtRest

LEMMA UnlockSteps == ASSUME GInv, NEW t \in Tasks, ActivateClosed(t) \/ Settle(t) \/ Panic(t) PROVE GInv'
<1>1. CASE ActivateClosed(t)
  BY <1>1, UnlocksStep DEF ActivateClosed, Step, stop, gates
<1>2. CASE Settle(t)
  <2>1. CASE UNCHANGED lifecycle
    BY <1>2, <2>1, LabelSteps
  <2>2. CASE lifecycle' = Leaves(t, lifecycle) /\ pc' = [pc EXCEPT ![t] = "finish"]
    BY <1>2, <2>2, UnlocksStep DEF Settle, stop, gates
  <2> QED
    BY <1>2, <2>1, <2>2 DEF Settle, Step
<1>3. CASE Panic(t)
  BY <1>3, UnlocksStep DEF Panic, Step, stop, gates
<1> QED
  BY <1>1, <1>2, <1>3

LEMMA ReleaseExecutionStep == ASSUME GInv, NEW t \in Tasks, ReleaseExecution(t) PROVE GInv'
<1>0. /\ TaskGuards(t) /\ WorkerOwned(t) /\ pc[t] = "unlock" /\ pc' = [pc EXCEPT ![t] = "leave"]
      /\ execution' = Leaves(t, execution)
      /\ UNCHANGED <<closed, sd, waiter, slots, admissions, worker, lifecycle>>
  BY Own, Roles DEF ReleaseExecution, Step, stop
<1>1. ~ Holds(t, execution')
  BY <1>0, Own, Roles, Goes
<1>2. pc'[t] = "leave" => TaskGuards(t)' /\ WorkerOwned(t)'
  BY <1>0, <1>1 DEF TaskGuards, WorkerOwned
<1>3. admissions' = (admissions \cup ({t} \X {})) \ ({t} \X {})
  BY <1>0
<1> QED
  BY <1>0, <1>2, <1>3, TaskMoves DEF TaskLabels, AtRest

LEMMA LeaveStep == ASSUME GInv, NEW t \in Tasks, Leave(t) PROVE GInv'
<1>0. /\ TaskGuards(t) /\ WorkerOwned(t) /\ pc[t] = "leave"
      /\ admissions' = admissions \ ({t} \X {"task", "work"})
      /\ UNCHANGED <<closed, sd, waiter, slots, execution, worker, lifecycle>>
  BY Own, Roles DEF Leave, stop
<1>1. PICK x \in {"notify", "release"} : pc' = [pc EXCEPT ![t] = x]
  BY DEF Leave
<1>2. pc'[t] = x => TaskGuards(t)' /\ WorkerOwned(t)'
  BY <1>0, <1>1 DEF TaskGuards, WorkerOwned
<1>3. admissions' = (admissions \cup ({t} \X {})) \ ({t} \X {"task", "work"})
  BY <1>0
<1> QED
  BY <1>0, <1>1, <1>2, <1>3, TaskMoves DEF TaskLabels, AtRest, Kinds

LEMMA ReleaseStep == ASSUME GInv, NEW t \in Tasks, Release(t) PROVE GInv'
<1>0. /\ TaskGuards(t) /\ WorkerOwned(t) /\ pc[t] = "release" /\ pc' = [pc EXCEPT ![t] = "idle"]
      /\ slots' = slots \ {t} /\ worker' = Leaves(t, worker)
      /\ UNCHANGED <<closed, sd, waiter, admissions, execution, lifecycle>>
  BY Own, Roles DEF Release, Step, stop
<1>1. ~ Holds(t, worker')
  BY <1>0, Own, Roles, Goes
<1>2. pc'[t] = "idle" => TaskGuards(t)' /\ WorkerOwned(t)'
  BY <1>0, <1>1 DEF TaskGuards, WorkerOwned
<1>3. admissions' = (admissions \cup ({t} \X {})) \ ({t} \X {})
  BY <1>0
<1> QED
  BY <1>0, <1>2, <1>3, TaskMoves DEF TaskLabels

-----------------------------------------------------------------------------
(* The watchers.                                                           *)

LEMMA WatcherMoves ==
  ASSUME GInv, NEW w \in Watchers, NEW x \in WatcherLabels,
         pc' = [pc EXCEPT ![w] = x], UNCHANGED <<closed, sd, waiter, execution, lifecycle>>,
         worker' \in {worker, Append(worker, w), Leaves(w, worker)},
         slots' \in {slots, slots \ {w}},
         \E new, old \in SUBSET Kinds : admissions' = (admissions \cup ({w} \X new)) \ ({w} \X old),
         pc'[w] = x => WatcherGuards(w)' /\ WorkerOwned(w)',
         AtRest(w) /\ "submissions" \in closed => x \notin {"work", "leave"}
  PROVE  GInv'
<1>1. w \in Procs /\ w \notin Tasks /\ x \in TaskLabels
  BY Roles DEF WatcherLabels, TaskLabels
<1>2. OthersKeep(w) /\ GuardTypes' /\ pc'[w] = x
  BY <1>1, Touched
<1>3. AtRest(w) /\ "submissions" \in closed => AtRest(w)' /\ UNCHANGED lifecycle
  BY <1>1, <1>2 DEF AtRest
<1> QED
  BY <1>1, <1>2, <1>3, ProcKeeps

LEMMA WatcherSteps ==
  ASSUME GInv, NEW w \in Watchers, Discover(w) \/ Cancel(w) \/ WatcherStep(w)
  PROVE  GInv'
<1>0. WatcherGuards(w) /\ WorkerOwned(w) /\ w \in Procs /\ w \notin Tasks
  BY Own, Roles
<1>w. worker \in Seq(Procs)
  BY Own, <1>0
<1>g. Holds(w, Append(worker, w)) /\ ~ Holds(w, Leaves(w, worker))
  BY <1>0, <1>w, Comes, Goes
<1>a. admissions = (admissions \cup ({w} \X {})) \ ({w} \X {})
  OBVIOUS
<1>r. pc[w] \in {"work", "leave"} => ~ AtRest(w)
  BY <1>0 DEF AtRest
<1>1. CASE Discover(w)
  <2>1. /\ pc[w] = "idle" /\ pc' = [pc EXCEPT ![w] = "want"] /\ worker' = Append(worker, w)
        /\ UNCHANGED <<closed, sd, waiter, execution, lifecycle, slots, admissions>>
    BY <1>1 DEF Discover, Step, stop
  <2>2. pc'[w] = "want" => WatcherGuards(w)' /\ WorkerOwned(w)'
    BY <1>0, <1>g, <2>1 DEF WatcherGuards, WorkerOwned
  <2> QED
    BY <1>a, <2>1, <2>2, WatcherMoves DEF WatcherLabels
<1>2. CASE worker' = Leaves(w, worker) /\ pc' = [pc EXCEPT ![w] = "idle"]
           /\ pc[w] \in {"want", "acquired"}
           /\ UNCHANGED <<closed, sd, waiter, execution, lifecycle, slots, admissions>>
  <2>2. pc'[w] = "idle" => WatcherGuards(w)' /\ WorkerOwned(w)'
    BY <1>0, <1>g, <1>2 DEF WatcherGuards, WorkerOwned
  <2> QED
    BY <1>a, <1>2, <2>2, WatcherMoves DEF WatcherLabels
<1>3. CASE Cancel(w) \/ NoWorker(w)
  BY <1>0, <1>2, <1>3 DEF Cancel, NoWorker, Step, stop
<1>4. CASE TakeWorker(w)
  <2>1. /\ pc[w] = "want" /\ pc' = [pc EXCEPT ![w] = "acquired"] /\ Owns(w, worker)
        /\ UNCHANGED <<closed, sd, waiter, execution, lifecycle, slots, admissions, worker>>
    BY <1>4 DEF TakeWorker, Step, stop, gates
  <2>2. pc'[w] = "acquired" => WatcherGuards(w)' /\ WorkerOwned(w)'
    BY <1>0, <2>1 DEF WatcherGuards, WorkerOwned
  <2> QED
    BY <1>a, <2>1, <2>2, WatcherMoves DEF WatcherLabels
<1>5. CASE EnterWork(w)
  <2>0. pc[w] = "acquired" /\ UNCHANGED <<closed, sd, waiter, execution, lifecycle, slots>>
    BY <1>5 DEF EnterWork, stop
  <2>1. CASE worker' = Leaves(w, worker) /\ pc' = [pc EXCEPT ![w] = "idle"] /\ UNCHANGED admissions
    BY <1>2, <2>0, <2>1
  <2>2. CASE /\ "submissions" \notin closed /\ pc' = [pc EXCEPT ![w] = "work"]
             /\ admissions' = admissions \cup {<<w, "work">>} /\ UNCHANGED worker
    <3>1. pc'[w] = "work" => WatcherGuards(w)' /\ WorkerOwned(w)'
      BY <1>0, <2>0, <2>2 DEF WatcherGuards, WorkerOwned
    <3>2. admissions' = (admissions \cup ({w} \X {"work"})) \ ({w} \X {})
      BY <2>2
    <3> QED
      BY <2>0, <2>2, <3>1, <3>2, WatcherMoves DEF WatcherLabels, Kinds
  <2> QED
    BY <1>0, <1>5, <2>1, <2>2 DEF EnterWork, Step
<1>6. CASE Watched(w)
  <2>1. /\ pc[w] = "work" /\ pc' = [pc EXCEPT ![w] = "leave"]
        /\ UNCHANGED <<closed, sd, waiter, execution, lifecycle, slots, admissions, worker>>
    BY <1>6 DEF Watched, Step, stop, gates
  <2>2. pc'[w] = "leave" => WatcherGuards(w)' /\ WorkerOwned(w)'
    BY <1>0, <2>1 DEF WatcherGuards, WorkerOwned
  <2> QED
    BY <1>a, <1>r, <2>1, <2>2, WatcherMoves DEF WatcherLabels
<1>7. CASE Leave(w)
  <2>1. /\ pc[w] = "leave" /\ admissions' = admissions \ ({w} \X {"task", "work"})
        /\ UNCHANGED <<closed, sd, waiter, execution, lifecycle, slots, worker>>
    BY <1>7 DEF Leave, stop
  <2>2. PICK x \in {"notify", "release"} : pc' = [pc EXCEPT ![w] = x]
    BY <1>7 DEF Leave
  <2>3. pc'[w] = x => WatcherGuards(w)' /\ WorkerOwned(w)'
    BY <1>0, <2>1, <2>2 DEF WatcherGuards, WorkerOwned
  <2>4. admissions' = (admissions \cup ({w} \X {})) \ ({w} \X {"task", "work"})
    BY <2>1
  <2> QED
    BY <2>1, <2>2, <2>3, <2>4, WatcherMoves DEF WatcherLabels, Kinds
<1>8. CASE Notify(w)
  <2>1. /\ pc[w] = "notify" /\ pc' = [pc EXCEPT ![w] = "release"] /\ UNCHANGED <<gates, lifecycle, closed, sd>>
        /\ waiter' \in {waiter, "woken"}
    BY <1>8 DEF Notify, Step
  <2>2. pc'[w] = "release" => WatcherGuards(w)' /\ WorkerOwned(w)' /\ (AtRest(w) => AtRest(w)')
    BY <1>0, <2>1 DEF WatcherGuards, WorkerOwned, gates, AtRest
  <2>3. waiter' \in {"none", "registered", "woken"}
    BY <2>1 DEF GInv, GuardTypes
  <2> QED
    BY <1>0, <2>1, <2>2, <2>3, LabelOnly DEF TaskLabels, WatcherLabels
<1>9. CASE Release(w)
  <2>1. /\ pc[w] = "release" /\ pc' = [pc EXCEPT ![w] = "idle"] /\ worker' = Leaves(w, worker)
        /\ slots' = slots \ {w}
        /\ UNCHANGED <<closed, sd, waiter, execution, lifecycle, admissions>>
    BY <1>9 DEF Release, Step, stop
  <2>2. pc'[w] = "idle" => WatcherGuards(w)' /\ WorkerOwned(w)'
    BY <1>0, <1>g, <2>1 DEF WatcherGuards, WorkerOwned
  <2> QED
    BY <1>a, <2>1, <2>2, WatcherMoves DEF WatcherLabels
<1> QED
  BY <1>1, <1>3, <1>4, <1>5, <1>6, <1>7, <1>8, <1>9 DEF WatcherStep

-----------------------------------------------------------------------------
(* Shutdown.                                                               *)

LEMMA ShutdownKeeps ==
  ASSUME GInv, UNCHANGED <<pc, gates>>,
         lifecycle' \in Seq(Tasks \cup {Shutdown}), Apart(lifecycle, lifecycle', Shutdown),
         closed' \subseteq {"slots", "worker", "submissions", "sealed", "lifecycle"},
         sd' \in ShutdownLabels, waiter' \in {"none", "registered", "woken"},
         GatesClosed', Shutting'
  PROVE  GInv'
<1>1. UNCHANGED <<pc, slots, admissions, execution, worker>>
  BY DEF gates
<1>2. GuardTypes'
  BY <1>1 DEF GInv, GuardTypes
<1>3. ASSUME NEW t \in Tasks PROVE TaskGuards(t)'
  <2>1. TaskGuards(t)
    BY DEF GInv, Guards
  <2>2. Holds(t, lifecycle') <=> Holds(t, lifecycle)
    BY Roles DEF Apart
  <2> QED
    BY <1>1, <2>1, <2>2 DEF TaskGuards
<1>4. (\A w \in Watchers : WatcherGuards(w)') /\ (\A p \in Procs : WorkerOwned(p)')
  BY <1>1 DEF GInv, Guards, WatcherGuards, WorkerOwned
<1> QED
  BY <1>2, <1>3, <1>4 DEF GInv, Guards

\* Steps that close a gate without the lifecycle lock, or only wait.
LEMMA WaitingSteps ==
  ASSUME GInv, \/ CloseSlots \/ CloseWorker \/ CloseSubmissions \/ Drain \/ Poll \/ Await
               \/ Check /\ UNCHANGED lifecycle
  PROVE  GInv'
<1>1. UNCHANGED <<pc, gates, lifecycle>>
  BY DEF CloseSlots, CloseWorker, CloseSubmissions, Closes, Drain, Poll, Await, Check, local
<1>2. lifecycle' \in Seq(Tasks \cup {Shutdown}) /\ Apart(lifecycle, lifecycle', Shutdown)
  BY <1>1, Same DEF GInv, GuardTypes
<1>3. /\ closed' \subseteq {"slots", "worker", "submissions", "sealed", "lifecycle"}
      /\ sd' \in ShutdownLabels /\ waiter' \in {"none", "registered", "woken"}
  BY DEF GInv, GuardTypes, CloseSlots, CloseWorker, CloseSubmissions, Closes, Drain, Poll, Await, Check, ShutdownLabels
<1>4. sd' \notin Dismantling \cup {"fence", "sinks", "done"} /\ sd \notin Dismantling \cup {"fence"}
  <2>1. CASE Check /\ UNCHANGED lifecycle
    <3>1. CASE lifecycle' = Append(lifecycle, Shutdown)
      <4>1. lifecycle \in Seq(Tasks \cup {Shutdown}) /\ ~ Holds(Shutdown, lifecycle)
        BY <2>1 DEF GInv, GuardTypes, Shutting, Check, Dismantling
      <4>2. Holds(Shutdown, Append(lifecycle, Shutdown))
        BY <4>1, Comes
      <4> QED
        BY <2>1, <3>1, <4>1, <4>2
    <3>2. CASE sd' = "poll"
      BY <2>1, <3>2 DEF Check, Dismantling
    <3> QED
      BY <2>1, <3>1, <3>2 DEF Check
  <2> QED
    BY <2>1 DEF CloseSlots, CloseWorker, CloseSubmissions, Closes, Drain, Poll, Await, Dismantling
<1>5. Shutting'
  BY <1>1, <1>4 DEF GInv, Shutting
<1>6. GatesClosed'
  BY DEF GInv, GatesClosed, CloseSlots, CloseWorker, CloseSubmissions, Closes, Drain, Poll, Await, Check, Opening
<1> QED
  BY <1>1, <1>2, <1>3, <1>5, <1>6, ShutdownKeeps

LEMMA SealStep == ASSUME GInv, Seal PROVE GInv'
<1>1. /\ sd = "seal" /\ sd' = "fence" /\ closed' = closed \cup {"sealed"} /\ UNCHANGED <<pc, gates, waiter>>
      /\ lifecycle' = Append(lifecycle, Shutdown)
  BY DEF Seal, Closes, local
<1>2. lifecycle' \in Seq(Tasks \cup {Shutdown}) /\ Apart(lifecycle, lifecycle', Shutdown) /\ Holds(Shutdown, lifecycle')
  BY <1>1, Comes DEF GInv, GuardTypes
<1>3. GatesClosed' /\ Shutting'
  BY <1>1, <1>2 DEF GInv, GatesClosed, Shutting, Opening, Dismantling
<1>4. closed' \subseteq {"slots", "worker", "submissions", "sealed", "lifecycle"} /\ sd' \in ShutdownLabels
      /\ waiter' \in {"none", "registered", "woken"}
  BY <1>1 DEF GInv, GuardTypes, ShutdownLabels
<1> QED
  BY <1>1, <1>2, <1>3, <1>4, ShutdownKeeps

LEMMA FenceStep == ASSUME GInv, Fence PROVE GInv'
<1>1. /\ sd = "fence" /\ sd' = "drain" /\ closed' = closed \cup {"lifecycle"} /\ UNCHANGED <<pc, gates, waiter>>
      /\ lifecycle' = Leaves(Shutdown, lifecycle)
  BY DEF Fence, Closes, local
<1>2. lifecycle' \in Seq(Tasks \cup {Shutdown}) /\ Apart(lifecycle, lifecycle', Shutdown) /\ ~ Holds(Shutdown, lifecycle')
  BY <1>1, Goes DEF GInv, GuardTypes
<1>3. GatesClosed' /\ Shutting'
  BY <1>1, <1>2 DEF GInv, GatesClosed, Shutting, Opening, Dismantling
<1>4. closed' \subseteq {"slots", "worker", "submissions", "sealed", "lifecycle"} /\ sd' \in ShutdownLabels
      /\ waiter' \in {"none", "registered", "woken"}
  BY <1>1 DEF GInv, GuardTypes, ShutdownLabels
<1> QED
  BY <1>1, <1>2, <1>3, <1>4, ShutdownKeeps

\* Submissions::drained returns: nobody has an admission, so nobody is at work
\* and nobody has the lifecycle lock or waits for it.
LEMMA DrainedStep == ASSUME GInv, Check, admissions = {} PROVE GInv'
<1>1. /\ sd = "check" /\ sd' = "lock" /\ UNCHANGED <<pc, gates, waiter, closed>>
      /\ lifecycle' = Append(lifecycle, Shutdown)
  BY DEF Check, local
<1>2. \A p \in Procs : AtRest(p)
  <2>1. ASSUME NEW t \in Tasks PROVE AtRest(t) /\ ~ Holds(t, lifecycle)
    BY Own, Roles DEF TaskGuards, AtRest
  <2>2. ASSUME NEW w \in Watchers PROVE AtRest(w)
    BY Own, Roles DEF WatcherGuards, AtRest
  <2> QED
    BY <2>1, <2>2, Roles
<1>3. lifecycle = <<>>
  <2>1. lifecycle \in Seq(Tasks \cup {Shutdown})
    BY DEF GInv, GuardTypes
  <2>2. ~ Holds(Shutdown, lifecycle)
    BY <1>1 DEF GInv, Shutting, Dismantling
  <2>3. ASSUME NEW t \in Tasks PROVE ~ Holds(t, lifecycle)
    BY Own, Roles DEF TaskGuards
  <2> QED
    BY <2>1, <2>2, <2>3, Nobody
<1>4. lifecycle' = <<Shutdown>>
  BY <1>1, <1>3
<1>5. lifecycle' \in Seq(Tasks \cup {Shutdown}) /\ Apart(lifecycle, lifecycle', Shutdown) /\ Holds(Shutdown, lifecycle')
  BY <1>1, Comes DEF GInv, GuardTypes
<1>6. GatesClosed' /\ Shutting'
  BY <1>1, <1>2, <1>4, <1>5 DEF GInv, GatesClosed, Shutting, Opening, Dismantling, AtRest
<1>7. closed' \subseteq {"slots", "worker", "submissions", "sealed", "lifecycle"} /\ sd' \in ShutdownLabels
      /\ waiter' \in {"none", "registered", "woken"}
  BY <1>1 DEF GInv, GuardTypes, ShutdownLabels
<1> QED
  BY <1>1, <1>5, <1>6, <1>7, ShutdownKeeps

LEMMA TeardownSteps == ASSUME GInv, StartTeardown \/ Stops \/ CloseSinks PROVE GInv'
<1>1. /\ UNCHANGED <<pc, gates, waiter, closed>>
      /\ sd \in Dismantling \cup {"sinks"}
      /\ \/ sd' \in Dismantling /\ sd \in Dismantling /\ UNCHANGED lifecycle
         \/ sd' = "sinks" /\ sd \in Dismantling /\ lifecycle' = Leaves(Shutdown, lifecycle)
         \/ sd' = "done" /\ sd = "sinks" /\ UNCHANGED lifecycle
  BY DEF StartTeardown, Stops, CloseSinks, Teardown, Dismantling, local
<1>2. lifecycle \in Seq(Tasks \cup {Shutdown})
  BY DEF GInv, GuardTypes
<1>3. lifecycle' \in Seq(Tasks \cup {Shutdown}) /\ Apart(lifecycle, lifecycle', Shutdown)
  BY <1>1, <1>2, Same, Goes
<1>4. Shutting'
  <2>1. \A p \in Procs : AtRest(p)'
    BY <1>1 DEF GInv, Shutting, AtRest
  <2>2. sd' = "sinks" => ~ Holds(Shutdown, lifecycle')
    BY <1>1, <1>2, Goes DEF Dismantling
  <2> QED
    BY <1>1, <2>1, <2>2 DEF GInv, Shutting, Dismantling
<1>5. GatesClosed'
  BY <1>1 DEF GInv, GatesClosed, Opening, Dismantling
<1>6. closed' \subseteq {"slots", "worker", "submissions", "sealed", "lifecycle"} /\ sd' \in ShutdownLabels
      /\ waiter' \in {"none", "registered", "woken"}
  BY <1>1 DEF GInv, GuardTypes, ShutdownLabels, Dismantling
<1> QED
  BY <1>1, <1>3, <1>4, <1>5, <1>6, ShutdownKeeps

LEMMA GuardsStart == Init => GInv
<1> SUFFICES ASSUME Init PROVE GInv
  OBVIOUS
<1>1. /\ pc = [p \in Procs |-> "idle"] /\ slots = {} /\ admissions = {} /\ closed = {} /\ sd = "open"
      /\ execution = <<>> /\ worker = <<>> /\ lifecycle = <<>> /\ waiter = "none"
  BY DEF Init
<1>2. \A p : ~ Holds(p, <<>>)
  BY DEF Holds
<1>3. GuardTypes
  BY <1>1, Roles DEF GuardTypes, TaskLabels, WatcherLabels, ShutdownLabels
<1>4. Guards
  BY <1>1, <1>2, Roles DEF Guards, TaskGuards, WatcherGuards, WorkerOwned
<1>5. GatesClosed /\ Shutting
  BY <1>1, <1>2 DEF GatesClosed, Shutting, Opening, Dismantling
<1> QED
  BY <1>3, <1>4, <1>5 DEF GInv

LEMMA GuardsStep == GInv /\ [Next]_vars => GInv'
<1> SUFFICES ASSUME GInv, [Next]_vars PROVE GInv'
  OBVIOUS
<1>1. ASSUME NEW t \in Tasks, TakeSlot(t) \/ NoSlot(t) \/ TaskStep(t) \/ Panic(t) PROVE GInv'
  BY <1>1, TakeSlotStep, NoSlotStep, EnterStep, ExecuteStep, NoWorkerStep, LabelSteps, EnterWorkStep,
     EnterAttemptStep, WorkerDoneStep, DecideStep, UnlockSteps, ReleaseExecutionStep, LeaveStep, ReleaseStep
     DEF TaskStep
<1>2. ASSUME NEW w \in Watchers, Discover(w) \/ Cancel(w) \/ WatcherStep(w) PROVE GInv'
  BY <1>2, WatcherSteps
<1>3. CASE CloseSlots \/ ShutdownStep
  <2>1. CASE Check
    <3>1. admissions = {} \/ UNCHANGED lifecycle
      BY <2>1 DEF Check
    <3> QED
      BY <2>1, <3>1, WaitingSteps, DrainedStep
  <2> QED
    BY <1>3, <2>1, WaitingSteps, SealStep, FenceStep, TeardownSteps DEF ShutdownStep
<1>4. CASE UNCHANGED <<local, gates, lifecycle, stop>>
  BY <1>4 DEF GInv, GuardTypes, Guards, GatesClosed, Shutting, local, gates, stop,
              TaskGuards, WatcherGuards, WorkerOwned, AtRest
<1>5. ASSUME NEW r \in Readers, Sample(r) \/ Report(r) PROVE GInv'
  BY <1>4, <1>5 DEF Sample, Report, Samples
<1> QED
  BY <1>1, <1>2, <1>3, <1>4, <1>5 DEF Next, vars

LEMMA GuardsInvariant == Spec => []GInv
  BY GuardsStart, GuardsStep, PTL DEF Spec

\* No guard of App's reloads, discoveries and shutdown leaks or is held twice,
\* and teardown begins only when none is held (app.rs, app_submissions.rs).
THEOREM GuardsKept == Spec => []GuardsMatchControl
<1>1. GInv => GuardsMatchControl
  <2> SUFFICES ASSUME GInv PROVE GuardsMatchControl
    OBVIOUS
  <2>1. \A t \in Tasks : TaskGuards(t)
    BY DEF GInv, Guards
  <2>2. \A w \in Watchers : WatcherGuards(w) /\ pc[w] \in WatcherLabels
    BY DEF GInv, Guards, GuardTypes
  <2>3. \A p \in Procs : WorkerOwned(p)
    BY DEF GInv, Guards
  <2>4. ASSUME sd \in {"server", "binds", "supervisor", "plugins", "acme", "sinks", "done"}
        PROVE  /\ \A t \in Tasks : pc[t] \in {"idle", "slotted", "notify", "release"}
               /\ \A w \in Watchers : pc[w] \in WatcherLabels \ {"work", "leave"}
               /\ sd \notin {"sinks", "done"} => lifecycle = <<Shutdown>>
    <3>1. \A p \in Procs : AtRest(p)
      BY <2>4 DEF GInv, Shutting, Dismantling
    <3>2. sd \notin {"sinks", "done"} => lifecycle = <<Shutdown>>
      BY <2>4 DEF GInv, Shutting, Dismantling
    <3>3. \A w \in Watchers : pc[w] \notin {"work", "leave"}
      BY <3>1, Roles DEF AtRest
    <3> QED
      BY <2>2, <3>1, <3>2, <3>3, Roles DEF AtRest
  <2> QED
    BY <2>1, <2>2, <2>3, <2>4 DEF GuardsMatchControl, TaskGuards, WatcherGuards, WorkerOwned
<1> QED
  BY <1>1, GuardsInvariant, PTL

\* Behind the closed lifecycle, and behind the seal that comes before it, nothing
\* is started again (App::shutdown, activate, finish_attempt).
THEOREM FenceHolds == Spec => NothingStartsAfterFence
<1>1. GInv /\ [Next]_vars => ["lifecycle" \in closed => live' \subseteq live]_vars
  <2> SUFFICES ASSUME GInv, Next, "lifecycle" \in closed PROVE live' \subseteq live
    BY DEF vars
  <2>1. "sealed" \in closed
    BY DEF GInv, GatesClosed, Opening
  <2>2. ASSUME NEW t \in Tasks, TakeSlot(t) \/ NoSlot(t) \/ TaskStep(t) \/ Panic(t) PROVE live' = live
    BY <2>1, <2>2 DEF TakeSlot, NoSlot, TaskStep, Panic, Enter, Execute, NoWorker, TakeWorker, EnterWork,
       EnterAttempt, Publish, NotPublished, WorkerDone, Decide, ActivateClosed, Apply, Settle, Finish,
       ReleaseExecution, Leave, Notify, Release, run
  <2>3. ASSUME NEW w \in Watchers, Discover(w) \/ Cancel(w) \/ WatcherStep(w) PROVE live' = live
    BY <2>3 DEF Discover, Cancel, WatcherStep, NoWorker, TakeWorker, EnterWork, Watched, Leave, Notify, Release, run
  <2>4. CASE CloseSlots \/ ShutdownStep
    BY <2>4 DEF CloseSlots, ShutdownStep, CloseWorker, CloseSubmissions, Seal, Fence, Closes, Drain, Check, Poll,
       Await, StartTeardown, Stops, CloseSinks, run
  <2>5. ASSUME NEW r \in Readers, Sample(r) \/ Report(r) PROVE live' = live
    BY <2>5 DEF Sample, Report, Samples, run
  <2> QED
    BY <2>2, <2>3, <2>4, <2>5 DEF Next
<1> QED
  BY <1>1, GuardsInvariant, PTL DEF Spec, NothingStartsAfterFence

-----------------------------------------------------------------------------
(* The receipts: only the owner of reload_execution publishes or activates. *)

Numbered == [activated : 0..MaxGen, generation : 0..MaxGen, pending : BOOLEAN]
NumberTypes ==
  /\ result \in [Tasks -> Outcomes]
  /\ got \in [Tasks -> 0..MaxGen]
  /\ target \in [Tasks -> 0..MaxGen]
  /\ generation \in 0..MaxGen
  /\ activated \in 0..MaxGen
  /\ live \subseteq Resources
  /\ progress \in [Readers -> Numbered]

Answered == {"worked", "decide", "lock", "applied", "finish", "unlock"}
Told(t) ==
  result[t] \in {"published", "noop"} =>
    /\ pc[t] \in Answered => got[t] = generation
    /\ pc[t] \in {"finish", "unlock"} /\ "lifecycle" \notin closed => activated = got[t]
Read(r) ==
  /\ progress[r].activated <= generation
  /\ ~ progress[r].pending => progress[r].activated <= progress[r].generation

RInv ==
  /\ NumberTypes
  /\ activated <= generation
  /\ \A t \in Tasks : Told(t)
  /\ \A r \in Readers : Read(r)

LEMMA OneOwner ==
  ASSUME GInv, NEW t \in Tasks, NEW u \in Tasks,
         pc[t] \in {"prepare", "applied"}, pc[u] \in Answered
  PROVE  t = u
<1>1. TaskGuards(t) /\ TaskGuards(u)
  BY DEF GInv, Guards
<1>2. Owns(t, execution) /\ Owns(u, execution)
  BY <1>1 DEF TaskGuards, Answered
<1> QED
  BY <1>2 DEF Owns

\* A step of t that is honest about t is honest.
LEMMA ReceiptKeeps ==
  ASSUME GInv, RInv, NEW t \in Tasks, UNCHANGED <<closed, progress>>, NumberTypes',
         \A u \in Tasks : u # t => pc'[u] = pc[u] /\ result'[u] = result[u] /\ got'[u] = got[u],
         \/ UNCHANGED <<generation, activated>>
         \/ pc[t] \in {"prepare", "applied"} /\ generation <= generation' /\ activated' <= generation',
         Told(t)'
  PROVE  RInv'
<1>0. generation \in Nat /\ generation' \in Nat /\ activated \in Nat
  BY HostAssumption DEF RInv, NumberTypes
<1>1. activated' <= generation'
  BY DEF RInv
<1>2. ASSUME NEW u \in Tasks, u # t PROVE Told(u)'
  <2>1. Told(u) /\ pc'[u] = pc[u] /\ result'[u] = result[u] /\ got'[u] = got[u]
    BY <1>2 DEF RInv
  <2>2. CASE UNCHANGED <<generation, activated>>
    BY <2>1, <2>2 DEF Told
  <2>3. CASE pc[t] \in {"prepare", "applied"}
    <3>1. pc[u] \notin Answered
      BY <1>2, <2>3, OneOwner
    <3> QED
      BY <2>1, <3>1 DEF Told, Answered
  <2> QED
    BY <2>2, <2>3
<1>3. ASSUME NEW r \in Readers PROVE Read(r)'
  <2>1. progress[r].activated \in Nat /\ Read(r)
    BY HostAssumption DEF RInv, NumberTypes, Numbered
  <2>2. generation <= generation'
    BY <1>0
  <2>3. progress[r].activated <= generation'
    BY <1>0, <2>1, <2>2 DEF Read
  <2> QED
    BY <2>1, <2>3 DEF Read
<1> QED
  BY <1>1, <1>2, <1>3 DEF RInv

\* Steps that neither publish nor activate; t names no generation, or had named
\* it before, or finds that the one it names is activated.
LEMMA QuietReceipt ==
  ASSUME GInv, RInv, NEW t \in Tasks, UNCHANGED <<closed, progress, generation, activated, live>>,
         target' \in [Tasks -> 0..MaxGen],
         NEW x, pc' = [pc EXCEPT ![t] = x],
         \/ /\ UNCHANGED <<result, got>>
            /\ x \notin Answered \/ pc[t] \in Answered
            /\ \/ x \notin {"finish", "unlock"} \/ pc[t] = "finish"
               \/ result[t] \in {"published", "noop"} /\ "lifecycle" \notin closed => activated = got[t]
         \/ \E o \in Outcomes, n \in 0..MaxGen :
              /\ result' = [result EXCEPT ![t] = o] /\ got' \in {got, [got EXCEPT ![t] = n]}
              /\ o \notin {"published", "noop"}
                   \/ (n = generation /\ got' = [got EXCEPT ![t] = n] /\ x \notin {"finish", "unlock"})
  PROVE  RInv'
<1>0. /\ t \in Procs /\ pc \in [Procs -> TaskLabels]
      /\ result \in [Tasks -> Outcomes] /\ got \in [Tasks -> 0..MaxGen] /\ Told(t)
  BY Roles DEF RInv, NumberTypes, GInv, GuardTypes
<1>1. /\ pc'[t] = x
      /\ \A u \in Tasks : u # t => pc'[u] = pc[u] /\ result'[u] = result[u] /\ got'[u] = got[u]
      /\ result' \in [Tasks -> Outcomes] /\ got' \in [Tasks -> 0..MaxGen]
  BY <1>0, Roles
<1>2. NumberTypes'
  BY <1>1 DEF RInv, NumberTypes
<1>3. Told(t)'
  <2>1. CASE UNCHANGED <<result, got>> /\ (x \notin Answered \/ pc[t] \in Answered)
             /\ (\/ x \notin {"finish", "unlock"} \/ pc[t] = "finish"
                 \/ result[t] \in {"published", "noop"} /\ "lifecycle" \notin closed => activated = got[t])
    BY <1>0, <1>1, <2>1 DEF Told
  <2>2. ASSUME NEW o \in Outcomes, NEW n \in 0..MaxGen, result' = [result EXCEPT ![t] = o],
               o \notin {"published", "noop"}
                   \/ (n = generation /\ got' = [got EXCEPT ![t] = n] /\ x \notin {"finish", "unlock"})
        PROVE  Told(t)'
    BY <1>0, <1>1, <2>2 DEF Told
  <2> QED
    BY <2>1, <2>2
<1> QED
  BY <1>1, <1>2, <1>3, ReceiptKeeps

LEMMA QuietSteps ==
  ASSUME GInv, RInv, NEW t \in Tasks,
         \/ TakeSlot(t) \/ NoSlot(t) \/ Enter(t) \/ Execute(t)
         \/ NoWorker(t) \/ TakeWorker(t) \/ EnterWork(t) \/ EnterAttempt(t)
         \/ NotPublished(t) \/ WorkerDone(t)
         \/ ReleaseExecution(t) \/ Leave(t) \/ Notify(t) \/ Release(t)
  PROVE  RInv'
<1>0. /\ target \in [Tasks -> 0..MaxGen] /\ generation \in 0..MaxGen /\ 0 \in 0..MaxGen
      /\ pc = [pc EXCEPT ![t] = pc[t]]
  BY HostAssumption, Roles DEF RInv, NumberTypes, GInv, GuardTypes
<1>1. UNCHANGED <<closed, progress, generation, activated, live, target>>
  BY DEF TakeSlot, NoSlot, Enter, Execute, NoWorker, TakeWorker, EnterWork, EnterAttempt, NotPublished,
     WorkerDone, ReleaseExecution, Leave, Notify, Release, run, stop
<1>2. CASE TakeSlot(t) \/ NoSlot(t) \/ Release(t)
  <2>1. /\ \E x \in {"slotted", "idle", pc[t]} : pc' = [pc EXCEPT ![t] = x]
        /\ \E o \in {"none", "stale"} : Says(t, o, 0)
    BY <1>0, <1>2 DEF TakeSlot, NoSlot, Release, Step
  <2>2. PICK x : pc' = [pc EXCEPT ![t] = x]
    BY <2>1
  <2>3. \E o \in Outcomes, n \in 0..MaxGen :
           /\ result' = [result EXCEPT ![t] = o] /\ got' \in {got, [got EXCEPT ![t] = n]}
           /\ o \notin {"published", "noop"}
    BY <1>0, <2>1 DEF Says, Outcomes
  <2> QED
    BY <1>0, <1>1, <2>2, <2>3, QuietReceipt
<1>3. CASE Enter(t) \/ Execute(t) \/ NoWorker(t) \/ EnterWork(t) \/ EnterAttempt(t)
  <2>1. \/ UNCHANGED told /\ \E x \in {"queued", "want", "work", "prepare"} : pc' = [pc EXCEPT ![t] = x]
        \/ Says(t, "stale", 0) /\ \E x \in {"idle", "unlock", "decide", "worked"} : pc' = [pc EXCEPT ![t] = x]
    BY <1>3 DEF Enter, Execute, NoWorker, EnterWork, EnterAttempt, Step
  <2>2. ASSUME NEW x \in {"queued", "want", "work", "prepare"}, UNCHANGED told, pc' = [pc EXCEPT ![t] = x] PROVE RInv'
    <3>1. UNCHANGED <<result, got>> /\ x \notin Answered /\ x \notin {"finish", "unlock"}
      BY <2>2 DEF told, Answered
    <3> QED
      BY <1>0, <1>1, <2>2, <3>1, QuietReceipt
  <2>3. ASSUME NEW x, Says(t, "stale", 0), pc' = [pc EXCEPT ![t] = x] PROVE RInv'
    <3>1. \E o \in Outcomes, n \in 0..MaxGen :
           /\ result' = [result EXCEPT ![t] = o] /\ got' \in {got, [got EXCEPT ![t] = n]}
           /\ o \notin {"published", "noop"}
      BY <1>0, <2>3 DEF Says, Outcomes
    <3> QED
      BY <1>0, <1>1, <2>3, <3>1, QuietReceipt
  <2> QED
    BY <2>1, <2>2, <2>3
<1>4. CASE TakeWorker(t) \/ WorkerDone(t) \/ ReleaseExecution(t) \/ Leave(t) \/ Notify(t)
  <2>1. UNCHANGED told /\ \E x \in {"acquired", "decide", "leave", "notify", "release"} :
          pc' = [pc EXCEPT ![t] = x] /\ (x \notin Answered \/ pc[t] \in Answered) /\ x \notin {"finish", "unlock"}
    BY <1>4 DEF TakeWorker, WorkerDone, ReleaseExecution, Leave, Notify, Step, Answered
  <2> QED
    BY <1>0, <1>1, <2>1, QuietReceipt DEF told
<1>5. CASE NotPublished(t)
  <2>1. /\ pc' = [pc EXCEPT ![t] = "worked"]
        /\ Says(t, "failed", 0) \/ Says(t, "panicked", 0) \/ Says(t, "stale", 0) \/ Says(t, "noop", generation)
    BY <1>5 DEF NotPublished, Step
  <2>2. \E o \in Outcomes, n \in 0..MaxGen :
           /\ result' = [result EXCEPT ![t] = o] /\ got' = [got EXCEPT ![t] = n]
           /\ o \notin {"published", "noop"} \/ n = generation
    BY <1>0, <2>1 DEF Says, Outcomes
  <2> QED
    BY <1>0, <1>1, <2>1, <2>2, QuietReceipt
<1> QED
  BY <1>2, <1>3, <1>4, <1>5

LEMMA PublishReceipt == ASSUME GInv, RInv, NEW t \in Tasks, Publish(t) PROVE RInv'
<1>1. /\ pc[t] = "prepare" /\ pc' = [pc EXCEPT ![t] = "worked"] /\ generation < MaxGen /\ generation' = generation + 1
      /\ result' = [result EXCEPT ![t] = "published"] /\ got' = [got EXCEPT ![t] = generation + 1]
      /\ live' = live \cup {"binds", "plugins"} /\ UNCHANGED <<activated, target, closed, progress>>
  BY DEF Publish, Step, Says, stop
<1>2. NumberTypes /\ t \in Procs /\ pc \in [Procs -> TaskLabels] /\ activated <= generation
  BY Roles DEF RInv, GInv, GuardTypes
<1>3. generation + 1 \in 0..MaxGen /\ generation <= generation + 1 /\ activated <= generation + 1
  BY <1>1, <1>2, HostAssumption DEF NumberTypes
<1>4. NumberTypes'
  BY <1>1, <1>2, <1>3 DEF NumberTypes, Outcomes, Resources
<1>5. Told(t)'
  BY <1>1, <1>2 DEF Told, NumberTypes
<1>6. \A u \in Tasks : u # t => pc'[u] = pc[u] /\ result'[u] = result[u] /\ got'[u] = got[u]
  BY <1>1, <1>2, Roles DEF NumberTypes
<1> QED
  BY <1>1, <1>3, <1>4, <1>5, <1>6, ReceiptKeeps

LEMMA DecideReceipt == ASSUME GInv, RInv, NEW t \in Tasks, Decide(t) PROVE RInv'
<1>0. NumberTypes /\ activated <= generation /\ Told(t)
  BY DEF RInv
<1>1. /\ pc[t] = "decide" /\ UNCHANGED <<result, got, closed, progress, generation, activated, live, target>>
      /\ \E x \in {"unlock", "lock", "finish"} :
           /\ pc' = [pc EXCEPT ![t] = x]
           /\ x = "unlock" => result[t] = "panicked"
           /\ x = "finish" => ~ NeedsActivation(t)
  BY DEF Decide, Step, told, run, stop
<1>2. PICK x \in {"unlock", "lock", "finish"} :
           /\ pc' = [pc EXCEPT ![t] = x]
           /\ x = "unlock" => result[t] = "panicked"
           /\ x = "finish" => ~ NeedsActivation(t)
  BY <1>1
<1>3. result[t] \in {"published", "noop"} => got[t] = generation
  BY <1>0, <1>1 DEF Told, Answered
<1>4. x \in {"finish", "unlock"} => (result[t] \in {"published", "noop"} => activated = got[t])
  <2> SUFFICES ASSUME x \in {"finish", "unlock"}, result[t] \in {"published", "noop"} PROVE activated = got[t]
    OBVIOUS
  <2>1. x = "finish" /\ ~ (activated < got[t])
    BY <1>2 DEF NeedsActivation
  <2> QED
    BY <1>0, <1>3, <2>1, HostAssumption DEF NumberTypes
<1>5. target' \in [Tasks -> 0..MaxGen] /\ pc[t] \in Answered
  BY <1>0, <1>1 DEF NumberTypes, Answered
<1> QED
  BY <1>1, <1>2, <1>4, <1>5, QuietReceipt

LEMMA AfterDecision ==
  ASSUME GInv, RInv, NEW t \in Tasks, ActivateClosed(t) \/ Apply(t) \/ Finish(t) \/ Panic(t)
  PROVE  RInv'
<1>0. NumberTypes
  BY DEF RInv
<1>1. CASE ActivateClosed(t)
  <2>1. /\ pc[t] = "lock" /\ pc' = [pc EXCEPT ![t] = "finish"] /\ "lifecycle" \in closed
        /\ UNCHANGED <<result, got, closed, progress, generation, activated, live, target>>
    BY <1>1 DEF ActivateClosed, Step, told, run, stop
  <2>2. target' \in [Tasks -> 0..MaxGen] /\ pc[t] \in Answered
    BY <1>0, <2>1 DEF NumberTypes, Answered
  <2> QED
    BY <2>1, <2>2, QuietReceipt
<1>2. CASE Apply(t)
  <2>1. /\ pc[t] = "lock" /\ pc' = [pc EXCEPT ![t] = "applied"] /\ target' = [target EXCEPT ![t] = generation]
        /\ UNCHANGED <<result, got, closed, progress, generation, activated>>
        /\ live' = live \cup {"server", "supervisor", "acme"}
    BY <1>2 DEF Apply, Step, told, stop
  <2>2. NumberTypes'
    BY <1>0, <2>1 DEF NumberTypes, Resources
  <2>3. t \in Procs /\ pc \in [Procs -> TaskLabels] /\ Told(t)
    BY Roles DEF RInv, GInv, GuardTypes
  <2>4. Told(t)' /\ \A u \in Tasks : u # t => pc'[u] = pc[u] /\ result'[u] = result[u] /\ got'[u] = got[u]
    BY <2>1, <2>3, Roles DEF Told, Answered
  <2> QED
    BY <2>1, <2>2, <2>4, ReceiptKeeps
<1>3. CASE Finish(t)
  <2>1. /\ pc[t] = "finish" /\ pc' = [pc EXCEPT ![t] = "unlock"]
        /\ UNCHANGED <<result, got, closed, progress, generation, activated, live, target>>
    BY <1>3 DEF Finish, Step, told, run, stop
  <2>2. target' \in [Tasks -> 0..MaxGen] /\ pc[t] \in Answered
    BY <1>0, <2>1 DEF NumberTypes, Answered
  <2> QED
    BY <2>1, <2>2, QuietReceipt
<1>4. CASE Panic(t)
  <2>1. /\ pc' = [pc EXCEPT ![t] = "unlock"] /\ result' = [result EXCEPT ![t] = "panicked"]
        /\ target' = [target EXCEPT ![t] = 0]
        /\ UNCHANGED <<got, closed, progress, generation, activated, live>>
    BY <1>4 DEF Panic, Step, stop
  <2>2. target' \in [Tasks -> 0..MaxGen] /\ 0 \in 0..MaxGen /\ "panicked" \in Outcomes
    BY <1>0, <2>1, HostAssumption DEF NumberTypes, Outcomes
  <2> QED
    BY <2>1, <2>2, QuietReceipt
<1> QED
  BY <1>1, <1>2, <1>3, <1>4

LEMMA SettleReceipt == ASSUME GInv, RInv, NEW t \in Tasks, Settle(t) PROVE RInv'
<1>0. /\ NumberTypes /\ Told(t) /\ activated <= generation
      /\ t \in Procs /\ pc \in [Procs -> TaskLabels]
  BY Roles DEF RInv, GInv, GuardTypes
<1>1. /\ pc[t] = "applied"
      /\ UNCHANGED <<result, got, closed, progress, generation, live>>
  BY DEF Settle, Step, told, stop
<1>2. CASE target[t] # generation
  <2>1. pc' = [pc EXCEPT ![t] = "lock"] /\ UNCHANGED <<activated, target>>
    BY <1>2 DEF Settle, Step
  <2>2. target' \in [Tasks -> 0..MaxGen] /\ pc[t] \in Answered
    BY <1>0, <1>1, <2>1 DEF NumberTypes, Answered
  <2> QED
    BY <1>1, <2>1, <2>2, QuietReceipt
<1>3. CASE target[t] = generation
  <2>1. /\ pc' = [pc EXCEPT ![t] = "finish"] /\ activated' = generation /\ target' = [target EXCEPT ![t] = 0]
    BY <1>3 DEF Settle, Step
  <2>2. NumberTypes'
    BY <1>0, <1>1, <2>1, HostAssumption DEF NumberTypes
  <2>3. Told(t)' /\ \A u \in Tasks : u # t => pc'[u] = pc[u] /\ result'[u] = result[u] /\ got'[u] = got[u]
    BY <1>0, <1>1, <2>1, Roles DEF Told, Answered
  <2>4. generation <= generation' /\ activated' <= generation'
    BY <1>0, <1>1, <2>1, HostAssumption DEF NumberTypes
  <2> QED
    BY <1>1, <2>2, <2>3, <2>4, ReceiptKeeps
<1> QED
  BY <1>2, <1>3

\* Steps of others: no task moves, no number changes, a gate may close.
LEMMA OthersReceipt ==
  ASSUME GInv, RInv, UNCHANGED <<result, got, target, generation, activated, progress>>,
         live' \subseteq live, closed \subseteq closed', \A u \in Tasks : pc'[u] = pc[u]
  PROVE  RInv'
<1>1. NumberTypes'
  BY DEF RInv, NumberTypes
<1>2. ASSUME NEW u \in Tasks PROVE Told(u)'
  <2>1. Told(u)
    BY DEF RInv
  <2> QED
    BY <2>1 DEF Told
<1>3. \A r \in Readers : Read(r)'
  BY DEF RInv, Read
<1> QED
  BY <1>1, <1>2, <1>3 DEF RInv

LEMMA ReaderReceipt ==
  ASSUME RInv, NEW r \in Readers, Sample(r) \/ Report(r)
  PROVE  RInv'
<1>0. NumberTypes /\ activated <= generation /\ Read(r) /\ progress[r] \in Numbered
  BY DEF RInv, NumberTypes
<1>1. UNCHANGED <<pc, result, got, target, generation, activated, live, closed>>
  BY DEF Sample, Report, Samples, local, told, run, stop
<1>2. /\ SampleOrder[1] = "activated" /\ SampleOrder[2] = "generation"
      /\ Sampled["activated"] = activated /\ Sampled["generation"] = generation
  BY DEF SampleOrder, Sampled
<1>3. \A u \in Readers : u # r => progress'[u] = progress[u]
  BY <1>0 DEF Sample, Report, Samples, NumberTypes
<1>4. progress'[r] \in Numbered /\ Read(r)' /\ progress' \in [Readers -> Numbered]
  <2>0. progress \in [Readers -> Numbered] /\ activated \in 0..MaxGen /\ generation \in 0..MaxGen
    BY <1>0 DEF NumberTypes
  <2>1. CASE Sample(r)
    <3>1. progress' = [progress EXCEPT ![r] = [progress[r] EXCEPT !["activated"] = activated, !["pending"] = TRUE]]
      BY <1>2, <2>1 DEF Sample, Samples
    <3>2. progress'[r].activated = activated /\ progress'[r].pending /\ progress'[r] \in Numbered
      BY <1>0, <2>0, <3>1 DEF Numbered
    <3> QED
      BY <1>0, <1>1, <2>0, <3>1, <3>2 DEF Read
  <2>2. CASE Report(r)
    <3>1. progress' = [progress EXCEPT ![r] = [progress[r] EXCEPT !["generation"] = generation, !["pending"] = FALSE]]
      BY <1>2, <2>2 DEF Report, Samples
    <3>2. /\ progress'[r].activated = progress[r].activated /\ progress'[r].generation = generation
          /\ progress'[r] \in Numbered
      BY <1>0, <2>0, <3>1 DEF Numbered
    <3> QED
      BY <1>0, <1>1, <2>0, <3>1, <3>2 DEF Read
  <2> QED
    BY <2>1, <2>2
<1>5. \A u \in Readers : Read(u)'
  BY <1>1, <1>3, <1>4 DEF RInv, Read
<1>6. NumberTypes' /\ activated' <= generation' /\ \A t \in Tasks : Told(t)'
  BY <1>0, <1>1, <1>4 DEF NumberTypes, RInv, Told
<1> QED
  BY <1>5, <1>6 DEF RInv

LEMMA ReceiptsStart == Init => RInv
<1> SUFFICES ASSUME Init PROVE RInv
  OBVIOUS
<1>1. 0 \in 0..MaxGen /\ 0 <= 0
  BY HostAssumption
<1>2. NumberTypes /\ activated <= generation
  BY <1>1 DEF Init, NumberTypes, Numbered, Outcomes, Resources
<1>3. \A t \in Tasks : Told(t)
  BY DEF Init, Told
<1>4. \A r \in Readers : Read(r)
  BY <1>1 DEF Init, Read
<1> QED
  BY <1>2, <1>3, <1>4 DEF RInv

LEMMA ReceiptsStep == GInv /\ RInv /\ [Next]_vars => RInv'
<1> SUFFICES ASSUME GInv, RInv, [Next]_vars PROVE RInv'
  OBVIOUS
<1>1. ASSUME NEW t \in Tasks, TakeSlot(t) \/ NoSlot(t) \/ TaskStep(t) \/ Panic(t) PROVE RInv'
  BY <1>1, QuietSteps, PublishReceipt, DecideReceipt, AfterDecision, SettleReceipt DEF TaskStep
<1>2. ASSUME NEW w \in Watchers, Discover(w) \/ Cancel(w) \/ WatcherStep(w) PROVE RInv'
  <2>1. UNCHANGED <<told, closed, run, progress>> /\ \E x : pc' = [pc EXCEPT ![w] = x]
    BY <1>2, Roles DEF Discover, Cancel, WatcherStep, NoWorker, TakeWorker, EnterWork, Watched, Leave, Notify,
       Release, Step, stop
  <2>2. \A u \in Tasks : pc'[u] = pc[u]
    BY <2>1, Roles DEF GInv, GuardTypes
  <2> QED
    BY <2>1, <2>2, OthersReceipt DEF told, run
<1>3. CASE CloseSlots \/ ShutdownStep
  <2>1. UNCHANGED <<local, generation, activated, target, progress>> /\ live' \subseteq live /\ closed \subseteq closed'
    BY <1>3 DEF CloseSlots, ShutdownStep, CloseWorker, CloseSubmissions, Seal, Fence, Closes, Drain, Check, Poll,
       Await, StartTeardown, Stops, CloseSinks, run
  <2> QED
    BY <2>1, OthersReceipt DEF local, told
<1>4. CASE UNCHANGED vars
  BY <1>4, OthersReceipt DEF vars, local, told, run, stop
<1> QED
  BY <1>1, <1>2, <1>3, <1>4, ReaderReceipt DEF Next

LEMMA ReceiptsInvariant == Spec => []RInv
  BY GuardsInvariant, ReceiptsStart, ReceiptsStep, PTL DEF Spec

\* A reload's receipt names the current generation, which is activated when the
\* receipt runs on an open host, and configuration_progress never reports an
\* activation ahead of the publication it reports (app.rs, app_completion.rs).
THEOREM ReceiptsHonest == Spec => []ReceiptHonest
<1>1. RInv => ReceiptHonest
  BY DEF RInv, ReceiptHonest, Told, Read, Answered
<1> QED
  BY <1>1, ReceiptsInvariant, PTL

\* Every variable of the host stays in its type; in particular no generation
\* number passes the bound the checked increment enforces.
THEOREM HostTypes == Spec => []TypeOK
<1>1. GInv /\ RInv => TypeOK
  BY DEF GInv, GuardTypes, RInv, NumberTypes, Numbered, TypeOK
<1> QED
  BY <1>1, GuardsInvariant, ReceiptsInvariant, PTL

-----------------------------------------------------------------------------
(* Sequences of records, and the last of some positions.                   *)

LEMMA HasGreatest ==
  ASSUME NEW n \in Nat, NEW T, T \subseteq 1..n, T # {}
  PROVE  \E x \in T : \A y \in T : y <= x
<1> DEFINE Down == {n - x : x \in T}
<1>1. Down \subseteq Nat /\ Down # {}
  <2>1. \A x \in T : n - x \in Nat
    OBVIOUS
  <2>2. Down # {}
    BY Zenon
  <2> QED
    BY <2>1, <2>2
<1>2. \E x \in Down : \A y \in Down : ~ (<<y, x>> \in OpToRel(<, Nat))
  <2> HIDE DEF Down
  <2> QED
    BY <1>1, NatLessThanWellFounded, WFMin
<1>3. PICK x \in Down : \A y \in Down : ~ (y < x)
  BY <1>1, <1>2 DEF OpToRel
<1>4. PICK g \in T : x = n - g
  BY <1>3
<1>5. ASSUME NEW y \in T PROVE y <= g
  <2>1. ~ (n - y < n - g)
    BY <1>3, <1>4, <1>5
  <2> QED
    BY <1>4, <1>5, <2>1
<1> QED
  BY <1>4, <1>5

Logs == Seq(Record)

LEMMA RecordFacts ==
  ASSUME NEW r \in Record
  PROVE  /\ r.kind \in {"binding", "intent", "applied", "rejected"}
         /\ r.edit \in 0..MaxEdits /\ r.edit \in Int
         /\ r.kind # "intent" => r.edit = 0
         /\ r.kind = "binding" => r = Binding
BY DurabilityBounds DEF Record, Binding, Rec

LEMMA BindingFacts == Binding \in Record /\ Binding.kind = "binding" /\ Binding.edit = 0
BY DEF Record, Binding, Rec

LEMMA LogFacts ==
  ASSUME NEW l \in Logs
  PROVE  Len(l) \in Nat /\ \A i \in 1..Len(l) : l[i] \in Record
BY DEF Logs

LEMMA AppendFacts ==
  ASSUME NEW l \in Logs, NEW r \in Record
  PROVE  /\ Append(l, r) \in Logs /\ Len(Append(l, r)) = Len(l) + 1
         /\ \A i \in 1..Len(l) : Append(l, r)[i] = l[i]
         /\ Append(l, r)[Len(l) + 1] = r
BY DEF Logs

LEMMA PrefixFacts ==
  ASSUME NEW l \in Logs, NEW k \in 0..Len(l)
  PROVE  /\ SubSeq(l, 1, k) \in Logs /\ Len(SubSeq(l, 1, k)) = k
         /\ \A i \in 1..k : SubSeq(l, 1, k)[i] = l[i]
BY DEF Logs

LEMMA PrefixBy ==
  ASSUME NEW s \in Logs, NEW t \in Logs, Len(s) <= Len(t), \A i \in 1..Len(s) : s[i] = t[i]
  PROVE  IsPrefix(s, t)
BY DEF IsPrefix, Logs

-----------------------------------------------------------------------------
(***************************************************************************)
(* The inductive invariant, in parts.                                      *)
(***************************************************************************)
\* The records are transactions, numbered in the order they were begun.
LogSound(l, e) ==
  /\ Legal(l)
  /\ Pending(l) => Len(l) < MaxLog
  /\ \A i \in 1..Len(l) : l[i].edit <= e
  /\ \A i, j \in 1..Len(l) :
       i < j /\ l[i].kind = "intent" /\ l[j].kind = "intent" => l[i].edit < l[j].edit

\* The intents a log confirms are no newer than v.
Reflects(v, l, n) == \A i \in 2..n : l[i].kind = "applied" => l[i - 1].edit <= v

\* A version of the checkpoint is taken over synced records, holds what was
\* confirmed and what its records applied, and is older than the later intents.
Kept(c, l, n, e, a) ==
  /\ Len(c.prefix) <= n
  /\ \A i \in 1..Len(c.prefix) : c.prefix[i] = l[i]
  /\ c = NoCkpt \/ Len(c.prefix) > 0
  /\ Len(c.prefix) > 1 => l[Len(c.prefix)].kind # "intent"
  /\ Covers(c.observed, c.serving)
  /\ \A s \in Sources : c.observed[s] <= e
  /\ Covers(c.serving, a.serving) /\ Covers(c.observed, a.observed)
  /\ \A i \in 1..Len(l) :
       i > Len(c.prefix) /\ l[i].kind = "intent" => c.observed["admin"] <= l[i].edit
  /\ Reflects(c.observed["admin"], l, Len(c.prefix))

Checkpoint == [serving : Content, observed : Content, prefix : Logs, boot : 0..MaxBoots]
Confirmations == [serving : Content, observed : Content]

LEMMA LogAppend ==
  ASSUME NEW l \in Logs, NEW r \in Record, NEW e \in Nat, NEW f \in Nat, e <= f, LogSound(l, e),
         Len(l) < MaxLog,
         IF l = <<>> THEN r = Binding
                     ELSE IF Pending(l) THEN r.kind \in {"applied", "rejected"}
                                        ELSE /\ r.kind = "intent" /\ e < r.edit /\ r.edit <= f
                                             /\ Len(l) + 2 <= MaxLog
  PROVE  LogSound(Append(l, r), f)
<1> DEFINE m == Append(l, r)
<1>1. /\ m \in Logs /\ Len(m) = Len(l) + 1 /\ m[Len(l) + 1] = r
      /\ \A i \in 1..Len(l) : m[i] = l[i]
  BY AppendFacts
<1>2. /\ Len(l) \in Nat /\ (\A i \in 1..Len(l) : l[i] \in Record) /\ (l = <<>> <=> Len(l) = 0)
  BY DEF Logs
<1>3. Last(m) = r /\ Last(l) = l[Len(l)]
  BY <1>1 DEF Last
<1> HIDE DEF m
<1>4. r.edit <= f /\ r.edit \in Int
  BY RecordFacts, BindingFacts
<1>5. \A i \in 1..Len(l) : l[i].edit \in Int /\ l[i].edit <= e /\ (l[i].kind = "intent" => i > 1)
  BY <1>2, RecordFacts, BindingFacts DEF LogSound, Legal
<1>6. Legal(m)
  <2> SUFFICES ASSUME NEW i \in 1..Len(m)
               PROVE  IF i = 1 THEN m[i] = Binding
                               ELSE m[i] # Binding /\ (m[i].kind = "intent" <=> m[i - 1].kind # "intent")
    BY DEF Legal
  <2>1. CASE i <= Len(l)
    <3>1. i \in 1..Len(l) /\ m[i] = l[i] /\ (i # 1 => m[i - 1] = l[i - 1])
      BY <1>1, <1>2, <2>1
    <3>2. IF i = 1 THEN l[i] = Binding
                   ELSE l[i] # Binding /\ (l[i].kind = "intent" <=> l[i - 1].kind # "intent")
      BY <3>1 DEF LogSound, Legal
    <3> QED
      BY <3>1, <3>2
  <2>2. CASE i = Len(l) + 1 /\ Len(l) = 0
    <3>1. i = 1 /\ m[i] = r
      BY <1>1, <2>2
    <3>2. r = Binding
      BY <1>2, <2>2
    <3> QED
      BY <3>1, <3>2
  <2>3. CASE i = Len(l) + 1 /\ Len(l) = 1
    <3>1. l[1] = Binding /\ ~ Pending(l)
      BY <1>2, <2>3 DEF LogSound, Legal, Pending
    <3> QED
      BY <1>1, <1>2, <2>3, <3>1, BindingFacts
  <2>4. CASE i = Len(l) + 1 /\ Len(l) > 1
    <3>1. Pending(l) <=> l[Len(l)].kind = "intent"
      BY <1>3, <2>4 DEF Pending
    <3> QED
      BY <1>1, <1>2, <2>4, <3>1, BindingFacts
  <2>5. i <= Len(l) \/ (i = Len(l) + 1 /\ (Len(l) = 0 \/ Len(l) = 1 \/ Len(l) > 1))
    <3>1. Len(m) = Len(l) + 1 /\ Len(l) \in Nat /\ Len(m) \in Nat
      BY <1>1, <1>2
    <3>2. \A a, b \in Nat : b = a + 1 => \A j \in 1..b :
            j <= a \/ (j = a + 1 /\ (a = 0 \/ a = 1 \/ a > 1))
      OBVIOUS
    <3> QED
      BY <3>1, <3>2
  <2> QED
    BY <2>1, <2>2, <2>3, <2>4, <2>5, Zenon
<1>7. Pending(m) => Len(m) < MaxLog
  BY <1>1, <1>2, <1>3, BindingFacts, DurabilityBounds DEF Pending
<1>8. \A i \in 1..Len(m) : m[i].edit <= f
  BY <1>1, <1>2, <1>4, <1>5
<1>9. ASSUME NEW i \in 1..Len(m), NEW j \in 1..Len(m),
             i < j, m[i].kind = "intent", m[j].kind = "intent"
      PROVE  m[i].edit < m[j].edit
  <2>1. i \in 1..Len(l) /\ m[i] = l[i]
    BY <1>1, <1>2, <1>9
  <2>2. CASE j <= Len(l)
    BY <1>1, <1>2, <1>9, <2>1, <2>2 DEF LogSound
  <2>3. CASE j = Len(l) + 1
    <3>1. r.kind = "intent" /\ m[j] = r
      BY <1>1, <1>9, <2>3
    <3>2. e < r.edit
      BY <1>2, <3>1, <2>1, BindingFacts
    <3> QED
      BY <1>4, <1>5, <2>1, <3>1, <3>2
  <2> QED
    BY <1>1, <1>2, <2>2, <2>3
<1> QED
  BY <1>6, <1>7, <1>8, <1>9 DEF LogSound, m

LEMMA LogPrefix ==
  ASSUME NEW l \in Logs, NEW e \in Nat, LogSound(l, e), Len(l) <= MaxLog, NEW k \in 0..Len(l)
  PROVE  LogSound(SubSeq(l, 1, k), e)
<1> DEFINE m == SubSeq(l, 1, k)
<1>1. m \in Logs /\ Len(m) = k /\ \A i \in 1..k : m[i] = l[i]
  BY PrefixFacts
<1>2. Len(l) \in Nat /\ k \in Nat /\ k <= Len(l)
  BY LogFacts
<1> HIDE DEF m
<1>3. Legal(m)
  <2> SUFFICES ASSUME NEW i \in 1..Len(m)
               PROVE  IF i = 1 THEN m[i] = Binding
                               ELSE m[i] # Binding /\ (m[i].kind = "intent" <=> m[i - 1].kind # "intent")
    BY DEF Legal
  <2>1. i \in 1..Len(l) /\ m[i] = l[i] /\ (i # 1 => m[i - 1] = l[i - 1])
    BY <1>1, <1>2
  <2>2. IF i = 1 THEN l[i] = Binding
                 ELSE l[i] # Binding /\ (l[i].kind = "intent" <=> l[i - 1].kind # "intent")
    BY <2>1 DEF LogSound, Legal
  <2> QED
    BY <2>1, <2>2
<1>4. Pending(m) => Len(m) < MaxLog
  <2>1. CASE k < Len(l)
    BY <1>1, <1>2, <2>1, DurabilityBounds
  <2>2. CASE k = Len(l)
    BY <1>1, <1>2, <2>2 DEF Pending, Last, LogSound
  <2> QED
    BY <1>2, <2>1, <2>2
<1>5. \A i \in 1..Len(m) : m[i].edit <= e
  BY <1>1, <1>2 DEF LogSound
<1>6. \A i, j \in 1..Len(m) :
        i < j /\ m[i].kind = "intent" /\ m[j].kind = "intent" => m[i].edit < m[j].edit
  BY <1>1, <1>2 DEF LogSound
<1> QED
  BY <1>3, <1>4, <1>5, <1>6 DEF LogSound, m

LEMMA LogLater ==
  ASSUME NEW l \in Logs, NEW e \in Nat, NEW f \in Nat, e <= f, LogSound(l, e)
  PROVE  LogSound(l, f)
BY LogFacts, RecordFacts DEF LogSound

\* A version of the checkpoint stays sound while records are added, ...
LEMMA KeptAppend ==
  ASSUME NEW c \in Checkpoint, NEW l \in Logs, NEW n \in 0..Len(l), NEW e \in Nat, NEW a,
         Kept(c, l, n, e, a), NEW r \in Record, NEW f \in Nat, e <= f,
         r.kind = "intent" => e < r.edit
  PROVE  Kept(c, Append(l, r), n, f, a)
<1> DEFINE m == Append(l, r)
<1>1. /\ m \in Logs /\ Len(m) = Len(l) + 1 /\ m[Len(l) + 1] = r
      /\ \A i \in 1..Len(l) : m[i] = l[i]
  BY AppendFacts
<1>2. /\ Len(l) \in Nat /\ n \in Nat /\ n <= Len(l) /\ r.edit \in Int
      /\ c.prefix \in Logs /\ Len(c.prefix) \in Nat /\ Len(c.prefix) <= n
      /\ c.observed["admin"] \in Int /\ c.observed["admin"] <= e
      /\ \A s \in Sources : c.observed[s] \in Int
  BY LogFacts, RecordFacts, DurabilityBounds DEF Checkpoint, Content, Sources, Kept
<1> HIDE DEF m
<1>3. \A i \in 1..Len(m) :
        i > Len(c.prefix) /\ m[i].kind = "intent" => c.observed["admin"] <= m[i].edit
  BY <1>1, <1>2 DEF Kept
<1>4. Reflects(c.observed["admin"], m, Len(c.prefix))
  BY <1>1, <1>2 DEF Kept, Reflects
<1>5. \A i \in 1..Len(c.prefix) : c.prefix[i] = m[i]
  BY <1>1, <1>2 DEF Kept
<1>6. Len(c.prefix) > 1 => m[Len(c.prefix)].kind # "intent"
  BY <1>1, <1>2 DEF Kept
<1>7. \A s \in Sources : c.observed[s] <= f
  BY <1>2 DEF Kept
<1> QED
  BY <1>3, <1>4, <1>5, <1>6, <1>7 DEF Kept, m

\* ... while records that were not synced are lost, ...
LEMMA KeptPrefix ==
  ASSUME NEW c \in Checkpoint, NEW l \in Logs, NEW n \in 0..Len(l), NEW e \in Nat, NEW a,
         Kept(c, l, n, e, a), NEW k \in n..Len(l)
  PROVE  Kept(c, SubSeq(l, 1, k), k, e, a)
<1> DEFINE m == SubSeq(l, 1, k)
<1>1. m \in Logs /\ Len(m) = k /\ \A i \in 1..k : m[i] = l[i]
  BY PrefixFacts, LogFacts
<1>2. /\ Len(l) \in Nat /\ n \in Nat /\ n <= k /\ k \in Nat /\ k <= Len(l)
      /\ c.prefix \in Logs /\ Len(c.prefix) \in Nat /\ Len(c.prefix) <= n
  BY LogFacts DEF Checkpoint, Kept
<1> HIDE DEF m
<1>3. \A i \in 1..Len(m) :
        i > Len(c.prefix) /\ m[i].kind = "intent" => c.observed["admin"] <= m[i].edit
  BY <1>1, <1>2 DEF Kept
<1>4. Reflects(c.observed["admin"], m, Len(c.prefix))
  BY <1>1, <1>2 DEF Kept, Reflects
<1>5. \A i \in 1..Len(c.prefix) : c.prefix[i] = m[i]
  BY <1>1, <1>2 DEF Kept
<1>6. Len(c.prefix) > 1 => m[Len(c.prefix)].kind # "intent"
  BY <1>1, <1>2 DEF Kept
<1>7. Len(c.prefix) <= k
  BY <1>2
<1> QED
  BY <1>3, <1>4, <1>5, <1>6, <1>7 DEF Kept, m

\* ... and while more is synced or submitted.
LEMMA KeptLater ==
  ASSUME NEW c \in Checkpoint, NEW l \in Logs, NEW n \in Nat, NEW e \in Nat, NEW a,
         Kept(c, l, n, e, a), NEW k \in Nat, n <= k, NEW f \in Nat, e <= f
  PROVE  Kept(c, l, k, f, a)
<1>1. /\ Len(c.prefix) \in Nat /\ \A s \in Sources : c.observed[s] \in Int
  BY LogFacts, DurabilityBounds DEF Checkpoint, Content
<1>2. Len(c.prefix) <= k /\ \A s \in Sources : c.observed[s] <= f
  BY <1>1 DEF Kept
<1> QED
  BY <1>2 DEF Kept

-----------------------------------------------------------------------------
\* State::applied is the last confirmed intent.
LEMMA AppliedFacts ==
  ASSUME NEW l \in Logs
  PROVE  /\ AppliedAt(l) \in Nat
         /\ AppliedAt(l) > 0 => /\ AppliedAt(l) + 1 \in 2..Len(l)
                                /\ l[AppliedAt(l) + 1].kind = "applied"
         /\ \A j \in 2..Len(l) : l[j].kind = "applied" => j - 1 <= AppliedAt(l)
<1> DEFINE T == {i \in 1..Len(l) - 1 : l[i + 1].kind = "applied"}
<1>1. Len(l) \in Nat
  BY LogFacts
<1>2. \A j \in 2..Len(l) : l[j].kind = "applied" => j - 1 \in T
  <2> TAKE j \in 2..Len(l)
  <2>1. j - 1 \in 1..Len(l) - 1 /\ (j - 1) + 1 = j
    BY <1>1
  <2> QED
    BY <2>1
<1>3. AppliedAt(l) = IF T = {} THEN 0 ELSE CHOOSE i \in T : \A j \in T : j <= i
  BY DEF AppliedAt
<1>4. CASE T = {}
  <2>1. AppliedAt(l) = 0
    BY <1>3, <1>4
  <2>2. \A j \in 2..Len(l) : l[j].kind # "applied"
    BY <1>2, <1>4
  <2> QED
    BY <2>1, <2>2
<1>5. CASE T # {}
  <2>1. T \subseteq 1..Len(l)
    BY <1>1
  <2>2. \E x \in T : \A y \in T : y <= x
    <3> HIDE DEF T
    <3> QED
      BY <1>1, <1>5, <2>1, HasGreatest
  <2>3. AppliedAt(l) \in T /\ \A y \in T : y <= AppliedAt(l)
    <3> HIDE DEF T
    <3> QED
      BY <1>3, <1>5, <2>2
  <2>4. AppliedAt(l) \in 1..Len(l) - 1 /\ l[AppliedAt(l) + 1].kind = "applied"
    BY <2>3
  <2>5. \A j \in 2..Len(l) : l[j].kind = "applied" => j - 1 <= AppliedAt(l)
    BY <1>2, <2>3
  <2> QED
    BY <1>1, <2>4, <2>5
<1> QED
  BY <1>4, <1>5

\* Contents are ordered source by source.
LEMMA ContentFacts ==
  /\ Nothing \in Content
  /\ \A x \in Content : Covers(x, x) /\ Covers(x, Nothing)
  /\ \A x, y, z \in Content : Covers(x, y) /\ Covers(y, z) => Covers(x, z)
  /\ \A x, y \in Content : /\ Newer(x, y) \in Content
                           /\ Covers(Newer(x, y), x) /\ Covers(Newer(x, y), y)
  /\ \A x, y, z \in Content : Covers(x, y) /\ Covers(x, z) => Covers(x, Newer(y, z))
<1>1. \A x \in Content, s \in Sources : x[s] \in Nat /\ x[s] \in 0..MaxEdits
  BY DurabilityBounds DEF Content
<1>2. Nothing \in Content
  BY DurabilityBounds DEF Nothing, Content
<1>3. \A x, y \in Content : Newer(x, y) \in Content
  BY DEF Newer, Content
<1> QED
  BY <1>1, <1>2, <1>3 DEF Covers, Newer, Nothing

LEMMA ContentInt ==
  ASSUME NEW x \in Content
  PROVE  "admin" \in Sources /\ x["admin"] \in Int /\ \A s \in Sources : x[s] \in Int
<1>1. \A s \in Sources : x[s] \in Int
  BY DurabilityBounds DEF Content
<1> QED
  BY <1>1 DEF Sources

\* An edit that is newer than everything seen covers it.
LEMMA EditCovers ==
  ASSUME NEW x \in Content, NEW s \in Sources, NEW v \in 0..MaxEdits, x[s] <= v
  PROVE  /\ [x EXCEPT ![s] = v] \in Content /\ [x EXCEPT ![s] = v][s] = v
         /\ Covers([x EXCEPT ![s] = v], x)
         /\ \A t \in Sources : t # s => [x EXCEPT ![s] = v][t] = x[t]
<1>1. \A t \in Sources : x[t] \in Int
  BY DurabilityBounds DEF Content
<1> QED
  BY <1>1 DEF Covers, Content

-----------------------------------------------------------------------------
Process ==
  [role : {"closed", "session", "journal", "inspect"},
   pc : {"idle", "opened", "append", "attempted", "recovered", "staged", "renamed"},
   serving : Content, observed : Content,
   activated : BOOLEAN, sealed : BOOLEAN, moved : BOOLEAN,
   outcome : {"none", "stale", "rejected", "done"},
   pending : BOOLEAN, failed : BOOLEAN, poisoned : BOOLEAN]

DiskTypes ==
  /\ log \in Logs /\ Len(log) <= MaxLog
  /\ synced \in 0..Len(log)
  /\ flushed \in BOOLEAN
  /\ tail \in {"none", "short", "damaged"}
  /\ ckpt \in Checkpoint /\ durable \in Checkpoint
  /\ edits \in 0..MaxEdits /\ boots \in 0..MaxBoots
  /\ acked \in Confirmations
  /\ settled \in Logs

\* What the disk holds, whoever has it open.
DiskSound ==
  /\ DiskTypes
  /\ LogSound(log, edits)
  /\ flushed => synced = Len(log)
  /\ Len(settled) <= synced /\ \A i \in 1..Len(settled) : settled[i] = log[i]
  /\ Kept(ckpt, log, synced, edits, acked)
  /\ Kept(durable, log, synced, edits, acked)

Writes == proc.role \in {"session", "journal"}

Shape ==
  /\ proc.role \in {"closed", "inspect"} => proc.pc = "idle"
  /\ proc.role = "journal" => proc.pc \notin {"attempted", "recovered"} /\ proc.pending = FALSE
  /\ proc.role # "closed" /\ proc.pc # "opened" => Len(log) > 0

Bound ==
  /\ Covers(proc.observed, proc.serving)
  /\ \A s \in Sources : proc.observed[s] <= edits

\* A process that has loaded what the disk holds knows what was confirmed and
\* what the log applied; a session whose recovery is outstanding does not.
Trusted == Writes /\ proc.pc # "opened" /\ (proc.pending = FALSE \/ proc.pc = "recovered")

Informed ==
  Trusted => /\ Covers(proc.serving, acked.serving)
             /\ Covers(proc.observed, acked.observed)
             /\ Reflects(proc.observed["admin"], log, Len(log))

\* A handle that is not poisoned has nothing unsynced behind it.
Clean ==
  Writes => /\ proc.poisoned = FALSE => flushed = TRUE
            /\ proc.poisoned = FALSE \/ proc.pc = "append" => durable = ckpt

Saving ==
  proc.pc \in {"staged", "renamed"} =>
    /\ flushed = TRUE /\ ~ Pending(log) /\ proc.poisoned = TRUE /\ proc.pending = FALSE
    /\ proc.pc = "renamed" => ckpt = Encoded

Remembers ==
  proc.role = "session" /\ proc.pc # "opened" => Reflects(ckpt.observed["admin"], log, Len(log))

ProcSound ==
  proc \in Process /\ Shape /\ Bound /\ Informed /\ Clean /\ Saving /\ Remembers

DInv == DiskSound /\ ProcSound

rest == <<disk, ckpt, durable, edits, boots, acked, settled>>

LEMMA DiskFacts ==
  ASSUME DInv
  PROVE  /\ log \in Logs /\ Len(log) \in Nat /\ Len(log) <= MaxLog
         /\ \A i \in 1..Len(log) : log[i] \in Record
         /\ synced \in 0..Len(log) /\ synced \in Nat /\ edits \in Nat /\ edits \in 0..MaxEdits
         /\ boots \in Nat /\ boots \in 0..MaxBoots
         /\ ckpt \in Checkpoint /\ durable \in Checkpoint /\ acked \in Confirmations
         /\ settled \in Logs /\ Len(settled) \in Nat
         /\ ckpt.serving \in Content /\ ckpt.observed \in Content /\ ckpt.prefix \in Logs
         /\ acked.serving \in Content /\ acked.observed \in Content
         /\ proc.serving \in Content /\ proc.observed \in Content
         /\ LogSound(log, edits) /\ Kept(ckpt, log, synced, edits, acked)
         /\ Kept(durable, log, synced, edits, acked)
<1>1. DiskSound /\ proc \in Process
  BY DEF DInv, ProcSound
<1>2. log \in Logs /\ synced \in 0..Len(log) /\ settled \in Logs /\ edits \in 0..MaxEdits /\ boots \in 0..MaxBoots
  BY <1>1 DEF DiskSound, DiskTypes
<1>3. /\ Len(log) \in Nat /\ Len(settled) \in Nat /\ \A i \in 1..Len(log) : log[i] \in Record
  BY <1>2, LogFacts
<1>4. synced \in Nat /\ edits \in Nat /\ boots \in Nat
  BY <1>2, <1>3, DurabilityBounds
<1>5. ckpt \in Checkpoint /\ durable \in Checkpoint /\ acked \in Confirmations
  BY <1>1 DEF DiskSound, DiskTypes
<1>6. /\ ckpt.serving \in Content /\ ckpt.observed \in Content /\ ckpt.prefix \in Logs
      /\ acked.serving \in Content /\ acked.observed \in Content
  BY <1>5 DEF Checkpoint, Confirmations
<1>7. proc.serving \in Content /\ proc.observed \in Content
  BY <1>1 DEF Process
<1> QED
  BY <1>1, <1>2, <1>3, <1>4, <1>5, <1>6, <1>7 DEF DiskSound, DiskTypes

LEMMA DiskUnchanged ==
  ASSUME DInv, UNCHANGED rest
  PROVE  DiskSound'
BY DEF DInv, DiskSound, DiskTypes, rest, disk

\* Nobody holds the lock.
LEMMA ClosedSound ==
  ASSUME proc' = Closed, edits' \in Nat
  PROVE  ProcSound'
<1>1. Closed \in Process
  BY ContentFacts DEF Closed, Process
<1>2. /\ proc'.role = "closed" /\ proc'.pc = "idle"
      /\ proc'.serving = Nothing /\ proc'.observed = Nothing
  BY DEF Closed
<1>3. Bound'
  BY <1>2, ContentFacts DEF Bound, Nothing
<1> QED
  BY <1>1, <1>2, <1>3 DEF ProcSound, Shape, Informed, Trusted, Writes, Clean, Saving, Remembers

\* A process that only moves between waiting and an attempt.
LEMMA QuietStep ==
  ASSUME DInv, UNCHANGED rest, proc' \in Process,
         proc'.role = proc.role, proc'.serving = proc.serving, proc'.observed = proc.observed,
         proc'.poisoned = proc.poisoned, proc'.pending = proc.pending,
         \/ proc'.pc = proc.pc
         \/ proc.pc # "opened" /\ proc'.pc = "idle"
         \/ proc.pc = "idle" /\ proc.role = "session" /\ proc'.pc = "attempted"
  PROVE  DInv'
<1>1. DiskSound'
  BY DiskUnchanged
<1>2. UNCHANGED <<log, synced, flushed, tail, ckpt, durable, edits, boots, acked, settled>>
  BY DEF rest, disk
<1>3. Shape' /\ Bound'
  BY <1>2 DEF DInv, ProcSound, Shape, Bound
<1>4. Informed'
  BY <1>2 DEF DInv, ProcSound, Informed, Trusted, Writes
<1>5. Clean'
  BY <1>2 DEF DInv, ProcSound, Clean, Writes
<1>6. Saving'
  BY <1>2 DEF DInv, ProcSound, Saving, Encoded
<1>7. Remembers'
  BY <1>2 DEF DInv, ProcSound, Remembers
<1> QED
  BY <1>1, <1>3, <1>4, <1>5, <1>6, <1>7 DEF DInv, ProcSound

-----------------------------------------------------------------------------
(* One lemma per group of steps.                                           *)

LEMMA QuietProcess ==
  ASSUME DInv,
         \/ Activate \/ PanicInAttempt \/ SealBeforeSave \/ FinishUnsaved \/ SaveFails
  PROVE  DInv'
<1>1. proc \in Process /\ Shape
  BY DEF DInv, ProcSound
<1>2. UNCHANGED rest
  BY DEF rest, Activate, PanicInAttempt, SealBeforeSave, FinishUnsaved, SaveFails
<1>3. CASE Activate
  BY <1>1, <1>2, <1>3, QuietStep DEF Activate, Process
<1>4. CASE PanicInAttempt
  BY <1>1, <1>2, <1>4, QuietStep DEF PanicInAttempt, Process
<1>5. CASE SealBeforeSave
  BY <1>1, <1>2, <1>5, QuietStep DEF SealBeforeSave, Process
<1>6. CASE FinishUnsaved
  BY <1>1, <1>2, <1>6, QuietStep DEF FinishUnsaved, Completed, Process
<1>7. CASE SaveFails
  BY <1>1, <1>2, <1>7, QuietStep DEF SaveFails, Process
<1> QED
  BY <1>3, <1>4, <1>5, <1>6, <1>7

LEMMA ConfirmStep ==
  ASSUME DInv, Confirm
  PROVE  DInv'
<1>1. proc \in Process /\ Shape /\ UNCHANGED rest /\ proc.pc = "recovered"
  BY DEF DInv, ProcSound, Confirm, rest
<1>2. CASE proc' = [proc EXCEPT !.pc = "idle", !.failed = TRUE]
  BY <1>1, <1>2, QuietStep DEF Process
<1>3. CASE proc' = [proc EXCEPT !.pc = "idle", !.pending = FALSE]
  <2>1. /\ proc' \in Process /\ proc'.pc = "idle" /\ proc'.role = proc.role
        /\ proc'.serving = proc.serving /\ proc'.observed = proc.observed
        /\ proc'.poisoned = proc.poisoned
    BY <1>1, <1>3 DEF Process
  <2>2. UNCHANGED <<log, synced, flushed, tail, ckpt, durable, edits, boots, acked, settled>>
    BY <1>1 DEF rest, disk
  <2>3. proc.role = "session"
    BY <1>1 DEF Shape, Process
  <2>4. Shape' /\ Bound'
    BY <1>1, <2>1, <2>2, <2>3 DEF DInv, ProcSound, Shape, Bound
  <2>5. Informed'
    BY <1>1, <2>1, <2>2 DEF DInv, ProcSound, Informed, Trusted, Writes
  <2>6. Clean' /\ Saving' /\ Remembers'
    BY <1>1, <2>1, <2>2 DEF DInv, ProcSound, Clean, Saving, Remembers, Writes
  <2> QED
    BY <1>1, <2>1, <2>4, <2>5, <2>6, DiskUnchanged DEF DInv, ProcSound
<1> QED
  BY <1>2, <1>3 DEF Confirm

LEMMA ExitStep ==
  ASSUME DInv, Exit
  PROVE  DInv'
<1>1. UNCHANGED rest /\ proc' = Closed /\ edits' \in Nat
  BY DiskFacts DEF Exit, rest
<1> QED
  BY <1>1, DiskUnchanged, ClosedSound DEF DInv

LEMMA OpenStep ==
  ASSUME DInv, NEW role \in {"session", "journal"}, Open(role)
  PROVE  DInv'
<1>1. /\ proc' = [Closed EXCEPT !.role = role, !.pc = "opened"]
      /\ synced' = Len(log) /\ flushed' = TRUE /\ durable' = ckpt /\ boots' = boots + 1
      /\ boots < MaxBoots
      /\ UNCHANGED <<log, tail, ckpt, edits, acked, settled>>
  BY DEF Open
<1>2. /\ proc' \in Process /\ proc'.role = role /\ proc'.pc = "opened"
      /\ proc'.serving = Nothing /\ proc'.observed = Nothing /\ proc'.pending = FALSE
  BY <1>1, ContentFacts DEF Closed, Process
<1>3. Kept(ckpt, log, Len(log), edits, acked)
  BY DiskFacts, KeptLater
<1>4. DiskTypes'
  <2>1. boots' \in 0..MaxBoots /\ synced' \in 0..Len(log)
    BY <1>1, DiskFacts, DurabilityBounds
  <2> QED
    BY <1>1, <2>1 DEF DInv, DiskSound, DiskTypes
<1>5. Len(settled) <= Len(log)
  BY DiskFacts DEF DInv, DiskSound
<1>6. DiskSound'
  BY <1>1, <1>3, <1>4, <1>5 DEF DInv, DiskSound
<1>7. Bound'
  <2>1. edits' \in Nat
    BY <1>1, DiskFacts
  <2> QED
    BY <1>2, <2>1, ContentFacts DEF Bound, Nothing
<1> QED
  BY <1>1, <1>2, <1>6, <1>7
     DEF DInv, ProcSound, Shape, Informed, Trusted, Writes, Clean, Saving, Remembers

LEMMA OpenExistingStep ==
  ASSUME DInv, OpenExisting
  PROVE  DInv'
<1>1. UNCHANGED rest /\ proc' = [Closed EXCEPT !.role = "inspect"] /\ log # <<>>
  BY DEF OpenExisting, rest
<1>2. /\ proc' \in Process /\ proc'.role = "inspect" /\ proc'.pc = "idle"
      /\ proc'.serving = Nothing /\ proc'.observed = Nothing
  BY <1>1, ContentFacts DEF Closed, Process
<1>3. UNCHANGED <<log, edits>> /\ Len(log) > 0
  BY <1>1, DiskFacts DEF rest, disk, Logs
<1>4. Bound'
  <2>1. edits' \in Nat
    BY <1>3, DiskFacts
  <2> QED
    BY <1>2, <2>1, ContentFacts DEF Bound, Nothing
<1> QED
  BY <1>1, <1>2, <1>3, <1>4, DiskUnchanged
     DEF DInv, ProcSound, Shape, Informed, Trusted, Writes, Clean, Saving, Remembers

\* Without a checkpoint nothing was ever confirmed.
LEMMA NothingConfirmed ==
  ASSUME DInv, ckpt = NoCkpt
  PROVE  \A x \in Content : Covers(x, acked.serving) /\ Covers(x, acked.observed)
<1>1. Covers(Nothing, acked.serving) /\ Covers(Nothing, acked.observed)
  BY DiskFacts DEF Kept, NoCkpt
<1> QED
  BY <1>1, DiskFacts, ContentFacts

\* CheckpointWriter::open goes on only with a checkpoint over the whole log, or with none and no
\* transaction in the log.
LEMMA OpenSessionStep ==
  ASSUME DInv, OpenSession
  PROVE  DInv'
<1>1. UNCHANGED rest /\ proc.role = "session" /\ proc.pc = "opened" /\ log # <<>>
  BY DEF OpenSession, rest
<1>2. CASE proc' = Closed
  BY <1>1, <1>2, DiskFacts, DiskUnchanged, ClosedSound DEF DInv, rest
<1>3. CASE /\ Disposition \in {"uninitialized", "current"}
           /\ proc' = [proc EXCEPT !.pc = "idle", !.pending = ckpt # NoCkpt]
  <2>1. /\ proc' \in Process /\ proc'.pc = "idle" /\ proc'.role = "session"
        /\ proc'.serving = proc.serving /\ proc'.observed = proc.observed
        /\ proc'.poisoned = proc.poisoned /\ (proc'.pending = FALSE <=> ckpt = NoCkpt)
    BY <1>1, <1>3 DEF Process, DInv, ProcSound
  <2>2. UNCHANGED <<log, synced, flushed, tail, ckpt, durable, edits, boots, acked, settled>>
    BY <1>1 DEF rest, disk
  <2>3. Len(log) > 0
    BY <1>1, DiskFacts DEF Logs
  <2>4. IF ckpt = NoCkpt THEN Len(log) <= 1 ELSE Len(log) <= Len(ckpt.prefix)
    <3>1. Len(log) \in Nat /\ Len(ckpt.prefix) \in Nat
      BY DiskFacts, LogFacts
    <3> QED
      BY <1>3, <3>1 DEF Disposition
  <2>5. Reflects(ckpt.observed["admin"], log, Len(log))
    <3>1. CASE Len(log) <= 1
      BY <3>1, DiskFacts DEF Reflects
    <3>2. CASE Len(log) <= Len(ckpt.prefix)
      <4>1. Len(log) = Len(ckpt.prefix)
        BY <3>2, DiskFacts, LogFacts DEF Kept
      <4> QED
        BY <4>1, DiskFacts DEF Kept
    <3> QED
      BY <2>4, <3>1, <3>2
  <2>6. Informed'
    <3> SUFFICES ASSUME ckpt = NoCkpt
                 PROVE  /\ Covers(proc.serving, acked.serving)
                        /\ Covers(proc.observed, acked.observed)
                        /\ Reflects(proc.observed["admin"], log, Len(log))
      BY <2>1, <2>2 DEF Informed, Trusted
    <3>1. Reflects(proc.observed["admin"], log, Len(log))
      BY <2>4, DiskFacts DEF Reflects
    <3> QED
      BY <3>1, DiskFacts, NothingConfirmed
  <2>7. Shape' /\ Bound'
    BY <2>1, <2>2, <2>3 DEF DInv, ProcSound, Shape, Bound
  <2>8. Clean' /\ Saving' /\ Remembers'
    BY <1>1, <2>1, <2>2, <2>5 DEF DInv, ProcSound, Clean, Saving, Remembers, Writes
  <2> QED
    BY <1>1, <2>1, <2>6, <2>7, <2>8, DiskUnchanged DEF DInv, ProcSound
<1> QED
  BY <1>2, <1>3 DEF OpenSession

\* The journal host starts with everything the checkpoint holds and the log confirms.
LEMMA JournalContent ==
  ASSUME DInv, NEW content,
         content = IF AppliedAt(log) > Len(ckpt.prefix)
                     THEN [ckpt.observed EXCEPT !["admin"] = log[AppliedAt(log)].edit]
                     ELSE ckpt.serving
  PROVE  /\ content \in Content
         /\ \A s \in Sources : content[s] <= edits
         /\ Covers(content, ckpt.serving)
         /\ Reflects(Newer(content, ckpt.observed)["admin"], log, Len(log))
<1> DEFINE at == AppliedAt(log)
           n == Len(ckpt.prefix)
           new == Newer(content, ckpt.observed)
<1>1. /\ at \in Nat /\ (at > 0 => at + 1 \in 2..Len(log) /\ log[at + 1].kind = "applied")
      /\ \A j \in 2..Len(log) : log[j].kind = "applied" => j - 1 <= at
  BY AppliedFacts, DiskFacts
<1>2. n \in Nat /\ n <= Len(log) /\ Len(log) \in Nat
  BY DiskFacts, LogFacts DEF Kept
<1>3. \A i \in 1..Len(log) : log[i].edit \in 0..MaxEdits /\ log[i].edit \in Int /\ log[i].edit <= edits
  BY DiskFacts, RecordFacts DEF LogSound
<1>4. \A i \in 2..Len(log) : log[i].kind = "applied" => log[i - 1].kind = "intent" /\ i - 1 \in 1..Len(log)
  <2> TAKE i \in 2..Len(log)
  <2>1. i \in 1..Len(log) /\ i # 1 /\ i - 1 \in 1..Len(log)
    BY <1>2
  <2>2. log[i].kind = "intent" <=> log[i - 1].kind # "intent"
    BY <2>1, DiskFacts DEF LogSound, Legal
  <2> QED
    BY <2>1, <2>2
<1>5. /\ "admin" \in Sources /\ ckpt.observed \in Content /\ ckpt.serving \in Content
      /\ Covers(ckpt.observed, ckpt.serving) /\ \A s \in Sources : ckpt.observed[s] <= edits
  BY DiskFacts DEF Kept, Sources
<1>6. CASE at > n
  <2>1. at \in 1..Len(log) /\ log[at].kind = "intent"
    <3>1. at > 0
      BY <1>1, <1>2, <1>6
    <3>2. at + 1 \in 2..Len(log) /\ log[at + 1].kind = "applied" /\ (at + 1) - 1 = at
      BY <1>1, <3>1
    <3> QED
      BY <1>4, <3>2
  <2>2. ckpt.observed["admin"] <= log[at].edit
    BY <1>6, <2>1, DiskFacts DEF Kept
  <2>3. content = [ckpt.observed EXCEPT !["admin"] = log[at].edit]
    BY <1>6
  <2>4. /\ content \in Content /\ content["admin"] = log[at].edit /\ Covers(content, ckpt.observed)
        /\ \A t \in Sources : t # "admin" => content[t] = ckpt.observed[t]
    <3> HIDE DEF at
    <3>1. log[at].edit \in 0..MaxEdits
      BY <1>3, <2>1
    <3>2. /\ [ckpt.observed EXCEPT !["admin"] = log[at].edit] \in Content
          /\ [ckpt.observed EXCEPT !["admin"] = log[at].edit]["admin"] = log[at].edit
          /\ Covers([ckpt.observed EXCEPT !["admin"] = log[at].edit], ckpt.observed)
          /\ \A t \in Sources :
               t # "admin" => [ckpt.observed EXCEPT !["admin"] = log[at].edit][t] = ckpt.observed[t]
      BY <1>5, <2>2, <3>1, EditCovers
    <3> QED
      BY <2>3, <3>2
  <2>5. \A s \in Sources : content[s] <= edits
    BY <1>3, <1>5, <2>1, <2>4
  <2>6. Covers(content, ckpt.serving)
    BY <1>5, <2>4, ContentFacts
  <2>7. new \in Content /\ new["admin"] >= log[at].edit
    BY <1>5, <2>4, ContentFacts DEF Covers
  <2>8. ASSUME NEW i \in 2..Len(log), log[i].kind = "applied"
        PROVE  log[i - 1].edit <= new["admin"]
    <3>1. /\ i - 1 \in 1..Len(log) /\ log[i - 1].kind = "intent" /\ i - 1 <= at
      BY <1>1, <1>4, <2>8
    <3>2. log[i - 1].edit <= log[at].edit
      <4>1. CASE i - 1 = at
        BY <1>3, <2>1, <4>1
      <4>2. CASE i - 1 < at
        BY <1>3, <2>1, <3>1, <4>2, DiskFacts DEF LogSound
      <4> QED
        BY <1>1, <3>1, <4>1, <4>2
    <3>3. new["admin"] \in Int
      BY <2>7, ContentInt
    <3> QED
      BY <1>3, <2>1, <2>7, <3>1, <3>2, <3>3
  <2> QED
    BY <2>4, <2>5, <2>6, <2>8 DEF Reflects
<1>7. CASE ~ (at > n)
  <2>1. content = ckpt.serving
    BY <1>7
  <2>2. content \in Content /\ Covers(content, ckpt.serving)
    BY <1>5, <2>1, ContentFacts
  <2>3. \A s \in Sources : content[s] <= edits
    <3>1. \A s \in Sources : ckpt.serving[s] \in Int /\ ckpt.observed[s] \in Int /\ edits \in Int
      BY <1>5, DiskFacts, ContentInt
    <3> QED
      BY <1>5, <2>1, <3>1 DEF Covers
  <2>4. new \in Content /\ new["admin"] >= ckpt.observed["admin"]
    BY <1>5, <2>2, ContentFacts DEF Covers
  <2>5. ASSUME NEW i \in 2..Len(log), log[i].kind = "applied"
        PROVE  log[i - 1].edit <= new["admin"]
    <3>1. /\ i - 1 \in 1..Len(log) /\ log[i - 1].kind = "intent" /\ i - 1 <= at
      BY <1>1, <1>4, <2>5
    <3>2. i <= n
      <4>1. i - 1 <= n
        BY <1>1, <1>2, <1>7, <3>1
      <4>2. i - 1 # n
        <5> SUFFICES ASSUME i - 1 = n PROVE FALSE
          OBVIOUS
        <5>1. CASE n > 1
          BY <3>1, <5>1, DiskFacts DEF Kept
        <5>2. CASE n = 1
          <6>1. log[1] = Binding
            BY <1>2, <5>2, DiskFacts DEF LogSound, Legal
          <6> QED
            BY <3>1, <5>2, <6>1, BindingFacts
        <5>3. n > 1 \/ n = 1
          <6>1. \A a \in Nat, m \in Nat : \A j \in 2..m : j - 1 = a => a > 1 \/ a = 1
            OBVIOUS
          <6> HIDE DEF n
          <6> QED
            BY <1>2, <6>1
        <5> QED
          BY <5>1, <5>2, <5>3
      <4> QED
        BY <1>2, <4>1, <4>2
    <3>3. log[i - 1].edit <= ckpt.observed["admin"]
      <4>1. Reflects(ckpt.observed["admin"], log, n) /\ i \in 2..n
        BY <1>2, <3>2, DiskFacts DEF Kept
      <4> QED
        BY <2>5, <4>1 DEF Reflects
    <3>4. new["admin"] \in Int /\ ckpt.observed["admin"] \in Int
      BY <1>5, <2>4, ContentInt
    <3> QED
      BY <1>3, <2>4, <3>1, <3>3, <3>4
  <2> QED
    BY <2>2, <2>3, <2>5 DEF Reflects
<1> QED
  BY <1>6, <1>7

LEMMA OpenJournalStep ==
  ASSUME DInv, OpenJournal
  PROVE  DInv'
<1> DEFINE content == IF AppliedAt(log) > Len(ckpt.prefix)
                        THEN [ckpt.observed EXCEPT !["admin"] = log[AppliedAt(log)].edit]
                        ELSE ckpt.serving
           new == Newer(content, ckpt.observed)
<1>1. UNCHANGED rest /\ proc.role = "journal" /\ proc.pc = "opened" /\ log # <<>>
  BY DEF OpenJournal, rest
<1>2. CASE proc' = Closed
  BY <1>1, <1>2, DiskFacts, DiskUnchanged, ClosedSound DEF DInv, rest
<1>3. CASE proc' = [proc EXCEPT !.pc = "idle", !.serving = content, !.observed = new]
  <2>0. proc \in Process /\ proc.pending = FALSE
    BY <1>1 DEF DInv, ProcSound, Shape
  <2>1. /\ content \in Content /\ (\A s \in Sources : content[s] <= edits)
        /\ Covers(content, ckpt.serving) /\ Reflects(new["admin"], log, Len(log))
    <3>1. \A x : x = content =>
            /\ x \in Content /\ (\A s \in Sources : x[s] <= edits)
            /\ Covers(x, ckpt.serving) /\ Reflects(Newer(x, ckpt.observed)["admin"], log, Len(log))
      BY JournalContent
    <3> HIDE DEF content
    <3> QED
      BY <3>1
  <2> HIDE DEF content
  <2>2. /\ ckpt.observed \in Content /\ ckpt.serving \in Content
        /\ acked.serving \in Content /\ acked.observed \in Content
        /\ Covers(ckpt.serving, acked.serving) /\ Covers(ckpt.observed, acked.observed)
        /\ \A s \in Sources : ckpt.observed[s] <= edits
    BY DiskFacts DEF Kept
  <2>3. new \in Content /\ Covers(new, content) /\ Covers(new, ckpt.observed)
    BY <2>1, <2>2, ContentFacts
  <2>4. \A s \in Sources : new[s] <= edits
    BY <2>1, <2>2 DEF Newer
  <2> HIDE DEF new
  <2>5. /\ proc' \in Process /\ proc'.pc = "idle" /\ proc'.role = "journal"
        /\ proc'.serving = content /\ proc'.observed = new
        /\ proc'.poisoned = proc.poisoned /\ proc'.pending = FALSE
    BY <1>1, <1>3, <2>0, <2>1, <2>3 DEF Process
  <2>6. UNCHANGED <<log, synced, flushed, tail, ckpt, durable, edits, boots, acked, settled>>
    BY <1>1 DEF rest, disk
  <2>7. Shape'
    <3>1. Len(log) > 0
      BY <1>1, DiskFacts DEF Logs
    <3> QED
      BY <2>5, <2>6, <3>1 DEF Shape
  <2>8. Bound'
    BY <2>3, <2>4, <2>5, <2>6 DEF Bound
  <2>9. Informed'
    <3>1. Covers(content, acked.serving) /\ Covers(new, acked.observed)
      <4>1. \A x, y, z \in Content : Covers(x, y) /\ Covers(y, z) => Covers(x, z)
        BY ContentFacts
      <4> QED
        BY <2>1, <2>2, <2>3, <4>1
    <3> QED
      BY <2>1, <2>5, <2>6, <3>1 DEF Informed
  <2>10. Clean' /\ Saving' /\ Remembers'
    BY <1>1, <2>5, <2>6 DEF DInv, ProcSound, Clean, Saving, Remembers, Writes
  <2> QED
    BY <1>1, <2>5, <2>7, <2>8, <2>9, <2>10, DiskUnchanged DEF DInv, ProcSound
<1> QED
  BY <1>2, <1>3 DEF OpenJournal

\* append_with: whole, or a part that makes the tail.
LEMMA WriteStep ==
  ASSUME DInv, NEW r \in Record, Write(r), Writes, proc.pc \in {"idle", "opened"},
         edits' \in 0..MaxEdits, edits <= edits',
         IF log = <<>> THEN r = Binding
                       ELSE /\ proc.role = "journal" /\ proc.pc = "idle"
                            /\ IF Pending(log)
                                 THEN /\ r.kind \in {"applied", "rejected"}
                                      /\ r.kind = "applied" => proc.serving["admin"] = Last(log).edit
                                 ELSE /\ r.kind = "intent" /\ edits < r.edit /\ r.edit <= edits'
                                      /\ Len(log) + 2 <= MaxLog
  PROVE  DInv'
<1>0. /\ proc \in Process /\ Shape /\ Bound /\ Informed /\ Clean
  BY DEF DInv, ProcSound
<1>1. /\ flushed' = FALSE /\ UNCHANGED <<synced, ckpt, durable, boots, acked, settled>>
      /\ proc.poisoned = FALSE /\ Len(log) < MaxLog
  BY <1>0 DEF Write, CanAppend, Process
<1>2. edits' \in Nat
  BY DurabilityBounds
<1>3. /\ Kept(ckpt, log, synced, edits', acked) /\ Kept(durable, log, synced, edits', acked)
  BY <1>2, DiskFacts, KeptLater
<1>5. CASE log' = log /\ tail' = "short"
  <2>1. LogSound(log, edits')
    BY <1>2, DiskFacts, LogLater
  <2>2. DiskSound'
    BY <1>1, <1>3, <1>5, <2>1 DEF DInv, DiskSound, DiskTypes
  <2>3. CASE proc' = Closed
    BY <1>2, <2>2, <2>3, ClosedSound DEF DInv
  <2>4. CASE log # <<>> /\ proc' = [proc EXCEPT !.poisoned = TRUE, !.pc = "idle"]
    <3>1. /\ proc' \in Process /\ proc'.pc = "idle" /\ proc'.role = "journal" /\ proc.pc = "idle"
          /\ proc'.serving = proc.serving /\ proc'.observed = proc.observed
          /\ proc'.poisoned = TRUE /\ proc'.pending = FALSE /\ proc.pending = FALSE
          /\ proc.role = "journal"
      BY <1>0, <2>4 DEF Process, Shape
    <3>2. Len(log) > 0
      BY <2>4, DiskFacts DEF Logs
    <3>3. Bound'
      <4>1. \A s \in Sources : proc.observed[s] \in Int
        BY DiskFacts, ContentInt
      <4> QED
        BY <1>0, <1>2, <3>1, <4>1, DiskFacts DEF Bound
    <3>4. Informed'
      BY <1>0, <1>1, <1>5, <3>1 DEF Informed, Trusted, Writes
    <3> QED
      BY <1>5, <2>2, <3>1, <3>2, <3>3, <3>4 DEF DInv, ProcSound, Shape, Clean, Saving, Remembers, Writes
  <2> QED
    BY <1>5, <2>3, <2>4 DEF Write
<1>6. CASE log' = Append(log, r) /\ tail' = tail /\ proc' = [proc EXCEPT !.poisoned = TRUE, !.pc = "append"]
  <2>1. /\ log' \in Logs /\ Len(log') = Len(log) + 1 /\ log'[Len(log) + 1] = r
        /\ \A i \in 1..Len(log) : log'[i] = log[i]
    BY <1>6, AppendFacts, DiskFacts
  <2>2. LogSound(log', edits')
    BY <1>1, <1>2, <1>6, DiskFacts, LogAppend
  <2>3. r.kind = "intent" => edits < r.edit
    BY BindingFacts
  <2>4. Kept(ckpt, log', synced, edits', acked) /\ Kept(durable, log', synced, edits', acked)
    BY <1>2, <1>6, <2>3, DiskFacts, KeptAppend
  <2>5. DiskTypes'
    <3>1. synced \in 0..Len(log') /\ Len(log') <= MaxLog
      BY <1>1, <2>1, DiskFacts, DurabilityBounds
    <3> QED
      BY <1>1, <1>6, <2>1, <3>1 DEF DInv, DiskSound, DiskTypes
  <2>6. \A i \in 1..Len(settled) : settled[i] = log'[i]
    <3>1. Len(settled) <= Len(log)
      BY DiskFacts DEF DInv, DiskSound
    <3> QED
      BY <2>1, <3>1, DiskFacts DEF DInv, DiskSound
  <2>7. DiskSound'
    BY <1>1, <2>2, <2>4, <2>5, <2>6 DEF DInv, DiskSound
  <2>8. /\ proc' \in Process /\ proc'.pc = "append" /\ proc'.role = proc.role
        /\ proc'.serving = proc.serving /\ proc'.observed = proc.observed
        /\ proc'.poisoned = TRUE /\ proc'.pending = proc.pending
    BY <1>0, <1>6 DEF Process
  <2>9. Shape'
    <3>1. Len(log') > 0
      BY <2>1, DiskFacts
    <3> QED
      BY <1>0, <2>8, <3>1 DEF Shape, Writes
  <2>10. Bound'
    <3>1. \A s \in Sources : proc.observed[s] \in Int
      BY DiskFacts, ContentInt
    <3> QED
      BY <1>0, <1>2, <2>8, <3>1, DiskFacts DEF Bound
  <2>11. durable = ckpt
    BY <1>0, <1>1 DEF Clean
  <2>12. Clean' /\ Saving'
    BY <1>1, <2>8, <2>11 DEF Clean, Saving, Writes
  <2>13. CASE log = <<>>
    <3>1. Len(log') = 1
      BY <2>1, <2>13
    <3>2. ckpt = NoCkpt
      <4>1. Len(log) = 0
        BY <2>13
      <4>2. Len(ckpt.prefix) <= 0
        BY <4>1, DiskFacts, LogFacts DEF Kept
      <4> QED
        BY <4>2, DiskFacts, LogFacts DEF Kept
    <3>3. Remembers'
      BY <3>1 DEF Remembers, Reflects
    <3>4. Informed'
      <4>1. Reflects(proc.observed["admin"], log', Len(log'))
        BY <3>1 DEF Reflects
      <4> QED
        BY <1>1, <2>8, <3>2, <4>1, DiskFacts, NothingConfirmed DEF Informed
    <3> QED
      BY <2>7, <2>8, <2>9, <2>10, <2>12, <3>3, <3>4 DEF DInv, ProcSound
  <2>14. CASE log # <<>>
    <3>1. proc.role = "journal" /\ proc.pc = "idle" /\ proc.pending = FALSE /\ Trusted
      BY <1>0, <2>14 DEF Shape, Trusted, Writes
    <3>2. Remembers'
      BY <2>8, <3>1 DEF Remembers
    <3>3. Reflects(proc.observed["admin"], log', Len(log'))
      <4> SUFFICES ASSUME NEW i \in 2..Len(log'), log'[i].kind = "applied"
                   PROVE  log'[i - 1].edit <= proc.observed["admin"]
        BY DEF Reflects
      <4>1. CASE i <= Len(log)
        <5>1. i \in 2..Len(log) /\ log'[i] = log[i] /\ log'[i - 1] = log[i - 1]
          BY <2>1, <4>1, DiskFacts
        <5> QED
          BY <1>0, <3>1, <5>1 DEF Informed, Reflects
      <4>2. CASE i = Len(log) + 1
        <5>1. r.kind = "applied" /\ i - 1 = Len(log) /\ Len(log) \in 1..Len(log)
          BY <2>1, <4>2, DiskFacts
        <5>2. proc.serving["admin"] = log[Len(log)].edit
          BY <2>14, <5>1 DEF Last
        <5>3. /\ proc.serving["admin"] \in Int /\ proc.observed["admin"] \in Int
              /\ proc.serving["admin"] <= proc.observed["admin"]
          BY <1>0, DiskFacts, ContentInt DEF Bound, Covers
        <5> QED
          BY <2>1, <5>1, <5>2, <5>3
      <4> QED
        BY <2>1, <4>1, <4>2, DiskFacts
    <3>4. Informed'
      BY <1>0, <1>1, <2>8, <3>1, <3>3 DEF Informed
    <3> QED
      BY <2>7, <2>8, <2>9, <2>10, <2>12, <3>2, <3>4 DEF DInv, ProcSound
  <2> QED
    BY <2>13, <2>14
<1> QED
  BY <1>5, <1>6 DEF Write

LEMMA BindStep ==
  ASSUME DInv, Bind
  PROVE  DInv'
<1>1. /\ Write(Binding) /\ edits' = edits /\ Writes /\ proc.pc = "opened" /\ log = <<>>
  BY DEF Bind, Writes
<1>2. edits' \in 0..MaxEdits /\ edits <= edits'
  BY <1>1, DiskFacts
<1> QED
  BY <1>1, <1>2, BindingFacts, WriteStep

LEMMA BeginStep ==
  ASSUME DInv, Begin
  PROVE  DInv'
<1> DEFINE r == Rec("intent", edits + 1)
<1>1. /\ Write(r) /\ edits' = edits + 1 /\ edits < MaxEdits /\ Len(log) + 2 <= MaxLog
      /\ ~ Pending(log) /\ proc.role = "journal" /\ proc.pc = "idle" /\ Writes
  BY DEF Begin, Journaling, Writes
<1>2. edits' \in 0..MaxEdits /\ edits <= edits' /\ edits < edits + 1 /\ edits + 1 <= edits'
  BY <1>1, DiskFacts, DurabilityBounds
<1>3. r \in Record /\ r.kind = "intent" /\ r.edit = edits + 1
  BY <1>1, DiskFacts, DurabilityBounds DEF Rec, Record
<1>4. log # <<>>
  <2>1. Len(log) > 0
    BY <1>1 DEF DInv, ProcSound, Shape
  <2> QED
    BY <2>1
<1> HIDE DEF r
<1> QED
  BY <1>1, <1>2, <1>3, <1>4, WriteStep

LEMMA FinishStep ==
  ASSUME DInv, NEW kind \in {"applied", "rejected"}, FinishIntent(kind)
  PROVE  DInv'
<1> DEFINE r == Rec(kind, 0)
<1>1. /\ Write(r) /\ edits' = edits /\ Pending(log)
      /\ proc.role = "journal" /\ proc.pc = "idle" /\ Writes
      /\ kind = "applied" => proc.serving["admin"] = Last(log).edit
  BY DEF FinishIntent, Journaling, Writes
<1>2. edits' \in 0..MaxEdits /\ edits <= edits'
  BY <1>1, DiskFacts
<1>3. r \in Record /\ r.kind = kind
  BY DEF Rec, Record
<1>4. log # <<>>
  BY <1>1 DEF Pending
<1> HIDE DEF r
<1> QED
  BY <1>1, <1>2, <1>3, <1>4, WriteStep

LEMMA SyncLogStep ==
  ASSUME DInv, SyncLog
  PROVE  DInv'
<1>0. proc \in Process /\ Shape /\ Bound /\ Informed /\ Clean /\ Remembers /\ proc.pc = "append"
  BY DEF DInv, ProcSound, SyncLog
<1>1. /\ synced' = Len(log) /\ flushed' = TRUE /\ settled' = log
      /\ UNCHANGED <<log, tail, ckpt, durable, edits, boots, acked>>
  BY DEF SyncLog
<1>2. /\ proc' \in Process /\ proc'.pc \in {"opened", "idle"} /\ proc'.role = proc.role
      /\ proc'.serving = proc.serving /\ proc'.observed = proc.observed
      /\ proc'.poisoned = FALSE /\ proc'.pending = proc.pending
  <2>1. CASE proc' = [proc EXCEPT !.poisoned = FALSE, !.pc = "opened"]
    BY <1>0, <2>1 DEF Process
  <2>2. CASE proc' = [proc EXCEPT !.poisoned = FALSE, !.pc = "idle"]
    BY <1>0, <2>2 DEF Process
  <2> QED
    BY <2>1, <2>2 DEF SyncLog
<1>3. /\ Kept(ckpt, log, Len(log), edits, acked) /\ Kept(durable, log, Len(log), edits, acked)
  BY DiskFacts, KeptLater
<1>4. DiskSound'
  <2>1. synced' \in 0..Len(log) /\ Len(settled') <= synced'
    BY <1>1, DiskFacts
  <2> QED
    BY <1>1, <1>3, <2>1, DiskFacts DEF DInv, DiskSound, DiskTypes
<1>5. proc.role \in {"session", "journal"}
  BY <1>0 DEF Shape, Process
<1>6. Shape' /\ Bound'
  BY <1>0, <1>1, <1>2, <1>5 DEF Shape, Bound
<1>7. Informed'
  BY <1>0, <1>1, <1>2, <1>5 DEF Informed, Trusted, Writes
<1>8. Clean' /\ Saving' /\ Remembers'
  BY <1>0, <1>1, <1>2, <1>5 DEF Clean, Saving, Remembers, Writes
<1> QED
  BY <1>2, <1>4, <1>6, <1>7, <1>8 DEF DInv, ProcSound

LEMMA SyncLogFailsStep ==
  ASSUME DInv, SyncLogFails
  PROVE  DInv'
<1>1. proc \in Process /\ UNCHANGED rest /\ proc.pc = "append"
  BY DEF DInv, ProcSound, SyncLogFails, rest
<1>2. CASE proc' = Closed
  BY <1>1, <1>2, DiskFacts, DiskUnchanged, ClosedSound DEF DInv, rest
<1>3. CASE proc' = [proc EXCEPT !.pc = "idle"]
  BY <1>1, <1>3, QuietStep DEF Process
<1> QED
  BY <1>2, <1>3 DEF SyncLogFails

LEMMA DiscardStep ==
  ASSUME DInv, Discard
  PROVE  DInv'
<1>0. /\ proc \in Process /\ Shape /\ Bound /\ Informed /\ Clean /\ Remembers
      /\ proc.role = "journal" /\ proc.pc = "idle" /\ proc.poisoned = FALSE
  BY DEF DInv, ProcSound, Discard, Journaling, Process
<1>1. UNCHANGED <<log, ckpt, durable, edits, boots, acked, settled>>
  BY DEF Discard, disk
<1>2. CASE tail' = "none" /\ synced' = Len(log) /\ flushed' = TRUE /\ UNCHANGED proc
  <2>1. /\ Kept(ckpt, log, Len(log), edits, acked) /\ Kept(durable, log, Len(log), edits, acked)
    BY DiskFacts, KeptLater
  <2>2. synced' \in 0..Len(log) /\ Len(settled) <= synced'
    BY <1>2, DiskFacts DEF DInv, DiskSound
  <2>3. DiskSound'
    BY <1>1, <1>2, <2>1, <2>2 DEF DInv, DiskSound, DiskTypes
  <2>4. ProcSound'
    BY <1>0, <1>1, <1>2
       DEF ProcSound, Shape, Bound, Informed, Trusted, Writes, Clean, Saving, Remembers
  <2> QED
    BY <2>3, <2>4 DEF DInv
<1>3. CASE proc' = [proc EXCEPT !.poisoned = TRUE] /\ UNCHANGED disk
  <2>1. /\ proc' \in Process /\ proc'.pc = "idle" /\ proc'.role = "journal"
        /\ proc'.serving = proc.serving /\ proc'.observed = proc.observed
        /\ proc'.poisoned = TRUE /\ proc'.pending = proc.pending
    BY <1>0, <1>3 DEF Process
  <2>2. DiskSound'
    BY <1>1, <1>3, DiskUnchanged DEF rest
  <2>3. ProcSound'
    BY <1>0, <1>1, <1>3, <2>1
       DEF ProcSound, Shape, Bound, Informed, Trusted, Writes, Clean, Saving, Remembers, disk
  <2> QED
    BY <2>2, <2>3 DEF DInv
<1> QED
  BY <1>2, <1>3 DEF Discard

\* What one edit adds to a content.
Supersedes(seen, e) ==
  /\ seen \in Content
  /\ Covers(seen, proc.observed) /\ Covers(seen, proc.serving) /\ Covers(seen, seen)
  /\ \A t \in Sources : seen[t] <= e
  /\ \A x \in Content : Covers(proc.observed, x) => Covers(seen, x)
  /\ \A x \in Content : Covers(proc.serving, x) => Covers(seen, x)
  /\ seen["admin"] >= proc.observed["admin"] /\ seen["admin"] \in Int

LEMMA SeenFacts ==
  ASSUME DInv, NEW s \in Sources, NEW v \in 0..MaxEdits, proc.observed[s] <= v, NEW e \in Nat,
         edits <= e, v <= e, NEW seen, seen = [proc.observed EXCEPT ![s] = v]
  PROVE  Supersedes(seen, e)
<1>1. /\ proc.observed \in Content /\ proc.serving \in Content /\ Covers(proc.observed, proc.serving)
      /\ \A t \in Sources : proc.observed[t] <= edits
  BY DiskFacts DEF DInv, ProcSound, Bound
<1>2. /\ seen \in Content /\ seen[s] = v /\ Covers(seen, proc.observed)
      /\ \A t \in Sources : t # s => seen[t] = proc.observed[t]
  BY <1>1, EditCovers
<1>3. \A x, y, z \in Content : Covers(x, y) /\ Covers(y, z) => Covers(x, z)
  BY ContentFacts
<1>4. Covers(seen, proc.serving) /\ Covers(seen, seen)
  BY <1>1, <1>2, <1>3, ContentFacts
<1>5. \A t \in Sources : seen[t] <= e
  <2>1. \A t \in Sources : proc.observed[t] \in Int /\ edits \in Int
    BY <1>1, ContentInt, DiskFacts
  <2> QED
    BY <1>1, <1>2, <2>1
<1>6. seen["admin"] >= proc.observed["admin"] /\ seen["admin"] \in Int
  BY <1>2, ContentInt DEF Covers
<1> QED
  BY <1>1, <1>2, <1>3, <1>4, <1>5, <1>6 DEF Supersedes

\* A newer view of the admin source holds what an older one does.
LEMMA HoldsLater ==
  ASSUME DInv, NEW v \in Int, NEW w \in Int, v <= w, Reflects(v, log, Len(log))
  PROVE  Reflects(w, log, Len(log))
<1> SUFFICES ASSUME NEW i \in 2..Len(log), log[i].kind = "applied" PROVE log[i - 1].edit <= w
  BY DEF Reflects
<1>1. log[i - 1].edit <= v
  BY DEF Reflects
<1>2. i - 1 \in 1..Len(log)
  BY DiskFacts
<1>3. log[i - 1].edit \in Int
  BY <1>2, DiskFacts, RecordFacts
<1> QED
  BY <1>1, <1>3

LEMMA ApplyStep ==
  ASSUME DInv, NEW published \in BOOLEAN, ApplyIntent(published)
  PROVE  DInv'
<1> DEFINE seen == [proc.observed EXCEPT !["admin"] = Last(log).edit]
<1>0. /\ proc \in Process /\ Shape /\ Bound /\ Informed /\ Clean
      /\ proc.role = "journal" /\ proc.pc = "idle" /\ UNCHANGED rest /\ proc.pending = FALSE
  BY DEF DInv, ProcSound, Shape, ApplyIntent, Journaling, rest
<1>1. Last(log).edit \in 0..MaxEdits /\ Last(log).edit <= edits
  <2>1. Len(log) \in 1..Len(log)
    BY DiskFacts DEF ApplyIntent, Pending
  <2> QED
    BY <2>1, DiskFacts, RecordFacts DEF Last, LogSound
<1>2. /\ seen \in Content
      /\ Covers(seen, proc.observed) /\ Covers(seen, proc.serving) /\ Covers(seen, seen)
      /\ \A t \in Sources : seen[t] <= edits
      /\ \A x \in Content : Covers(proc.observed, x) => Covers(seen, x)
      /\ \A x \in Content : Covers(proc.serving, x) => Covers(seen, x)
      /\ seen["admin"] >= proc.observed["admin"] /\ seen["admin"] \in Int
  <2>1. proc.observed["admin"] <= Last(log).edit
    BY <1>1, DiskFacts, ContentInt DEF ApplyIntent
  <2>2. "admin" \in Sources /\ edits \in Nat /\ edits <= edits
    BY DiskFacts DEF Sources
  <2>3. Supersedes(seen, edits)
    BY <1>1, <2>1, <2>2, SeenFacts
  <2> QED
    BY <2>3 DEF Supersedes
<1>3. proc' = [proc EXCEPT !.observed = seen, !.serving = IF published THEN seen ELSE proc.serving]
  BY <1>0 DEF ApplyIntent, Process
<1> HIDE DEF seen
<1>4. /\ proc' \in Process /\ proc'.pc = "idle" /\ proc'.role = "journal"
      /\ proc'.serving \in {seen, proc.serving} /\ proc'.observed = seen
      /\ proc'.poisoned = proc.poisoned /\ proc'.pending = FALSE
  <2>1. CASE proc' = [proc EXCEPT !.observed = seen, !.serving = seen]
    BY <1>0, <1>2, <2>1 DEF Process
  <2>2. CASE proc' = [proc EXCEPT !.observed = seen, !.serving = proc.serving]
    BY <1>0, <1>2, <2>2 DEF Process
  <2> QED
    BY <1>3, <2>1, <2>2
<1>5. UNCHANGED <<log, synced, flushed, tail, ckpt, durable, edits, boots, acked, settled>>
  BY <1>0 DEF rest, disk
<1>6. Shape' /\ Bound'
  BY <1>0, <1>2, <1>4, <1>5 DEF Shape, Bound
<1>7. Informed'
  <2>1. /\ Covers(proc.serving, acked.serving) /\ Covers(proc.observed, acked.observed)
        /\ Reflects(proc.observed["admin"], log, Len(log))
    BY <1>0 DEF Informed, Trusted, Writes
  <2>2. Covers(seen, acked.serving) /\ Covers(seen, acked.observed)
    BY <1>2, <2>1, DiskFacts
  <2>3. Reflects(seen["admin"], log, Len(log))
    BY <1>2, <2>1, HoldsLater, DiskFacts, ContentInt
  <2> QED
    BY <1>4, <1>5, <2>1, <2>2, <2>3 DEF Informed
<1>8. Clean' /\ Saving' /\ Remembers'
  BY <1>0, <1>4, <1>5 DEF Clean, Saving, Remembers, Writes
<1> QED
  BY <1>0, <1>4, <1>6, <1>7, <1>8, DiskUnchanged DEF DInv, ProcSound

LEMMA RecoverStep ==
  ASSUME DInv, Recover
  PROVE  DInv'
<1>0. /\ proc \in Process /\ Shape /\ Bound /\ Informed /\ Clean /\ Remembers
      /\ proc.role = "session" /\ proc.pc = "idle" /\ UNCHANGED rest /\ proc.pending = TRUE
      /\ proc.serving = Nothing
  BY DEF DInv, ProcSound, Recover, InSession, rest, Process
<1>1. /\ ckpt.observed \in Content /\ ckpt.serving \in Content /\ Covers(ckpt.observed, ckpt.serving)
      /\ Covers(ckpt.serving, acked.serving) /\ Covers(ckpt.observed, acked.observed)
      /\ \A s \in Sources : ckpt.observed[s] <= edits
  BY DiskFacts DEF Kept
<1>2. UNCHANGED <<log, synced, flushed, tail, ckpt, durable, edits, boots, acked, settled>>
  BY <1>0 DEF rest, disk
<1>3. Reflects(ckpt.observed["admin"], log, Len(log))
  BY <1>0 DEF Remembers
<1>4. CASE proc' = [proc EXCEPT !.observed = ckpt.observed, !.serving = ckpt.serving, !.pc = "recovered"]
  <2>1. /\ proc' \in Process /\ proc'.pc = "recovered" /\ proc'.role = "session"
        /\ proc'.serving = ckpt.serving /\ proc'.observed = ckpt.observed
        /\ proc'.poisoned = proc.poisoned /\ proc'.pending = TRUE
    BY <1>0, <1>1, <1>4 DEF Process
  <2> QED
    BY <1>0, <1>1, <1>2, <1>3, <2>1, DiskUnchanged
       DEF DInv, ProcSound, Shape, Bound, Informed, Clean, Saving, Remembers, Writes
<1>5. CASE proc' = [proc EXCEPT !.observed = ckpt.observed, !.serving = proc.serving, !.pc = "idle"]
  <2>1. /\ proc' \in Process /\ proc'.pc = "idle" /\ proc'.role = "session"
        /\ proc'.serving = Nothing /\ proc'.observed = ckpt.observed
        /\ proc'.poisoned = proc.poisoned /\ proc'.pending = TRUE
    BY <1>0, <1>1, <1>5 DEF Process
  <2>2. Covers(ckpt.observed, Nothing)
    BY <1>1, ContentFacts
  <2> QED
    BY <1>0, <1>1, <1>2, <1>3, <2>1, <2>2, DiskUnchanged
       DEF DInv, ProcSound, Shape, Bound, Informed, Trusted, Clean, Saving, Remembers, Writes
<1> QED
  BY <1>0, <1>4, <1>5 DEF Recover, Process

LEMMA AttemptStep ==
  ASSUME DInv, NEW source \in Sources, Attempt(source)
  PROVE  DInv'
<1> DEFINE seen == [proc.observed EXCEPT ![source] = edits + 1]
           saw == [proc EXCEPT !.observed = seen, !.moved = TRUE, !.pc = "attempted"]
<1>0. /\ proc \in Process /\ Shape /\ Bound /\ Informed /\ Clean /\ Remembers
      /\ proc.role = "session" /\ proc.pc = "idle" /\ proc.pending = FALSE /\ edits < MaxEdits
      /\ UNCHANGED <<disk, ckpt, durable, boots, acked, settled>>
  BY DEF DInv, ProcSound, Attempt, InSession, Ready, Process
<1>1. CASE /\ edits' = edits
           /\ \E outcome \in {"stale", "rejected"} :
                proc' = [proc EXCEPT !.outcome = outcome, !.moved = FALSE, !.pc = "attempted"]
  <2>1. UNCHANGED rest
    BY <1>0, <1>1 DEF rest
  <2> QED
    BY <1>0, <1>1, <2>1, QuietStep DEF Process
<1>2. CASE /\ edits' = edits + 1
           /\ \/ \E outcome \in {"stale", "rejected", "done"} : proc' = [saw EXCEPT !.outcome = outcome]
              \/ proc' = [saw EXCEPT !.outcome = "done", !.serving = seen, !.activated = FALSE]
  <2>1. edits + 1 \in 0..MaxEdits /\ edits + 1 \in Nat /\ edits <= edits + 1
    BY <1>0, DiskFacts, DurabilityBounds
  <2>2. /\ seen \in Content
        /\ Covers(seen, proc.observed) /\ Covers(seen, proc.serving) /\ Covers(seen, seen)
        /\ \A t \in Sources : seen[t] <= edits + 1
        /\ \A x \in Content : Covers(proc.observed, x) => Covers(seen, x)
        /\ \A x \in Content : Covers(proc.serving, x) => Covers(seen, x)
        /\ seen["admin"] >= proc.observed["admin"] /\ seen["admin"] \in Int
    <3>1. proc.observed[source] <= edits + 1
      <4>1. proc.observed[source] \in Int /\ proc.observed[source] <= edits /\ edits \in Int
        BY <1>0, DiskFacts, ContentInt DEF Bound
      <4> QED
        BY <4>1
    <3>2. edits + 1 <= edits + 1
      BY <2>1
    <3>3. Supersedes(seen, edits + 1)
      BY <2>1, <3>1, <3>2, SeenFacts
    <3> QED
      BY <3>3 DEF Supersedes
  <2> HIDE DEF seen
  <2>3. /\ proc' \in Process /\ proc'.pc = "attempted" /\ proc'.role = "session"
        /\ proc'.serving \in {seen, proc.serving} /\ proc'.observed = seen
        /\ proc'.poisoned = proc.poisoned /\ proc'.pending = FALSE
    <3>1. /\ saw \in Process /\ saw.pc = "attempted" /\ saw.role = "session"
          /\ saw.serving = proc.serving /\ saw.observed = seen
          /\ saw.poisoned = proc.poisoned /\ saw.pending = FALSE
      BY <1>0, <2>2 DEF Process
    <3> HIDE DEF saw
    <3>2. ASSUME NEW outcome \in {"stale", "rejected", "done"}, proc' = [saw EXCEPT !.outcome = outcome]
          PROVE  <2>3
      BY <3>1, <3>2 DEF Process
    <3>3. CASE proc' = [saw EXCEPT !.outcome = "done", !.serving = seen, !.activated = FALSE]
      BY <2>2, <3>1, <3>3 DEF Process
    <3> QED
      BY <1>2, <3>2, <3>3
  <2>4. UNCHANGED <<log, synced, flushed, tail, ckpt, durable, boots, acked, settled>>
    BY <1>0 DEF disk
  <2>5. DiskSound'
    <3>1. LogSound(log, edits + 1)
      BY <2>1, DiskFacts, LogLater
    <3>2. /\ Kept(ckpt, log, synced, edits + 1, acked) /\ Kept(durable, log, synced, edits + 1, acked)
      <4>1. synced <= synced
        BY DiskFacts
      <4> QED
        BY <2>1, <4>1, DiskFacts, KeptLater
    <3> QED
      BY <1>2, <2>1, <2>4, <3>1, <3>2 DEF DInv, DiskSound, DiskTypes
  <2>6. Shape' /\ Bound'
    BY <1>0, <1>2, <2>2, <2>3, <2>4 DEF Shape, Bound
  <2>7. Informed'
    <3>1. /\ Covers(proc.serving, acked.serving) /\ Covers(proc.observed, acked.observed)
          /\ Reflects(proc.observed["admin"], log, Len(log))
      BY <1>0 DEF Informed, Trusted, Writes
    <3>2. Covers(seen, acked.serving) /\ Covers(seen, acked.observed)
      BY <2>2, <3>1, DiskFacts
    <3>3. Reflects(seen["admin"], log, Len(log))
      BY <2>2, <3>1, HoldsLater, DiskFacts, ContentInt
    <3> QED
      BY <2>3, <2>4, <3>1, <3>2, <3>3 DEF Informed
  <2>8. Clean' /\ Saving' /\ Remembers'
    BY <1>0, <2>3, <2>4 DEF Clean, Saving, Remembers, Writes
  <2> QED
    BY <2>3, <2>5, <2>6, <2>7, <2>8 DEF DInv, ProcSound
<1> QED
  BY <1>0, <1>1, <1>2 DEF Attempt

\* A save may confirm what the checkpoint holds.
LEMMA ConfirmedFacts ==
  ASSUME DInv, Trusted, Confirmed
  PROVE  /\ acked' \in Confirmations
         /\ Covers(proc.serving, acked'.serving) /\ Covers(proc.observed, acked'.observed)
<1>1. /\ Covers(proc.serving, acked.serving) /\ Covers(proc.observed, acked.observed)
  BY DEF DInv, ProcSound, Informed
<1>2. /\ acked'.serving = Newer(acked.serving, proc.serving)
      /\ acked'.observed = Newer(acked.observed, proc.observed)
      /\ acked' = [serving |-> Newer(acked.serving, proc.serving),
                   observed |-> Newer(acked.observed, proc.observed)]
  BY DEF Confirmed
<1>3. /\ Newer(acked.serving, proc.serving) \in Content
      /\ Newer(acked.observed, proc.observed) \in Content
  BY DiskFacts, ContentFacts
<1>4. \A x, y \in Content : Covers(x, y) => Covers(x, Newer(y, x))
  BY ContentFacts
<1> QED
  BY <1>1, <1>2, <1>3, <1>4, DiskFacts DEF Confirmations

LEMMA KeptConfirmed ==
  ASSUME NEW c, NEW l, NEW n, NEW e, NEW a, NEW b, Kept(c, l, n, e, a),
         Covers(c.serving, b.serving), Covers(c.observed, b.observed)
  PROVE  Kept(c, l, n, e, b)
BY DEF Kept

LEMMA BeginSaveStep ==
  ASSUME DInv, BeginSave
  PROVE  DInv'
<1>0. /\ proc \in Process /\ Shape /\ Bound /\ Informed /\ Clean /\ Remembers
      /\ UNCHANGED <<disk, ckpt, durable, edits, boots, settled>>
  BY DEF DInv, ProcSound, BeginSave
<1>1. /\ proc.role \in {"session", "journal"} /\ proc.pc \in {"idle", "attempted"}
      /\ proc.pending = FALSE /\ Trusted
  BY <1>0 DEF BeginSave, SavesAttempt, SavesJournal, Completed, Ready, Journaling, Shape, Process,
              Trusted, Writes
<1>2. UNCHANGED <<log, synced, flushed, tail, ckpt, durable, edits, boots, settled>>
  BY <1>0 DEF disk
<1>3. CASE /\ acked' = acked
           /\ proc' = [proc EXCEPT !.pc = "idle", !.failed = proc.role = "session"]
  <2>1. UNCHANGED rest
    BY <1>0, <1>3 DEF rest
  <2>2. (proc.role = "session") \in BOOLEAN
    BY Zenon
  <2> QED
    BY <1>0, <1>1, <1>3, <2>1, <2>2, QuietStep DEF Process
<1>4. CASE Savable /\ ckpt = Encoded /\ proc' = [proc EXCEPT !.pc = "idle"] /\ Confirmed
  <2>1. /\ proc' \in Process /\ proc'.pc = "idle" /\ proc'.role = proc.role
        /\ proc'.serving = proc.serving /\ proc'.observed = proc.observed
        /\ proc'.poisoned = proc.poisoned /\ proc'.pending = FALSE
    BY <1>0, <1>1, <1>4 DEF Process
  <2>2. /\ acked' \in Confirmations
        /\ Covers(proc.serving, acked'.serving) /\ Covers(proc.observed, acked'.observed)
    BY <1>1, <1>4, ConfirmedFacts
  <2>3. ckpt.serving = proc.serving /\ ckpt.observed = proc.observed
    BY <1>4 DEF Encoded
  <2>4. durable = ckpt
    BY <1>0, <1>1, <1>4 DEF Savable, Clean, Writes, Process
  <2>5. Kept(ckpt, log, synced, edits, acked')
    BY <2>2, <2>3, DiskFacts, KeptConfirmed
  <2>6. DiskSound'
    BY <1>2, <2>2, <2>4, <2>5 DEF DInv, DiskSound, DiskTypes
  <2>7. Informed'
    BY <1>0, <1>1, <1>2, <2>1, <2>2 DEF Informed
  <2> QED
    BY <1>0, <1>1, <1>2, <2>1, <2>6, <2>7
       DEF DInv, ProcSound, Shape, Bound, Clean, Saving, Remembers, Writes
<1>5. CASE /\ Savable /\ acked' = acked
           /\ proc' = [proc EXCEPT !.pc = "staged", !.poisoned = TRUE, !.failed = proc.role = "session"]
  <2>0. (proc.role = "session") \in BOOLEAN
    BY Zenon
  <2>1. /\ proc' \in Process /\ proc'.pc = "staged" /\ proc'.role = proc.role
        /\ proc'.serving = proc.serving /\ proc'.observed = proc.observed
        /\ proc'.poisoned = TRUE /\ proc'.pending = FALSE
    BY <1>0, <1>1, <1>5, <2>0 DEF Process
  <2>2. flushed = TRUE /\ ~ Pending(log)
    BY <1>0, <1>1, <1>5 DEF Savable, Clean, Writes, Process
  <2>3. DiskSound'
    BY <1>0, <1>5, DiskUnchanged DEF rest
  <2>4. Informed'
    BY <1>0, <1>1, <1>2, <1>5, <2>1 DEF Informed
  <2> QED
    BY <1>0, <1>1, <1>2, <2>1, <2>2, <2>3, <2>4
       DEF DInv, ProcSound, Shape, Bound, Clean, Saving, Remembers, Writes, Pending
<1> QED
  BY <1>3, <1>4, <1>5 DEF BeginSave

\* The staged checkpoint takes the place of the old one.
LEMMA RenameStep ==
  ASSUME DInv, Rename
  PROVE  DInv'
<1>0. /\ proc \in Process /\ Shape /\ Bound /\ Informed /\ Clean /\ Saving /\ Remembers
      /\ proc.pc = "staged" /\ UNCHANGED <<disk, durable, edits, boots, acked, settled>>
      /\ ckpt' = Encoded /\ proc' = [proc EXCEPT !.pc = "renamed"]
  BY DEF DInv, ProcSound, Rename
<1>1. /\ proc' \in Process /\ proc'.pc = "renamed" /\ proc'.role = proc.role
      /\ proc'.serving = proc.serving /\ proc'.observed = proc.observed
      /\ proc'.poisoned = proc.poisoned /\ proc'.pending = proc.pending
  BY <1>0 DEF Process
<1>2. UNCHANGED <<log, synced, flushed, tail, durable, edits, boots, acked, settled>>
  BY <1>0 DEF disk
<1>3. /\ proc.poisoned = TRUE /\ proc.pending = FALSE /\ flushed = TRUE /\ ~ Pending(log)
      /\ proc.role \in {"session", "journal"} /\ Trusted
  BY <1>0 DEF Saving, Shape, Process, Trusted, Writes
<1>4. /\ Encoded.serving = proc.serving /\ Encoded.observed = proc.observed /\ Encoded.prefix = log
      /\ Encoded \in Checkpoint
  BY DiskFacts DEF Encoded, Checkpoint
<1>5. /\ Covers(proc.serving, acked.serving) /\ Covers(proc.observed, acked.observed)
      /\ Reflects(proc.observed["admin"], log, Len(log))
  BY <1>0, <1>3 DEF Informed
<1>6. Kept(Encoded, log, synced, edits, acked)
  <2>1. Len(log) = synced /\ Len(log) > 0 /\ Len(log) \in Nat
    BY <1>0, <1>3, DiskFacts DEF DInv, DiskSound, Shape
  <2>2. Len(log) > 1 => log[Len(log)].kind # "intent"
    BY <1>3 DEF Pending, Last
  <2> HIDE DEF Encoded
  <2> QED
    BY <1>0, <1>4, <1>5, <2>1, <2>2 DEF Kept, Bound
<1>7. DiskSound'
  BY <1>0, <1>2, <1>4, <1>6 DEF DInv, DiskSound, DiskTypes
<1>8. Encoded' = ckpt'
  BY <1>0, <1>1, <1>2 DEF Encoded
<1>9. Saving'
  BY <1>1, <1>2, <1>3, <1>8 DEF Saving, Pending
<1>10. Informed'
  BY <1>1, <1>2, <1>5 DEF Informed
<1>11. Remembers'
  BY <1>0, <1>2, <1>4, <1>5 DEF Remembers
<1>12. Shape' /\ Bound' /\ Clean'
  BY <1>0, <1>1, <1>2, <1>3 DEF Shape, Bound, Clean, Writes
<1> QED
  BY <1>1, <1>7, <1>9, <1>10, <1>11, <1>12 DEF DInv, ProcSound

LEMMA SyncDirectoryStep ==
  ASSUME DInv, SyncDirectory
  PROVE  DInv'
<1>0. /\ proc \in Process /\ Shape /\ Bound /\ Informed /\ Clean /\ Saving /\ Remembers
      /\ proc.pc = "renamed" /\ UNCHANGED <<disk, ckpt, edits, boots, settled>>
      /\ durable' = ckpt /\ Confirmed
      /\ proc' = [proc EXCEPT !.pc = "idle", !.failed = FALSE, !.poisoned = FALSE]
  BY DEF DInv, ProcSound, SyncDirectory
<1>1. /\ proc' \in Process /\ proc'.pc = "idle" /\ proc'.role = proc.role
      /\ proc'.serving = proc.serving /\ proc'.observed = proc.observed
      /\ proc'.poisoned = FALSE /\ proc'.pending = proc.pending
  BY <1>0 DEF Process
<1>2. UNCHANGED <<log, synced, flushed, tail, ckpt, edits, boots, settled>>
  BY <1>0 DEF disk
<1>3. /\ proc.pending = FALSE /\ flushed = TRUE /\ ckpt = Encoded
      /\ proc.role \in {"session", "journal"} /\ Trusted
  BY <1>0 DEF Saving, Shape, Process, Trusted, Writes
<1>4. ckpt.serving = proc.serving /\ ckpt.observed = proc.observed
  BY <1>3 DEF Encoded
<1>5. /\ acked' \in Confirmations
      /\ Covers(proc.serving, acked'.serving) /\ Covers(proc.observed, acked'.observed)
  BY <1>0, <1>3, ConfirmedFacts
<1>6. Kept(ckpt, log, synced, edits, acked')
  BY <1>4, <1>5, DiskFacts, KeptConfirmed
<1>7. DiskSound'
  BY <1>0, <1>2, <1>5, <1>6 DEF DInv, DiskSound, DiskTypes
<1>8. Informed'
  BY <1>0, <1>1, <1>2, <1>3, <1>5 DEF Informed
<1>9. Shape' /\ Bound' /\ Clean' /\ Saving' /\ Remembers'
  BY <1>0, <1>1, <1>2, <1>3 DEF Shape, Bound, Clean, Saving, Remembers, Writes
<1> QED
  BY <1>1, <1>7, <1>8, <1>9 DEF DInv, ProcSound

LEMMA CompactStep ==
  ASSUME DInv, Compact
  PROVE  DInv'
<1> DEFINE new == [ckpt EXCEPT !.prefix = <<Binding>>]
<1>0. /\ log' = <<Binding>> /\ synced' = 1 /\ flushed' = TRUE /\ ckpt' = new /\ durable' = new
      /\ settled' = <<Binding>> /\ proc' = Closed /\ UNCHANGED <<tail, edits, boots, acked>>
  BY DEF Compact
<1>1. /\ <<Binding>> \in Logs /\ Len(<<Binding>>) = 1 /\ <<Binding>>[1] = Binding
  BY BindingFacts DEF Logs
<1>2. /\ new \in Checkpoint /\ new.prefix = <<Binding>>
      /\ new.serving = ckpt.serving /\ new.observed = ckpt.observed
  BY <1>1, DiskFacts DEF Checkpoint
<1>3. Kept(new, <<Binding>>, 1, edits, acked)
  <2>1. Len(new.prefix) = 1 /\ \A i \in 1..1 : i = 1
    BY <1>1, <1>2
  <2>2. Reflects(new.observed["admin"], <<Binding>>, 1)
    BY DEF Reflects
  <2>3. /\ Covers(ckpt.observed, ckpt.serving) /\ (\A s \in Sources : ckpt.observed[s] <= edits)
        /\ Covers(ckpt.serving, acked.serving) /\ Covers(ckpt.observed, acked.observed)
    BY DiskFacts DEF Kept
  <2> HIDE DEF new
  <2> QED
    BY <1>1, <1>2, <2>1, <2>2, <2>3 DEF Kept
<1>4. LogSound(<<Binding>>, edits)
  <2>1. \A i \in 1..Len(<<Binding>>) : i = 1
    BY <1>1
  <2>2. Legal(<<Binding>>)
    BY <1>1, <2>1 DEF Legal
  <2>3. ~ Pending(<<Binding>>)
    BY <1>1 DEF Pending
  <2>4. \A i \in 1..Len(<<Binding>>) : <<Binding>>[i].edit <= edits
    BY <1>1, <2>1, BindingFacts, DiskFacts
  <2> QED
    BY <2>1, <2>2, <2>3, <2>4 DEF LogSound
<1>5. DiskTypes'
  <2>1. 1 <= MaxLog /\ synced' \in 0..1
    BY <1>0, DurabilityBounds
  <2> HIDE DEF new
  <2> QED
    BY <1>0, <1>1, <1>2, <2>1 DEF DInv, DiskSound, DiskTypes
<1>6. DiskSound'
  <2> HIDE DEF new
  <2> QED
    BY <1>0, <1>1, <1>3, <1>4, <1>5 DEF DiskSound
<1>7. edits' \in Nat
  BY <1>0, DiskFacts
<1> QED
  BY <1>0, <1>6, <1>7, ClosedSound DEF DInv

\* A power loss keeps the synced records and either version of the checkpoint.
LEMMA PowerLossStep ==
  ASSUME DInv, PowerLoss
  PROVE  DInv'
<1>0. /\ synced' = Len(log') /\ flushed' = TRUE /\ ckpt' \in {ckpt, durable} /\ durable' = ckpt'
      /\ proc' = Closed /\ UNCHANGED <<edits, boots, acked, settled>>
      /\ tail' \in {"none", "short", "damaged"}
  BY DEF PowerLoss, DInv, DiskSound, DiskTypes
<1>1. PICK k \in synced..Len(log) : log' = SubSeq(log, 1, k)
  <2>1. CASE flushed /\ log' = log
    <3>1. SubSeq(log, 1, Len(log)) = log /\ Len(log) \in synced..Len(log)
      BY DiskFacts DEF Logs
    <3> QED
      BY <2>1, <3>1
  <2> QED
    BY <2>1 DEF PowerLoss
<1>2. k \in 0..Len(log) /\ k \in Nat /\ k <= Len(log)
  BY DiskFacts
<1>3. log' \in Logs /\ Len(log') = k /\ \A i \in 1..k : log'[i] = log[i]
  BY <1>1, <1>2, DiskFacts, PrefixFacts
<1>4. LogSound(log', edits)
  BY <1>1, <1>2, DiskFacts, LogPrefix
<1>5. Kept(ckpt, log', k, edits, acked) /\ Kept(durable, log', k, edits, acked)
  BY <1>1, DiskFacts, KeptPrefix
<1>6. DiskTypes'
  <2>1. synced' \in 0..Len(log') /\ Len(log') <= MaxLog
    BY <1>0, <1>2, <1>3, DiskFacts, DurabilityBounds
  <2> QED
    BY <1>0, <1>3, <2>1 DEF DInv, DiskSound, DiskTypes
<1>7. Len(settled) <= k /\ \A i \in 1..Len(settled) : settled[i] = log'[i]
  <2>1. Len(settled) <= k
    BY <1>2, DiskFacts DEF DInv, DiskSound
  <2> QED
    BY <1>2, <1>3, <2>1, DiskFacts DEF DInv, DiskSound
<1>8. DiskSound'
  BY <1>0, <1>3, <1>4, <1>5, <1>6, <1>7 DEF DiskSound
<1>9. edits' \in Nat
  BY <1>0, DiskFacts
<1> QED
  BY <1>0, <1>8, <1>9, ClosedSound DEF DInv

-----------------------------------------------------------------------------
LEMMA DurableStep == DInv /\ [DurableNext]_durableVars => DInv'
<1> SUFFICES ASSUME DInv, [DurableNext]_durableVars PROVE DInv'
  OBVIOUS
<1>1. CASE UNCHANGED durableVars
  <2>1. UNCHANGED rest /\ UNCHANGED proc
    BY <1>1 DEF durableVars, rest, disk
  <2>2. proc \in Process
    BY DEF DInv, ProcSound
  <2> QED
    BY <2>1, <2>2, QuietStep
<1> QED
  BY <1>1, QuietProcess, ConfirmStep, ExitStep, OpenStep, OpenExistingStep, OpenSessionStep,
     OpenJournalStep, BindStep, BeginStep, FinishStep, SyncLogStep, SyncLogFailsStep, DiscardStep,
     ApplyStep, RecoverStep, AttemptStep, BeginSaveStep, RenameStep, SyncDirectoryStep,
     CompactStep, PowerLossStep
     DEF DurableNext

LEMMA DurableStart == DurableInit => DInv
<1> SUFFICES ASSUME DurableInit PROVE DInv
  OBVIOUS
<1>1. /\ log = <<>> /\ synced = 0 /\ flushed = TRUE /\ tail = "none" /\ ckpt = NoCkpt
      /\ durable = NoCkpt /\ proc = Closed /\ edits = 0 /\ boots = 0
      /\ acked = [serving |-> Nothing, observed |-> Nothing] /\ settled = <<>>
  BY DEF DurableInit
<1>2. <<>> \in Logs /\ Len(<<>>) = 0
  BY DEF Logs
<1>3. /\ NoCkpt \in Checkpoint /\ NoCkpt.prefix = <<>>
      /\ NoCkpt.serving = Nothing /\ NoCkpt.observed = Nothing
  BY <1>2, ContentFacts, DurabilityBounds DEF NoCkpt, Checkpoint
<1>4. acked \in Confirmations /\ acked.serving = Nothing /\ acked.observed = Nothing
  BY <1>1, ContentFacts DEF Confirmations
<1>5. DiskTypes
  BY <1>1, <1>2, <1>3, <1>4, DurabilityBounds DEF DiskTypes
<1>6. LogSound(log, edits)
  BY <1>1, <1>2 DEF LogSound, Legal, Pending
<1>7. Kept(NoCkpt, log, synced, edits, acked)
  <2>1. Covers(Nothing, Nothing) /\ \A s \in Sources : Nothing[s] <= 0
    BY ContentFacts DEF Nothing
  <2> QED
    BY <1>1, <1>2, <1>3, <1>4, <2>1 DEF Kept, Reflects
<1>8. DiskSound
  BY <1>1, <1>2, <1>5, <1>6, <1>7 DEF DiskSound
<1>9. ProcSound
  <2>1. Closed \in Process
    BY ContentFacts DEF Closed, Process
  <2>2. /\ proc.role = "closed" /\ proc.pc = "idle" /\ proc.serving = Nothing /\ proc.observed = Nothing
    BY <1>1 DEF Closed
  <2>3. Bound
    BY <1>1, <2>2, ContentFacts DEF Bound, Nothing
  <2> QED
    BY <1>1, <2>1, <2>2, <2>3 DEF ProcSound, Shape, Informed, Trusted, Writes, Clean, Saving, Remembers
<1> QED
  BY <1>8, <1>9 DEF DInv

\* A checkpoint taken over records that are there decodes.
LEMMA KeptLoads ==
  ASSUME NEW c \in Checkpoint, NEW l \in Logs, NEW n \in 0..Len(l), NEW e \in Nat, NEW a,
         Kept(c, l, n, e, a), LogSound(l, e), NEW k \in n..Len(l), LogSound(SubSeq(l, 1, k), e),
         c # NoCkpt
  PROVE  Decodes(c, SubSeq(l, 1, k))
<1> DEFINE m == SubSeq(l, 1, k)
<1>0. /\ Len(l) \in Nat /\ n \in Nat /\ k \in Nat /\ n <= k /\ k \in 0..Len(l)
      /\ c.prefix \in Logs /\ Len(c.prefix) \in Nat
  BY LogFacts DEF Checkpoint
<1>1. m \in Logs /\ Len(m) = k /\ \A i \in 1..k : m[i] = l[i]
  BY <1>0, PrefixFacts
<1>2. Len(c.prefix) > 0 /\ Len(c.prefix) <= n
  BY DEF Kept
<1> HIDE DEF m
<1>3. IsPrefix(c.prefix, m)
  <2>1. Len(c.prefix) <= Len(m) /\ \A i \in 1..Len(c.prefix) : c.prefix[i] = m[i]
    BY <1>0, <1>1, <1>2 DEF Kept
  <2> QED
    BY <1>0, <1>1, <2>1, PrefixBy
<1>4. m # <<>> /\ c.prefix # <<>>
  BY <1>0, <1>1, <1>2
<1>5. ~ Pending(c.prefix)
  <2>1. Len(c.prefix) \in 1..Len(c.prefix)
    BY <1>0, <1>2
  <2> QED
    BY <2>1 DEF Pending, Last, Kept
<1> QED
  BY <1>3, <1>4, <1>5 DEF Decodes, LogSound, Kept, m

\* Whatever crash comes between any two steps, the log is a sequence of transactions with room
\* for the decision of the last one, and both versions of the checkpoint decode against it.
THEOREM PairAlwaysOpens == DurableSpec => []PairOpens
<1>1. DInv => PairOpens
  <2> SUFFICES ASSUME DInv PROVE PairOpens
    OBVIOUS
  <2>1. SubSeq(log, 1, Len(log)) = log /\ Len(log) \in synced..Len(log) /\ synced \in synced..Len(log)
    BY DiskFacts DEF Logs
  <2>2. LogSound(SubSeq(log, 1, synced), edits)
    BY DiskFacts, LogPrefix
  <2>3. Legal(log) /\ (Pending(log) => Len(log) < MaxLog)
    BY DiskFacts DEF LogSound
  <2>4. ckpt # NoCkpt => Decodes(ckpt, log)
    <3>1. ASSUME ckpt # NoCkpt PROVE Decodes(ckpt, SubSeq(log, 1, Len(log)))
      BY <2>1, <3>1, DiskFacts, KeptLoads
    <3> QED
      BY <2>1, <3>1
  <2>5. durable # NoCkpt => Decodes(durable, SubSeq(log, 1, synced))
    BY <2>1, <2>2, DiskFacts, KeptLoads
  <2> QED
    BY <2>3, <2>4, <2>5 DEF PairOpens, Loads
<1> QED
  BY <1>1, DurableStart, DurableStep, PTL DEF DurableSpec

\* What a save or an append confirmed is on the disk after any crashes, and a session that starts
\* finds in its checkpoint every intent the log says was applied.
THEOREM RestartsFromConfirmed == DurableSpec => []RestartSound
<1>1. DInv => RestartSound
  <2> SUFFICES ASSUME DInv PROVE RestartSound
    OBVIOUS
  <2>1. Covers(ckpt.serving, acked.serving) /\ Covers(ckpt.observed, acked.observed)
    BY DiskFacts DEF Kept
  <2>2. IsPrefix(settled, log)
    <3>1. Len(settled) <= Len(log) /\ \A i \in 1..Len(settled) : settled[i] = log[i]
      BY DiskFacts DEF DInv, DiskSound
    <3> QED
      BY <3>1, DiskFacts, PrefixBy
  <2>3. NothingAppliedForgotten
    <3> SUFFICES ASSUME proc.role = "session", proc.pc # "opened",
                        NEW i \in 2..Len(log), log[i].kind = "applied"
                 PROVE  ckpt.observed["admin"] >= log[i - 1].edit
      BY DEF NothingAppliedForgotten
    <3>1. log[i - 1].edit <= ckpt.observed["admin"]
      BY DEF DInv, ProcSound, Remembers, Reflects
    <3>2. i - 1 \in 1..Len(log)
      BY DiskFacts
    <3>3. log[i - 1].edit \in Int /\ ckpt.observed["admin"] \in Int
      BY <3>2, DiskFacts, RecordFacts, ContentInt
    <3> QED
      BY <3>1, <3>3
  <2> QED
    BY <2>1, <2>2, <2>3 DEF RestartSound, AcknowledgedSurvives
<1> QED
  BY <1>1, DurableStart, DurableStep, PTL DEF DurableSpec

=============================================================================
