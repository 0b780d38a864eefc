-------------------------- MODULE GenerationStore --------------------------
(***************************************************************************)
(* gatel-plan's configuration transaction: GenerationStore and its         *)
(* frontends' entry points (generation.rs and the generation_*.rs files).  *)
(*                                                                         *)
(* Every critical section of the store's RwLock is one action; everything  *)
(* the code does between two critical sections (cloning trees, compiling,  *)
(* preparing resources) is a place where other callers run.  A caller is a *)
(* thread inside one call of the store:                                    *)
(*   idle -> versioned -> compose -> admit -> build -> ready -> idle       *)
(* with "restore" in place of compose/admit for checkpoint recovery.       *)
(* What becomes of the prepared runtime after Commit is the subject of     *)
(* AppHost, Server and Certificates.                                       *)
(***************************************************************************)
EXTENDS Snapshots

CONSTANTS Callers,      \* threads calling the store
          Allowed,      \* allowed_sources
          SourceLimit,  \* source_limit
          MaxGen,       \* the largest generation number (u64::MAX)
          MaxAttempts,  \* where Failure.attempts saturates (u32::MAX)
          Entries,      \* the entry points this host's frontends use
          Inputable,    \* the inputs frontends read, a subset of Inputs
          Plans,        \* compiled plans, up to their plan hash
          NoPlan,       \* no generation was published
          Invalid,      \* normalize found errors
          Compile(_)    \* normalize followed by compile, of a snapshot

ASSUME StoreAssumption ==
  /\ Allowed \subseteq Sources /\ IsFiniteSet(Allowed)
  /\ SourceLimit \in Nat \ {0}
  /\ MaxGen \in Nat \ {0}
  /\ MaxAttempts \in Nat \ {0}
  /\ Inputable \subseteq Inputs
  /\ NoPlan \notin Plans
  /\ Invalid \notin Plans
  /\ NoPlan # Invalid

\* What Compile returns is an assumption of the actions that call it, so that
\* the theorems need nothing else about it.
ASSUME CompileAssumption ==
  \A snap \in Snapshot : Compile(snap) \in Plans \cup {Invalid}

VARIABLES sealed,       \* State.sealed
          generation,   \* State.generation
          current,      \* State.current: plan and sources of the published build
          head,         \* State.head
          intent,       \* State.intent
          failures,     \* State.last_failure: its attempts, 0 when None
          pc,           \* where each caller is
          cand          \* the locals of each caller's call

store == <<sealed, generation, current, head, intent, failures>>
vars == <<store, pc, cand>>

NotPublished == [plan |-> NoPlan, sources |-> EmptySnapshot]

\* The write precondition a client presents (the boot id never changes within
\* a store's lifetime).
Version == [generation |-> generation, revs |-> head]
NoVersion == [generation |-> -1, revs |-> [s \in Sources |-> 0]]

\* snap     the candidate: the complete union of sources
\* fence    the Version the caller presents, NoVersion when unconditional
\* fresh    the sources new_intent copied before the write lock
\* serving  the snapshot a recovery compiles once its intent is committed
\* head     expected_head;  base  base_generation;  previous  its plan
\* refresh  rebuild even if the plan is the same
NoCand == [snap |-> EmptySnapshot, fence |-> NoVersion, fresh |-> {},
           serving |-> EmptySnapshot, head |-> [s \in Sources |-> 0],
           base |-> 0, previous |-> NoPlan, refresh |-> FALSE]

\* Snapshots a frontend can present: revisions it numbered, inputs it read.
Readable ==
  [Sources -> {Absent} \cup {[rev |-> r, content |-> i.content, nodes |-> i.nodes] :
                               r \in 1..MaxRev, i \in Inputable}]

Init ==
  /\ sealed = FALSE
  /\ generation = 0
  /\ current = NotPublished
  /\ head = [s \in Sources |-> 0]
  /\ intent = EmptySnapshot
  /\ failures = 0
  /\ pc = [c \in Callers |-> "idle"]
  /\ cand = [c \in Callers |-> NoCand]

Goto(c, label, local) ==
  /\ pc' = [pc EXCEPT ![c] = label]
  /\ cand' = [cand EXCEPT ![c] = local]

Return(c) == Goto(c, "idle", NoCand)

-----------------------------------------------------------------------------
(* Entry points.  Each ends where the call next needs the store's lock.    *)

\* new_intent, under a read lock of its own: the sources worth copying.
FreshKnown(snap) ==  \* mutant: an unseen source is not copied
  {s \in Present(snap) : head[s] > 0 /\ snap[s].rev > head[s]}

Fresh(snap) == {s \in Present(snap) : snap[s].rev > head[s]}

\* A client reads the Version it will write against (status, ETag, capture).
ReadVersion(c) ==
  /\ pc[c] = "idle"
  /\ Goto(c, "versioned", [NoCand EXCEPT !.fence = Version])
  /\ UNCHANGED store

\* attempt and refresh.
Attempt(c, snap, refresh) ==
  /\ pc[c] = "idle"
  /\ Goto(c, "admit", [NoCand EXCEPT !.snap = snap, !.fresh = Fresh(snap),
                                     !.refresh = refresh])
  /\ UNCHANGED store

\* attempt_if, refresh_if and attempt_if_etag.
AttemptIf(c, snap, refresh) ==
  /\ pc[c] = "versioned"
  /\ Goto(c, "admit", [cand[c] EXCEPT !.snap = snap, !.fresh = Fresh(snap),
                                      !.refresh = refresh])
  /\ UNCHANGED store

\* A call whose checks before the write lock fail (Conflict, Sealed,
\* Unavailable, InvalidSources, AlreadyPublished, an observation error) returns
\* and has changed nothing.
CallRefused(c) ==
  /\ pc[c] = "versioned"
  /\ Return(c)
  /\ UNCHANGED store

\* attempt_source_if: compose the caller's own source with the latest intent.
AttemptSource(c, s, source) ==
  /\ pc[c] = "versioned"
  /\ cand[c].fence = Version
  /\ Goto(c, "compose", [cand[c] EXCEPT !.snap = [intent EXCEPT ![s] = source]])
  /\ UNCHANGED store

\* SourceWriter::attempt_if.  Its is_sealed check and its capture are two read
\* locks; the capture does not read sealed, so a seal between them is a seal
\* after both.
WriteSource(c, s, input) ==
  /\ s \in Allowed
  /\ pc[c] = "versioned"
  /\ ~ sealed
  /\ cand[c].fence = Version
  /\ CanObserve(intent[s], input)
  /\ Goto(c, "compose", [cand[c] EXCEPT
              !.snap = [intent EXCEPT ![s] = Observe(intent[s], input)]])
  /\ UNCHANGED store

NewIntent(c) ==
  /\ pc[c] = "compose"
  /\ Goto(c, "admit", [cand[c] EXCEPT !.fresh = Fresh(cand[c].snap)])
  /\ UNCHANGED store

\* reject_observation_if: the frontend could not read its input.
RejectObservation(c) ==
  /\ pc[c] = "versioned"
  /\ failures' = IF ~sealed /\ cand[c].fence = Version /\ failures < MaxAttempts
                   THEN failures + 1 ELSE failures
  /\ Return(c)
  /\ UNCHANGED <<sealed, generation, current, head, intent>>

-----------------------------------------------------------------------------
(* attempt_conditionally, under the write lock.                            *)

NewSources(snap) == {s \in Present(snap) : head[s] = 0}

RefusedUnfenced(snap, fence) ==  \* mutant: the precondition is not rechecked
  \/ sealed
  \/ ~ (Present(snap) \subseteq Allowed)
  \/ Cardinality(Present(intent)) + Cardinality(NewSources(snap)) > SourceLimit
  \/ \E s \in Present(snap) :
       snap[s].rev = head[s] /\ snap[s].content # intent[s].content

RefusedFull(snap, fence) ==  \* mutant: the candidate's own sources not counted
  \/ sealed
  \/ fence # NoVersion /\ fence # Version
  \/ ~ (Present(snap) \subseteq Allowed)
  \/ Cardinality(Present(intent)) > SourceLimit
  \/ \E s \in Present(snap) :
       snap[s].rev = head[s] /\ snap[s].content # intent[s].content

\* The early returns, none of which changes the store.
Refused(snap, fence) ==
  \/ sealed
  \/ fence # NoVersion /\ fence # Version
  \/ ~ (Present(snap) \subseteq Allowed)
  \/ Cardinality(Present(intent)) + Cardinality(NewSources(snap)) > SourceLimit
  \/ \E s \in Present(snap) :
       snap[s].rev = head[s] /\ snap[s].content # intent[s].content

AdmitRefused(c) ==
  /\ pc[c] = "admit"
  /\ Refused(cand[c].snap, cand[c].fence)
  /\ Return(c)
  /\ UNCHANGED store

\* Only what new_intent copied before the lock is retained; every revision the
\* candidate names advances the head, also when the candidate is overtaken.
MergedIntent(snap, fresh) ==
  [s \in Sources |-> IF s \in fresh /\ snap[s].rev > head[s]
                       THEN snap[s] ELSE intent[s]]

Admit(c) ==
  /\ pc[c] = "admit"
  /\ ~ Refused(cand[c].snap, cand[c].fence)
  /\ intent' = MergedIntent(cand[c].snap, cand[c].fresh)
  /\ head' = MergeMax(head, Revs(cand[c].snap))
  /\ IF head' = Revs(cand[c].snap)
       THEN Goto(c, "build", [NoCand EXCEPT !.snap = cand[c].snap,
                                !.refresh = cand[c].refresh,
                                !.head = head', !.base = generation,
                                !.previous = current.plan])
       ELSE Return(c)
  /\ UNCHANGED <<sealed, generation, current, failures>>

-----------------------------------------------------------------------------
(* Trusted recovery: restore_intent_if and recover_if.                     *)

RestorableAny(previous, snap) ==  \* mutant: history is not validated
  /\ Cardinality(Present(snap)) <= SourceLimit
  /\ Present(snap) \subseteq Allowed

Restorable(previous, snap) ==
  /\ Cardinality(Present(snap)) <= SourceLimit
  /\ Present(snap) \subseteq Allowed
  /\ ValidSuccessor(previous, snap)

\* Validation outside the lock, against the intent just captured.
RestoreIntent(c, observed) ==
  /\ pc[c] = "versioned"
  /\ cand[c].fence = Version
  /\ Restorable(intent, observed)
  /\ Goto(c, "restore", [cand[c] EXCEPT !.snap = observed])
  /\ UNCHANGED store

Recover(c, serving, observed) ==
  /\ pc[c] = "versioned"
  /\ cand[c].fence.generation = 0
  /\ Restorable(EmptySnapshot, serving)
  /\ Restorable(serving, observed)
  /\ cand[c].fence = Version
  /\ Restorable(intent, observed)
  /\ Goto(c, "recover", [cand[c] EXCEPT !.snap = observed, !.serving = serving])
  /\ UNCHANGED store

\* commit_restored_intent, under the write lock: the whole union is replaced.
\* A recovery goes on to compile the serving snapshot under the observed head.
CommitRestore(c) ==
  /\ pc[c] \in {"restore", "recover"}
  /\ IF sealed \/ cand[c].fence # Version
       THEN Return(c) /\ UNCHANGED <<head, intent>>
       ELSE /\ intent' = cand[c].snap
            /\ head' = Revs(cand[c].snap)
            /\ IF pc[c] = "restore"
                 THEN Return(c)
                 ELSE Goto(c, "build", [NoCand EXCEPT !.snap = cand[c].serving,
                                          !.head = head', !.base = generation])
  /\ UNCHANGED <<sealed, generation, current, failures>>

-----------------------------------------------------------------------------
(* finish_attempt.  Normalizing, compiling and preparing touch no shared   *)
(* state of the store, so each outcome is the write lock that ends it.     *)

ValidUnsealed(c) ==  \* mutant: sealed is not rechecked
  head = cand[c].head /\ generation = cand[c].base

ValidBase(c) ==  \* mutant: only the generation is compared
  ~ sealed /\ generation = cand[c].base

\* validate_candidate.
Valid(c) ==
  /\ ~ sealed
  /\ head = cand[c].head
  /\ generation = cand[c].base

RecordFailure(c) ==
  /\ failures' = IF Valid(c) /\ failures < MaxAttempts THEN failures + 1 ELSE failures
  /\ Return(c)
  /\ UNCHANGED <<sealed, generation, current, head, intent>>

Unchanged(c) == Compile(cand[c].snap) = cand[c].previous /\ ~ cand[c].refresh

Reject(c) ==
  /\ pc[c] = "build"
  /\ Compile(cand[c].snap) = Invalid
  /\ RecordFailure(c)

NoOp(c) ==
  /\ pc[c] = "build"
  /\ Compile(cand[c].snap) # Invalid
  /\ Unchanged(c)
  /\ failures' = IF Valid(c) THEN 0 ELSE failures
  /\ Return(c)
  /\ UNCHANGED <<sealed, generation, current, head, intent>>

\* base_generation.next() is None, or prepare failed.
PrepareFailed(c) ==
  /\ pc[c] = "build"
  /\ Compile(cand[c].snap) # Invalid
  /\ ~ Unchanged(c)
  /\ RecordFailure(c)

Commit(c) ==
  /\ pc[c] = "build"
  /\ Compile(cand[c].snap) # Invalid
  /\ ~ Unchanged(c)
  /\ cand[c].base < MaxGen
  /\ IF Valid(c)
       THEN /\ generation' = cand[c].base + 1
            /\ current' = [plan |-> Compile(cand[c].snap), sources |-> cand[c].snap]
            /\ failures' = 0
       ELSE UNCHANGED <<generation, current, failures>>
  /\ Return(c)
  /\ UNCHANGED <<sealed, head, intent>>

Seal ==
  /\ sealed' = TRUE
  /\ UNCHANGED <<generation, current, head, intent, failures, pc, cand>>

-----------------------------------------------------------------------------
\* Entries says which entry points the host's frontends use.
Refreshes == IF "refresh" \in Entries THEN BOOLEAN ELSE {FALSE}

Unconditional(c) ==
  /\ "attempt" \in Entries /\ pc[c] = "idle"
  /\ \E snap \in Readable, refresh \in Refreshes : Attempt(c, snap, refresh)

Conditional(c) ==
  /\ "attempt_if" \in Entries /\ pc[c] = "versioned"
  /\ \E snap \in Readable, refresh \in Refreshes : AttemptIf(c, snap, refresh)

Scoped(c) ==
  \E s \in Sources, i \in Inputable :
    \/ "writer" \in Entries /\ WriteSource(c, s, i)
    \/ /\ "source" \in Entries
       /\ \E r \in 1..MaxRev :
            AttemptSource(c, s, [rev |-> r, content |-> i.content, nodes |-> i.nodes])

Recovery(c) ==
  /\ "recover" \in Entries /\ pc[c] = "versioned"
  /\ \E observed \in Readable :
       \/ RestoreIntent(c, observed)
       \/ \E serving \in Readable : Recover(c, serving, observed)

Enter(c) ==
  \/ Entries # {"attempt"} /\ (ReadVersion(c) \/ CallRefused(c))
  \/ "reject" \in Entries /\ RejectObservation(c)
  \/ Unconditional(c)
  \/ Conditional(c)
  \/ Scoped(c)
  \/ Recovery(c)

Continue(c) ==
  \/ NewIntent(c)
  \/ AdmitRefused(c)
  \/ Admit(c)
  \/ CommitRestore(c)
  \/ Reject(c)
  \/ NoOp(c)
  \/ PrepareFailed(c)
  \/ Commit(c)

Next ==
  \/ \E c \in Callers : Enter(c) \/ Continue(c)
  \/ Seal

Spec == Init /\ [][Next]_vars

-----------------------------------------------------------------------------
(* Properties.                                                             *)

Fences == [generation : -1..MaxGen, revs : RevVector]

Locals ==
  [snap : Snapshot, fence : Fences, fresh : SUBSET Sources, serving : Snapshot,
   head : RevVector, base : 0..MaxGen, previous : Plans \cup {NoPlan, Invalid},
   refresh : BOOLEAN]

\* Every variable of the store and every caller's locals stay in the domains
\* their Rust types give them: in particular a generation and a revision never
\* pass the counter's last value, and attempts saturates.
TypeOK ==
  /\ sealed \in BOOLEAN
  /\ generation \in 0..MaxGen
  /\ current \in [plan : Plans \cup {NoPlan, Invalid}, sources : Snapshot]
  /\ head \in RevVector
  /\ intent \in Snapshot
  /\ failures \in 0..MaxAttempts
  /\ pc \in [Callers -> {"idle", "versioned", "compose", "admit", "restore",
                         "recover", "build"}]
  /\ cand \in [Callers -> Locals]

\* The head names exactly the revisions of the retained intent, although the
\* intent is copied outside the lock (new_intent) and the head is merged inside
\* it: the version a client reads always identifies the trees it gets.
IntentMatchesHead == head = Revs(intent)

\* What is being served is an earlier (or the same) observation of what was last
\* observed, for ordinary publications and for recoveries that publish one
\* snapshot under the head of another.
ServedWithinIntent ==
  generation > 0 => ContentSuccessor(current.sources, intent)

\* No sequence of admissions and restorations makes the store remember more
\* source identities than its limit, or one the host never registered.
SourceCapacity ==
  /\ Cardinality(Present(intent)) <= SourceLimit
  /\ Present(intent) \subseteq Allowed

\* When nobody is between admission and commit, a store with no recorded failure
\* serves the plan of its newest intent: no admitted write is silently lost to
\* a stale candidate.  This is for hosts whose frontends write through
\* SourceWriter, so that every candidate is the complete union.
ServesNewestIntent ==
  (/\ ~ sealed
   /\ generation > 0
   /\ failures = 0
   /\ \A c \in Callers : pc[c] # "build")
  => current.plan = Compile(intent)

\* A publication is the successor of the one it replaced, was compiled from
\* exactly what is recorded as its sources, and no observation has overtaken
\* them, unless it is a recovery into an unpublished store.
PublishesInOrder ==
  [][current' # current \/ generation' # generation =>
       /\ generation' = generation + 1
       /\ current'.plan = Compile(current'.sources)
       /\ IF generation > 0
            THEN Revs(current'.sources) = head
            ELSE AtMost(Revs(current'.sources), head)]_vars

\* After seal nothing about the store changes, whatever candidates were already
\* admitted, preparing or about to commit.
SealedFrozen == [][sealed => UNCHANGED store]_vars

\* The store keeps the promises of ServingHistory.
History == INSTANCE ServingHistory WITH served <- current.sources, observed <- intent

KeepsHistory == History!Spec

\* Whatever entries are mixed, what is served is an intent that was admitted and
\* what is remembered stays within the host's limits.
EntriesSound == ServedWithinIntent /\ SourceCapacity
=============================================================================
