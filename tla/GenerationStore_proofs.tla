----------------------- MODULE GenerationStore_proofs -----------------------
(***************************************************************************)
(* What GenerationStore guarantees for every set of sources, callers and   *)
(* inputs, every limit, every compiler and every choice of entry points.   *)
(***************************************************************************)
EXTENDS GenerationStore, FiniteSetTheorems, TLAPS

-----------------------------------------------------------------------------
(* Snapshots.                                                              *)

\* A source of a snapshot has a revision, and no revision means Absent.
LEMMA SnapshotFacts ==
  ASSUME NEW snap \in Snapshot, NEW s \in Sources
  PROVE  /\ snap[s].rev \in 0..MaxRev
         /\ snap[s].rev = 0 <=> snap[s] = Absent
         /\ snap[s].rev = 0 => snap[s].content = None
         /\ snap[s] \in SourceSnapshot \cup {Absent}
<1>1. snap[s] \in SourceSnapshot \cup {Absent}
  BY DEF Snapshot
<1> QED
  BY <1>1, SnapshotsAssumption DEF SourceSnapshot, Absent

LEMMA EmptyFacts ==
  /\ EmptySnapshot \in Snapshot
  /\ \A snap \in Snapshot : ContentSuccessor(EmptySnapshot, snap)
  /\ Revs(EmptySnapshot) = [s \in Sources |-> 0]
<1>1. EmptySnapshot \in Snapshot
  BY DEF EmptySnapshot, Snapshot
<1>2. ASSUME NEW snap \in Snapshot
      PROVE  ContentSuccessor(EmptySnapshot, snap)
  BY SnapshotFacts, SnapshotsAssumption DEF ContentSuccessor, EmptySnapshot, Absent
<1>3. Revs(EmptySnapshot) = [s \in Sources |-> 0]
  BY DEF Revs, EmptySnapshot, Absent
<1> QED
  BY <1>1, <1>2, <1>3

LEMMA RevsType ==
  ASSUME NEW snap \in Snapshot
  PROVE  Revs(snap) \in RevVector
BY SnapshotFacts DEF Revs, RevVector

LEMMA ReadableType == Readable \subseteq Snapshot
BY StoreAssumption DEF Readable, Snapshot, Inputs, SourceSnapshot

\* Equal heads leave no room between two successive intents.
LEMMA SuccessorTransitive ==
  ASSUME NEW x \in Snapshot, NEW y \in Snapshot, NEW z \in Snapshot,
         ContentSuccessor(x, y), ContentSuccessor(y, z)
  PROVE  ContentSuccessor(x, z)
BY SnapshotFacts, SnapshotsAssumption DEF ContentSuccessor

\* SourceSnapshot::observe stays within the revision counter.
LEMMA ObserveType ==
  ASSUME NEW snap \in Snapshot, NEW s \in Sources, NEW input \in Inputs,
         CanObserve(snap[s], input)
  PROVE  Observe(snap[s], input) \in SourceSnapshot
<1>1. /\ snap[s] \in SourceSnapshot \cup {Absent}
      /\ input.content \in Contents /\ input.nodes \in Trees
  BY SnapshotFacts DEF Inputs
<1> QED
  BY <1>1, SnapshotsAssumption DEF Observe, CanObserve, SourceSnapshot, Absent

-----------------------------------------------------------------------------
(* Type correctness.                                                       *)

LEMMA NoCandType == NoCand \in Locals /\ NoVersion \in Fences
<1>1. NoVersion \in Fences
  BY StoreAssumption, SnapshotsAssumption DEF NoVersion, Fences, RevVector
<1>2. [s \in Sources |-> 0] \in RevVector
  BY SnapshotsAssumption DEF RevVector
<1> QED
  BY <1>1, <1>2, EmptyFacts, StoreAssumption DEF NoCand, Locals

LEMMA GotoType ==
  ASSUME TypeOK, NEW c \in Callers, NEW label, NEW local \in Locals,
         label \in {"idle", "versioned", "compose", "admit", "restore",
                    "recover", "build"},
         Goto(c, label, local)
  PROVE  /\ pc' \in [Callers -> {"idle", "versioned", "compose", "admit", "restore",
                                 "recover", "build"}]
         /\ cand' \in [Callers -> Locals]
BY DEF TypeOK, Goto

LEMMA ReturnType ==
  ASSUME TypeOK, NEW c \in Callers, Return(c)
  PROVE  /\ pc' \in [Callers -> {"idle", "versioned", "compose", "admit", "restore",
                                 "recover", "build"}]
         /\ cand' \in [Callers -> Locals]
BY GotoType, NoCandType DEF Return

\* Every operation of the store keeps every variable in its domain.
LEMMA TypeStep == TypeOK /\ [Next]_vars => TypeOK'
<1> SUFFICES ASSUME TypeOK, [Next]_vars PROVE TypeOK'
  OBVIOUS
<1> DEFINE Labels == {"idle", "versioned", "compose", "admit", "restore",
                      "recover", "build"}
           Typed == pc' \in [Callers -> Labels] /\ cand' \in [Callers -> Locals]
<1>0. /\ Version \in Fences
      /\ NoCand \in Locals
      /\ \A c \in Callers : cand[c] \in Locals
      /\ \A snap : Fresh(snap) \in SUBSET Sources
  BY NoCandType, StoreAssumption
     DEF TypeOK, Version, Fences, Fresh, Present
<1>1. ASSUME UNCHANGED store, Typed PROVE TypeOK'
  BY <1>1 DEF TypeOK, store
<1>2. ASSUME NEW c \in Callers, ReadVersion(c) PROVE TypeOK'
  <2>1. [NoCand EXCEPT !.fence = Version] \in Locals
    BY <1>0 DEF Locals
  <2> QED
    BY <1>1, <1>2, <2>1, GotoType DEF ReadVersion
<1>3. ASSUME NEW c \in Callers, CallRefused(c) \/ AdmitRefused(c) PROVE TypeOK'
  BY <1>1, <1>3, ReturnType DEF CallRefused, AdmitRefused
<1>4. ASSUME NEW c \in Callers, NEW snap \in Readable, NEW refresh \in BOOLEAN,
             Attempt(c, snap, refresh) \/ AttemptIf(c, snap, refresh)
      PROVE  TypeOK'
  <2>1. ASSUME NEW local \in Locals
        PROVE  [local EXCEPT !.snap = snap, !.fresh = Fresh(snap),
                             !.refresh = refresh] \in Locals
    BY <1>0, ReadableType DEF Locals
  <2> QED
    BY <1>0, <1>1, <1>4, <2>1, GotoType DEF Attempt, AttemptIf
<1>5. ASSUME NEW c \in Callers, NEW s \in Sources, NEW i \in Inputable, NEW r \in 1..MaxRev,
             \/ WriteSource(c, s, i)
             \/ AttemptSource(c, s, [rev |-> r, content |-> i.content, nodes |-> i.nodes])
      PROVE  TypeOK'
  <2>1. ASSUME NEW source \in SourceSnapshot
        PROVE  [cand[c] EXCEPT !.snap = [intent EXCEPT ![s] = source]] \in Locals
    <3>1. [intent EXCEPT ![s] = source] \in Snapshot
      BY DEF TypeOK, Snapshot
    <3> QED
      BY <1>0, <3>1 DEF Locals
  <2>2. i \in Inputs
    BY StoreAssumption
  <2>3. CASE WriteSource(c, s, i)
    <3>1. Observe(intent[s], i) \in SourceSnapshot
      BY <2>2, <2>3, ObserveType DEF WriteSource, TypeOK
    <3> QED
      BY <1>1, <2>1, <2>3, <3>1, GotoType DEF WriteSource
  <2>4. CASE AttemptSource(c, s, [rev |-> r, content |-> i.content, nodes |-> i.nodes])
    <3>1. [rev |-> r, content |-> i.content, nodes |-> i.nodes] \in SourceSnapshot
      BY <2>2 DEF SourceSnapshot, Inputs
    <3> QED
      BY <1>1, <2>1, <2>4, <3>1, GotoType DEF AttemptSource
  <2> QED
    BY <1>5, <2>3, <2>4
<1>6. ASSUME NEW c \in Callers, NewIntent(c) PROVE TypeOK'
  <2>1. [cand[c] EXCEPT !.fresh = Fresh(cand[c].snap)] \in Locals
    BY <1>0 DEF Locals
  <2> QED
    BY <1>1, <1>6, <2>1, GotoType DEF NewIntent
<1>7. ASSUME NEW c \in Callers,
             RejectObservation(c) \/ Reject(c) \/ PrepareFailed(c) \/ NoOp(c)
      PROVE  TypeOK'
  <2>1. failures' \in 0..MaxAttempts /\ Return(c)
        /\ UNCHANGED <<sealed, generation, current, head, intent>>
    BY <1>7, StoreAssumption
       DEF TypeOK, RejectObservation, Reject, PrepareFailed, NoOp, RecordFailure
  <2> QED
    BY <2>1, ReturnType DEF TypeOK
<1>8. ASSUME NEW c \in Callers, Admit(c) PROVE TypeOK'
  <2>1. cand[c].snap \in Snapshot /\ cand[c].refresh \in BOOLEAN
    BY <1>0 DEF Locals
  <2>2. head' \in RevVector
    BY <1>8, <2>1, RevsType DEF TypeOK, Admit, MergeMax, RevVector
  <2>3. intent' \in Snapshot
    BY <1>8, <2>1 DEF TypeOK, Admit, MergedIntent, Snapshot
  <2>4. [NoCand EXCEPT !.snap = cand[c].snap, !.refresh = cand[c].refresh,
                       !.head = head', !.base = generation,
                       !.previous = current.plan] \in Locals
    BY <1>0, <2>1, <2>2 DEF Locals, TypeOK
  <2>5. Typed
    BY <1>8, <2>4, GotoType, ReturnType DEF Admit
  <2> QED
    BY <1>8, <2>2, <2>3, <2>5 DEF TypeOK, Admit
<1>9. ASSUME NEW c \in Callers, NEW serving \in Readable, NEW observed \in Readable,
             RestoreIntent(c, observed) \/ Recover(c, serving, observed)
      PROVE  TypeOK'
  <2>1. /\ [cand[c] EXCEPT !.snap = observed] \in Locals
        /\ [cand[c] EXCEPT !.snap = observed, !.serving = serving] \in Locals
    BY <1>0, ReadableType DEF Locals
  <2> QED
    BY <1>1, <1>9, <2>1, GotoType DEF RestoreIntent, Recover
<1>10. ASSUME NEW c \in Callers, CommitRestore(c) PROVE TypeOK'
  <2>1. cand[c].snap \in Snapshot /\ cand[c].serving \in Snapshot
    BY <1>0 DEF Locals
  <2>2. head' \in RevVector /\ intent' \in Snapshot
    BY <1>10, <2>1, RevsType DEF TypeOK, CommitRestore
  <2>3. [NoCand EXCEPT !.snap = cand[c].serving, !.head = head',
                       !.base = generation] \in Locals
    BY <1>0, <2>1, <2>2 DEF Locals, TypeOK
  <2>4. Typed
    BY <1>10, <2>3, GotoType, ReturnType DEF CommitRestore
  <2> QED
    BY <1>10, <2>2, <2>4 DEF TypeOK, CommitRestore
<1>11. ASSUME NEW c \in Callers, Commit(c) PROVE TypeOK'
  <2>1. cand[c].snap \in Snapshot /\ cand[c].base \in 0..MaxGen
    BY <1>0 DEF Locals
  <2>2. generation' \in 0..MaxGen /\ failures' \in 0..MaxAttempts
    BY <1>11, <2>1, StoreAssumption DEF TypeOK, Commit
  <2>3. current' \in [plan : Plans \cup {NoPlan, Invalid}, sources : Snapshot]
    BY <1>11, <2>1, CompileAssumption DEF TypeOK, Commit
  <2>4. Typed
    BY <1>11, ReturnType DEF Commit
  <2> QED
    BY <1>11, <2>2, <2>3, <2>4 DEF TypeOK, Commit
<1>12. CASE Seal
  BY <1>12 DEF Seal, TypeOK
<1>13. CASE UNCHANGED vars
  BY <1>13 DEF vars, store, TypeOK
<1>14. ASSUME NEW c \in Callers, Enter(c) PROVE TypeOK'
  <2>1. 1 \in 1..MaxRev
    BY SnapshotsAssumption
  <2>2. Refreshes \subseteq BOOLEAN
    BY Zenon DEF Refreshes
  <2> QED
    BY <1>2, <1>3, <1>4, <1>5, <1>7, <1>9, <1>14, <2>1, <2>2
       DEF Enter, Unconditional, Conditional, Scoped, Recovery
<1>15. ASSUME NEW c \in Callers, Continue(c) PROVE TypeOK'
  BY <1>3, <1>6, <1>7, <1>8, <1>10, <1>11, <1>15 DEF Continue
<1> QED
  BY <1>12, <1>13, <1>14, <1>15 DEF Next

LEMMA InitType == Init => TypeOK
<1>1. [s \in Sources |-> 0] \in RevVector
  BY SnapshotsAssumption DEF RevVector
<1>2. Init => /\ generation \in 0..MaxGen /\ failures \in 0..MaxAttempts
              /\ head \in RevVector /\ intent \in Snapshot
              /\ current \in [plan : Plans \cup {NoPlan, Invalid}, sources : Snapshot]
  BY <1>1, EmptyFacts, StoreAssumption DEF Init, NotPublished
<1>3. Init => /\ sealed \in BOOLEAN
              /\ pc \in [Callers -> {"idle", "versioned", "compose", "admit",
                                     "restore", "recover", "build"}]
              /\ cand \in [Callers -> Locals]
  BY NoCandType, Zenon DEF Init
<1> QED
  BY <1>2, <1>3 DEF TypeOK

\* The store's variables and every caller's locals keep their types.
THEOREM TypeCorrect == Spec => []TypeOK
BY InitType, TypeStep, PTL DEF Spec

-----------------------------------------------------------------------------
(***************************************************************************)
(* The inductive invariant.  What a caller holds between two critical      *)
(* sections is only related to the store by revisions that never go back:  *)
(* if the head a caller remembers is still the head, then nothing it       *)
(* remembers about the intent has changed either.                          *)
(***************************************************************************)
\* new_intent copied every source the candidate would advance.
Copied(c) ==
  pc[c] = "admit" =>
    \A s \in Sources : cand[c].snap[s].rev > head[s] => s \in cand[c].fresh

\* A restoration validated its union against the intent of its version.
Validated(c) ==
  pc[c] \in {"restore", "recover"} =>
    /\ AtMost(cand[c].fence.revs, head)
    /\ cand[c].fence.revs = head => ContentSuccessor(intent, cand[c].snap)
    /\ pc[c] = "recover" => /\ cand[c].fence.generation = 0
                            /\ ContentSuccessor(cand[c].serving, cand[c].snap)

\* A candidate was admitted under its head, and is the observation of that
\* head unless it recovers an unpublished store.
Admitted(c) ==
  pc[c] = "build" =>
    /\ AtMost(cand[c].head, head)
    /\ cand[c].head = head => ContentSuccessor(cand[c].snap, intent)
    /\ cand[c].base > 0 => Revs(cand[c].snap) = cand[c].head

Unpublished == generation = 0 => current = NotPublished

IInv ==
  /\ TypeOK
  /\ IntentMatchesHead
  /\ Unpublished
  /\ ServedWithinIntent
  /\ \A c \in Callers : Copied(c) /\ Validated(c) /\ Admitted(c)

\* Two successive intents with the same revisions have the same contents.
LEMMA SameHead ==
  ASSUME NEW x \in Snapshot, NEW y \in Snapshot, NEW v \in RevVector,
         AtMost(v, Revs(x)), ContentSuccessor(x, y), v = Revs(y)
  PROVE  v = Revs(x) /\ ContentSuccessor(y, x)
<1>1. \A s \in Sources : v[s] = x[s].rev /\ y[s].rev = x[s].rev
  BY SnapshotFacts, SnapshotsAssumption DEF AtMost, ContentSuccessor, Revs
<1>2. v = Revs(x)
  BY <1>1 DEF Revs, RevVector
<1>3. ContentSuccessor(y, x)
  BY <1>1, SnapshotFacts, SnapshotsAssumption DEF ContentSuccessor
<1> QED
  BY <1>2, <1>3

\* A step that only extends the intent leaves what the other callers rely on.
LEMMA OthersKept ==
  ASSUME IInv, TypeOK', IntentMatchesHead', ContentSuccessor(intent, intent'),
         NEW c \in Callers, pc'[c] = pc[c], cand'[c] = cand[c]
  PROVE  (Copied(c) /\ Validated(c) /\ Admitted(c))'
<1>1. /\ intent \in Snapshot /\ intent' \in Snapshot /\ cand[c] \in Locals
      /\ head = Revs(intent) /\ head' = Revs(intent')
      /\ head \in RevVector /\ head' \in RevVector
  BY DEF IInv, TypeOK, IntentMatchesHead
<1>2. AtMost(head, head')
  BY <1>1, SnapshotFacts DEF AtMost, ContentSuccessor, Revs
<1>3. ASSUME NEW v \in RevVector, AtMost(v, head)
      PROVE  AtMost(v, head')
  BY <1>1, <1>2, <1>3, SnapshotsAssumption DEF AtMost, RevVector
<1>4. ASSUME NEW v \in RevVector, AtMost(v, head), v = head'
      PROVE  v = head /\ ContentSuccessor(intent', intent)
  BY <1>1, <1>4, SameHead
<1>5. Copied(c)'
  <2>1. SUFFICES ASSUME pc[c] = "admit", NEW s \in Sources, cand[c].snap[s].rev > head'[s]
                 PROVE  s \in cand[c].fresh
    BY DEF Copied
  <2>2. /\ cand[c].snap[s].rev \in 0..MaxRev /\ head[s] \in 0..MaxRev
        /\ head'[s] \in 0..MaxRev /\ head[s] <= head'[s]
    BY <1>1, <1>2, SnapshotFacts DEF Locals, RevVector, AtMost
  <2>3. cand[c].snap[s].rev > head[s]
    BY <2>1, <2>2, SnapshotsAssumption
  <2> QED
    BY <2>1, <2>3 DEF IInv, Copied
<1>6. Validated(c)'
  <2>1. cand[c].fence.revs \in RevVector /\ cand[c].snap \in Snapshot
    BY <1>1 DEF Locals, Fences
  <2>2. SUFFICES ASSUME pc[c] \in {"restore", "recover"}
                 PROVE  /\ AtMost(cand[c].fence.revs, head')
                        /\ cand[c].fence.revs = head' => ContentSuccessor(intent', cand[c].snap)
    BY DEF IInv, Validated
  <2>3. /\ AtMost(cand[c].fence.revs, head)
        /\ cand[c].fence.revs = head => ContentSuccessor(intent, cand[c].snap)
    BY <2>2 DEF IInv, Validated
  <2>4. ASSUME cand[c].fence.revs = head'
        PROVE  ContentSuccessor(intent', cand[c].snap)
    BY <1>1, <1>4, <2>1, <2>3, <2>4, SuccessorTransitive
  <2> QED
    BY <1>3, <2>1, <2>3, <2>4
<1>7. Admitted(c)'
  <2>1. cand[c].head \in RevVector /\ cand[c].snap \in Snapshot
    BY <1>1 DEF Locals
  <2>2. SUFFICES ASSUME pc[c] = "build"
                 PROVE  /\ AtMost(cand[c].head, head')
                        /\ cand[c].head = head' => ContentSuccessor(cand[c].snap, intent')
    BY DEF IInv, Admitted, Revs
  <2>3. /\ AtMost(cand[c].head, head)
        /\ cand[c].head = head => ContentSuccessor(cand[c].snap, intent)
    BY <2>2 DEF IInv, Admitted
  <2>4. ASSUME cand[c].head = head'
        PROVE  ContentSuccessor(cand[c].snap, intent')
    BY <1>1, <1>4, <2>1, <2>3, <2>4, SuccessorTransitive
  <2> QED
    BY <1>3, <2>1, <2>3, <2>4
<1> QED
  BY <1>5, <1>6, <1>7

LEMMA SuccessorReflexive ==
  ASSUME NEW x \in Snapshot PROVE ContentSuccessor(x, x)
BY SnapshotFacts, SnapshotsAssumption DEF ContentSuccessor

LEMMA ValidIsContentSuccessor ==
  ASSUME NEW x \in Snapshot, NEW y \in Snapshot, ValidSuccessor(x, y)
  PROVE  ContentSuccessor(x, y)
<1>1. SUFFICES ASSUME NEW s \in Sources
               PROVE  /\ x[s].rev <= y[s].rev
                      /\ x[s].rev = y[s].rev => x[s].content = y[s].content
  BY DEF ContentSuccessor
<1>2. CASE x[s] = Absent
  BY <1>2, SnapshotFacts, SnapshotsAssumption DEF Absent
<1>3. CASE x[s] # Absent
  BY <1>3, SnapshotFacts, SnapshotsAssumption DEF ValidSuccessor, Present
<1> QED
  BY <1>2, <1>3

\* A step of c that only extends the intent, and leaves c in order, leaves
\* everybody in order.
LEMMA AllKept ==
  ASSUME IInv, TypeOK', IntentMatchesHead', ContentSuccessor(intent, intent'),
         NEW c \in Callers, NEW label, NEW local, Goto(c, label, local),
         (Copied(c) /\ Validated(c) /\ Admitted(c))'
  PROVE  \A d \in Callers : (Copied(d) /\ Validated(d) /\ Admitted(d))'
<1>1. ASSUME NEW d \in Callers, d # c
      PROVE  pc'[d] = pc[d] /\ cand'[d] = cand[d]
  BY <1>1 DEF Goto, IInv, TypeOK
<1>2. ASSUME NEW d \in Callers, d # c
      PROVE  (Copied(d) /\ Validated(d) /\ Admitted(d))'
  BY <1>1, <1>2, OthersKept
<1> QED
  BY <1>2

\* A call that returns holds nothing.
LEMMA ReturnKept ==
  ASSUME IInv, TypeOK', IntentMatchesHead', ContentSuccessor(intent, intent'),
         NEW c \in Callers, Return(c)
  PROVE  \A d \in Callers : (Copied(d) /\ Validated(d) /\ Admitted(d))'
<1>1. Goto(c, "idle", NoCand)
  BY DEF Return
<1>2. pc'[c] = "idle"
  BY <1>1 DEF Goto, IInv, TypeOK
<1>3. (Copied(c) /\ Validated(c) /\ Admitted(c))'
  BY <1>2 DEF Copied, Validated, Admitted
<1> QED
  BY <1>1, <1>3, AllKept

LEMMA InvariantInit == Init => IInv
<1> SUFFICES ASSUME Init PROVE IInv
  OBVIOUS
<1>1. TypeOK
  BY InitType
<1>2. IntentMatchesHead /\ Unpublished /\ ServedWithinIntent
  BY EmptyFacts DEF Init, IntentMatchesHead, Unpublished, ServedWithinIntent
<1>3. ASSUME NEW c \in Callers PROVE Copied(c) /\ Validated(c) /\ Admitted(c)
  BY DEF Init, Copied, Validated, Admitted
<1> QED
  BY <1>1, <1>2, <1>3 DEF IInv

\* The steps that touch neither the intent nor what is served, seen from the
\* caller that takes them.
LEMMA EnterStep ==
  ASSUME IInv, TypeOK', NEW c \in Callers, Enter(c)
  PROVE  IInv'
<1>1. /\ intent' = intent /\ head' = head /\ generation' = generation
      /\ current' = current
  BY DEF Enter, Unconditional, Conditional, Scoped, Recovery, ReadVersion, CallRefused,
         RejectObservation, Attempt, AttemptIf, WriteSource, AttemptSource,
         RestoreIntent, Recover, store
<1>2. /\ intent \in Snapshot /\ head = Revs(intent) /\ cand[c] \in Locals
      /\ ContentSuccessor(intent, intent')
      /\ ContentSuccessor(intent, intent)
  BY <1>1, SuccessorReflexive DEF IInv, TypeOK, IntentMatchesHead
<1>3. (IntentMatchesHead /\ Unpublished /\ ServedWithinIntent)'
  BY <1>1 DEF IInv, IntentMatchesHead, Unpublished, ServedWithinIntent, Revs
<1>4. ASSUME NEW d \in Callers, NEW label, NEW local, Goto(d, label, local)
      PROVE  pc'[d] = label /\ cand'[d] = local
  BY <1>4 DEF Goto, IInv, TypeOK
<1>5. SUFFICES \A d \in Callers : (Copied(d) /\ Validated(d) /\ Admitted(d))'
  BY <1>3 DEF IInv
<1> DEFINE InOrder == (Copied(c) /\ Validated(c) /\ Admitted(c))'
<1>6. ASSUME ReadVersion(c) PROVE InOrder
  BY <1>4, <1>6 DEF ReadVersion, Copied, Validated, Admitted
<1>7. ASSUME NEW snap \in Readable, NEW refresh \in BOOLEAN,
             Attempt(c, snap, refresh) \/ AttemptIf(c, snap, refresh)
      PROVE  InOrder
  <2>1. \A l \in Locals : /\ [l EXCEPT !.snap = snap, !.fresh = Fresh(snap),
                                       !.refresh = refresh].snap = snap
                          /\ [l EXCEPT !.snap = snap, !.fresh = Fresh(snap),
                                       !.refresh = refresh].fresh = Fresh(snap)
    BY DEF Locals
  <2>2. pc'[c] = "admit" /\ cand'[c].snap = snap /\ cand'[c].fresh = Fresh(snap)
    BY <1>2, <1>4, <1>7, <2>1, NoCandType DEF Attempt, AttemptIf
  <2>3. ASSUME NEW s \in Sources, snap[s].rev > head[s] PROVE s \in Fresh(snap)
    <3>1. snap[s].rev # 0
      BY <2>3, <1>2, SnapshotFacts, SnapshotsAssumption, ReadableType DEF Revs
    <3> QED
      BY <2>3, <3>1, SnapshotFacts, ReadableType DEF Fresh, Present, Absent
  <2> QED
    BY <1>1, <2>2, <2>3 DEF Copied, Validated, Admitted
<1>8. ASSUME NEW s \in Sources, NEW i, NEW source,
             WriteSource(c, s, i) \/ AttemptSource(c, s, source)
      PROVE  InOrder
  BY <1>4, <1>8 DEF WriteSource, AttemptSource, Copied, Validated, Admitted
<1>9. ASSUME NEW observed \in Readable, NEW serving \in Readable,
             RestoreIntent(c, observed) \/ Recover(c, serving, observed)
      PROVE  InOrder
  <2>1. observed \in Snapshot /\ serving \in Snapshot
    BY ReadableType
  <2>2. ContentSuccessor(intent, observed) /\ cand[c].fence.revs = head
    BY <1>2, <1>9, <2>1, ValidIsContentSuccessor
       DEF RestoreIntent, Recover, Restorable, Version
  <2>3. AtMost(head, head)
    BY <1>2, SnapshotFacts, SnapshotsAssumption DEF AtMost, Revs
  <2>4. CASE RestoreIntent(c, observed)
    <3>1. pc'[c] = "restore" /\ cand'[c].snap = observed /\ cand'[c].fence = cand[c].fence
      BY <1>2, <1>4, <2>4 DEF RestoreIntent, Locals
    <3> QED
      BY <1>1, <2>2, <2>3, <3>1 DEF Copied, Validated, Admitted
  <2>5. CASE Recover(c, serving, observed)
    <3>1. /\ pc'[c] = "recover" /\ cand'[c].snap = observed
          /\ cand'[c].serving = serving /\ cand'[c].fence = cand[c].fence
      <4>1. /\ pc'[c] = "recover"
            /\ cand'[c] = [cand[c] EXCEPT !.snap = observed, !.serving = serving]
        BY <1>4, <2>5 DEF Recover
      <4> QED
        BY <1>2, <4>1 DEF Locals
    <3>2. ContentSuccessor(serving, observed) /\ cand[c].fence.generation = 0
      BY <2>1, <2>5, ValidIsContentSuccessor DEF Recover, Restorable
    <3> QED
      BY <1>1, <2>2, <2>3, <3>1, <3>2 DEF Copied, Validated, Admitted
  <2> QED
    BY <1>9, <2>4, <2>5
<1>10. CASE CallRefused(c) \/ RejectObservation(c)
  BY <1>2, <1>3, <1>10, ReturnKept DEF CallRefused, RejectObservation
<1>11. CASE InOrder /\ \E label, local : Goto(c, label, local)
  BY <1>2, <1>3, <1>11, AllKept
<1>12. Refreshes \subseteq BOOLEAN
  BY Zenon DEF Refreshes
<1>13. ASSUME NEW snap, NEW refresh,
              Attempt(c, snap, refresh) \/ AttemptIf(c, snap, refresh)
       PROVE  \E label, local : Goto(c, label, local)
  BY <1>13 DEF Attempt, AttemptIf
<1>14. ASSUME NEW s, NEW i, NEW source,
              WriteSource(c, s, i) \/ AttemptSource(c, s, source)
       PROVE  \E label, local : Goto(c, label, local)
  BY <1>14 DEF WriteSource, AttemptSource
<1>15. ASSUME NEW observed, NEW serving,
              RestoreIntent(c, observed) \/ Recover(c, serving, observed)
       PROVE  \E label, local : Goto(c, label, local)
  BY <1>15 DEF RestoreIntent, Recover
<1>16. CASE ReadVersion(c)
  BY <1>6, <1>11, <1>16 DEF ReadVersion
<1>17. CASE Unconditional(c) \/ Conditional(c)
  <2>1. PICK snap \in Readable, refresh \in Refreshes :
          Attempt(c, snap, refresh) \/ AttemptIf(c, snap, refresh)
    BY <1>17 DEF Unconditional, Conditional
  <2> QED
    BY <1>7, <1>11, <1>12, <1>13, <2>1
<1>18. CASE Scoped(c)
  <2>1. PICK s \in Sources, i \in Inputable :
          WriteSource(c, s, i) \/ \E source : AttemptSource(c, s, source)
    BY <1>18 DEF Scoped
  <2>2. PICK source : WriteSource(c, s, i) \/ AttemptSource(c, s, source)
    BY <2>1
  <2> QED
    BY <1>8, <1>11, <1>14, <2>2
<1>19. CASE Recovery(c)
  <2>1. PICK observed \in Readable, serving \in Readable :
          RestoreIntent(c, observed) \/ Recover(c, serving, observed)
    BY <1>19 DEF Recovery
  <2> QED
    BY <1>9, <1>11, <1>15, <2>1
<1> QED
  BY <1>10, <1>16, <1>17, <1>18, <1>19 DEF Enter

\* Admission extends the intent and keeps it in step with the head, although
\* the copies were chosen before the lock was taken.
LEMMA AdmitStep ==
  ASSUME IInv, TypeOK', NEW c \in Callers, Admit(c)
  PROVE  IInv' /\ ContentSuccessor(intent, intent')
<1> DEFINE snap == cand[c].snap
           fresh == cand[c].fresh
<1>1. /\ snap \in Snapshot /\ intent \in Snapshot /\ intent' \in Snapshot
      /\ head = Revs(intent) /\ cand[c] \in Locals
      /\ pc[c] = "admit"
      /\ \A s \in Sources : snap[s].rev > head[s] => s \in fresh
  BY DEF IInv, TypeOK, Locals, IntentMatchesHead, Admit, Copied
<1>2. \A s \in Sources : /\ snap[s].rev \in Nat /\ intent[s].rev \in Nat
                         /\ head[s] = intent[s].rev
  BY <1>1, SnapshotFacts, SnapshotsAssumption DEF Revs
<1>3. ASSUME NEW s \in Sources
      PROVE  /\ head'[s] = IF snap[s].rev > head[s] THEN snap[s].rev ELSE head[s]
             /\ intent'[s] = IF snap[s].rev > head[s] THEN snap[s] ELSE intent[s]
  BY <1>1 DEF Admit, MergeMax, MergedIntent, Revs
<1>4. IntentMatchesHead'
  <2>1. \A s \in Sources : head'[s] = intent'[s].rev
    BY <1>2, <1>3
  <2> QED
    BY <2>1 DEF IntentMatchesHead, Revs, TypeOK, RevVector
<1>5. ContentSuccessor(intent, intent')
  BY <1>2, <1>3 DEF ContentSuccessor
<1>6. (Unpublished /\ ServedWithinIntent)'
  <2>1. generation' = generation /\ current' = current
    BY DEF Admit
  <2>2. current.sources \in Snapshot
    BY DEF IInv, TypeOK
  <2> QED
    BY <1>1, <1>5, <2>1, <2>2, SuccessorTransitive
       DEF IInv, Unpublished, ServedWithinIntent
<1>7. \A d \in Callers : (Copied(d) /\ Validated(d) /\ Admitted(d))'
  <2>1. CASE head' = Revs(snap)
    <3> DEFINE local == [NoCand EXCEPT !.snap = snap, !.refresh = cand[c].refresh,
                                       !.head = head', !.base = generation,
                                       !.previous = current.plan]
    <3>1. Goto(c, "build", local)
      BY <2>1 DEF Admit
    <3>2. pc'[c] = "build" /\ cand'[c] = local
      BY <3>1 DEF Goto, IInv, TypeOK
    <3>3. cand'[c].snap = snap /\ cand'[c].head = head'
      BY <3>2 DEF NoCand
    <3>4. ContentSuccessor(snap, intent')
      <4>1. SUFFICES ASSUME NEW s \in Sources
                     PROVE  /\ snap[s].rev <= intent'[s].rev
                            /\ snap[s].rev = intent'[s].rev => snap[s].content = intent'[s].content
        BY DEF ContentSuccessor
      <4>2. head'[s] = snap[s].rev
        BY <2>1 DEF Revs
      <4>3. CASE snap[s].rev > head[s]
        BY <1>2, <1>3, <4>3
      <4>4. CASE snap[s].rev = head[s] /\ s \in Present(snap)
        BY <1>2, <1>3, <4>4 DEF Admit, Refused
      <4>5. CASE snap[s].rev = head[s] /\ s \notin Present(snap)
        BY <1>1, <1>2, <1>3, <4>5, SnapshotFacts DEF Present
      <4> QED
        BY <1>2, <1>3, <4>2, <4>3, <4>4, <4>5
    <3>5. AtMost(head', head')
      BY <1>2, <1>3 DEF AtMost
    <3>6. (Copied(c) /\ Validated(c) /\ Admitted(c))'
      BY <2>1, <3>2, <3>3, <3>4, <3>5 DEF Copied, Validated, Admitted, Revs
    <3> QED
      BY <1>4, <1>5, <3>1, <3>6, AllKept
  <2>2. CASE head' # Revs(snap)
    BY <1>4, <1>5, <2>2, ReturnKept DEF Admit
  <2> QED
    BY <2>1, <2>2
<1> QED
  BY <1>4, <1>5, <1>6, <1>7 DEF IInv

\* A restoration replaces the whole intent by a successor of it, because the
\* version it was validated against is still the store's.
LEMMA RestoreStep ==
  ASSUME IInv, TypeOK', NEW c \in Callers, CommitRestore(c)
  PROVE  IInv' /\ ContentSuccessor(intent, intent')
<1>1. /\ cand[c] \in Locals /\ cand[c].snap \in Snapshot /\ cand[c].serving \in Snapshot
      /\ intent \in Snapshot /\ intent' \in Snapshot /\ current.sources \in Snapshot
      /\ pc[c] \in {"restore", "recover"} /\ Validated(c)
  BY DEF IInv, TypeOK, Locals, CommitRestore
<1>2. /\ IntentMatchesHead'
      /\ ContentSuccessor(intent, intent')
  <2>1. CASE sealed \/ cand[c].fence # Version
    BY <1>1, <2>1, SuccessorReflexive DEF CommitRestore, IInv, IntentMatchesHead, Revs
  <2>2. CASE ~ (sealed \/ cand[c].fence # Version)
    <3>1. cand[c].fence.revs = head
      BY <2>2 DEF Version
    <3>2. ContentSuccessor(intent, cand[c].snap)
      BY <1>1, <3>1 DEF Validated
    <3> QED
      BY <2>2, <3>2 DEF CommitRestore, IntentMatchesHead, Revs
  <2> QED
    BY <2>1, <2>2
<1>3. (Unpublished /\ ServedWithinIntent)'
  <2>1. generation' = generation /\ current' = current
    BY DEF CommitRestore
  <2> QED
    BY <1>1, <1>2, <2>1, SuccessorTransitive DEF IInv, Unpublished, ServedWithinIntent
<1>4. CASE Return(c)
  BY <1>2, <1>3, <1>4, ReturnKept DEF IInv
<1>5. CASE /\ pc[c] = "recover" /\ ~ sealed /\ cand[c].fence = Version
           /\ intent' = cand[c].snap /\ head' = Revs(cand[c].snap)
           /\ Goto(c, "build", [NoCand EXCEPT !.snap = cand[c].serving, !.head = head',
                                              !.base = generation])
  <2>1. /\ pc'[c] = "build"
        /\ cand'[c] = [NoCand EXCEPT !.snap = cand[c].serving, !.head = head',
                                     !.base = generation]
    BY <1>5 DEF Goto, IInv, TypeOK
  <2>2. cand'[c].snap = cand[c].serving /\ cand'[c].head = head' /\ cand'[c].base = generation
    BY <2>1 DEF NoCand
  <2>3. ContentSuccessor(cand[c].serving, cand[c].snap) /\ generation = 0
    BY <1>1, <1>5 DEF Validated, Version
  <2>4. AtMost(head', head')
    BY <1>1, <1>5, SnapshotFacts, SnapshotsAssumption DEF AtMost, Revs
  <2>5. (Copied(c) /\ Validated(c) /\ Admitted(c))'
    BY <1>5, <2>1, <2>2, <2>3, <2>4 DEF Copied, Validated, Admitted
  <2> QED
    BY <1>2, <1>3, <1>5, <2>5, AllKept DEF IInv
<1> QED
  BY <1>2, <1>4, <1>5 DEF CommitRestore

\* A commit that is still valid publishes an observation between the served one
\* and the intent.
LEMMA CommitStep ==
  ASSUME IInv, TypeOK', NEW c \in Callers, Commit(c)
  PROVE  /\ IInv'
         /\ Valid(c) => /\ ContentSuccessor(current.sources, cand[c].snap)
                        /\ ContentSuccessor(cand[c].snap, intent)
<1>1. /\ cand[c] \in Locals /\ cand[c].snap \in Snapshot /\ cand[c].base \in Nat
      /\ intent \in Snapshot /\ current.sources \in Snapshot
      /\ Admitted(c) /\ pc[c] = "build" /\ intent' = intent /\ head' = head
      /\ head = Revs(intent) /\ generation \in Nat
  BY DEF IInv, TypeOK, Locals, Commit, IntentMatchesHead
<1>2. ASSUME Valid(c)
      PROVE  /\ ContentSuccessor(cand[c].snap, intent)
             /\ ContentSuccessor(current.sources, cand[c].snap)
  <2>1. ContentSuccessor(cand[c].snap, intent)
    BY <1>1, <1>2 DEF Valid, Admitted
  <2>2. CASE generation = 0
    <3>1. current.sources = EmptySnapshot
      BY <2>2 DEF IInv, Unpublished, NotPublished
    <3> QED
      BY <1>1, <2>1, <3>1, EmptyFacts
  <2>3. CASE generation > 0
    <3>1. Revs(cand[c].snap) = head
      BY <1>1, <1>2, <2>3 DEF Valid, Admitted
    <3>2. \A s \in Sources : cand[c].snap[s].rev = intent[s].rev
      BY <1>1, <3>1 DEF Revs
    <3>3. ContentSuccessor(intent, cand[c].snap)
      BY <1>1, <2>1, <3>2, SnapshotFacts, SnapshotsAssumption DEF ContentSuccessor
    <3>4. ContentSuccessor(current.sources, intent)
      BY <2>3 DEF IInv, ServedWithinIntent
    <3> QED
      BY <1>1, <2>1, <3>3, <3>4, SuccessorTransitive
  <2> QED
    BY <1>1, <2>2, <2>3
<1>3. (IntentMatchesHead /\ Unpublished /\ ServedWithinIntent)'
  <2>1. CASE Valid(c)
    <3>1. /\ generation' = cand[c].base + 1 /\ current'.sources = cand[c].snap
      BY <2>1 DEF Commit
    <3> QED
      BY <1>1, <1>2, <2>1, <3>1 DEF IntentMatchesHead, Unpublished, ServedWithinIntent, Revs
  <2>2. CASE ~ Valid(c)
    BY <1>1, <2>2 DEF Commit, IInv, IntentMatchesHead, Unpublished, ServedWithinIntent, Revs
  <2> QED
    BY <2>1, <2>2
<1>4. \A d \in Callers : (Copied(d) /\ Validated(d) /\ Admitted(d))'
  BY <1>1, <1>3, ReturnKept, SuccessorReflexive DEF Commit
<1> QED
  BY <1>2, <1>3, <1>4 DEF IInv

LEMMA InvariantStep == IInv /\ [Next]_vars => IInv'
<1> SUFFICES ASSUME IInv, [Next]_vars PROVE IInv'
  OBVIOUS
<1>1. TypeOK'
  BY TypeStep DEF IInv
<1>2. ASSUME intent' = intent, head' = head, generation' = generation, current' = current
      PROVE  /\ (IntentMatchesHead /\ Unpublished /\ ServedWithinIntent)'
             /\ ContentSuccessor(intent, intent')
  BY <1>2, SuccessorReflexive
     DEF IInv, TypeOK, IntentMatchesHead, Unpublished, ServedWithinIntent, Revs
<1>3. ASSUME NEW c \in Callers, NewIntent(c) PROVE IInv'
  <2>1. /\ intent' = intent /\ head' = head /\ generation' = generation /\ current' = current
        /\ Goto(c, "admit", [cand[c] EXCEPT !.fresh = Fresh(cand[c].snap)])
    BY <1>3 DEF NewIntent, store
  <2>2. cand[c] \in Locals /\ cand[c].snap \in Snapshot /\ head \in RevVector
    BY DEF IInv, TypeOK, Locals
  <2>3. /\ pc'[c] = "admit"
        /\ cand'[c] = [cand[c] EXCEPT !.fresh = Fresh(cand[c].snap)]
    BY <2>1 DEF Goto, IInv, TypeOK
  <2>4. cand'[c].snap = cand[c].snap /\ cand'[c].fresh = Fresh(cand[c].snap)
    BY <2>2, <2>3 DEF Locals
  <2>5. ASSUME NEW s \in Sources, cand[c].snap[s].rev > head[s]
        PROVE  s \in Fresh(cand[c].snap)
    <3>1. cand[c].snap[s].rev # 0
      BY <2>2, <2>5, SnapshotFacts, SnapshotsAssumption DEF RevVector
    <3> QED
      BY <2>2, <2>5, <3>1, SnapshotFacts DEF Fresh, Present
  <2>6. (Copied(c) /\ Validated(c) /\ Admitted(c))'
    BY <2>1, <2>3, <2>4, <2>5 DEF Copied, Validated, Admitted
  <2> QED
    BY <1>1, <1>2, <2>1, <2>6, AllKept DEF IInv
<1>4. ASSUME NEW c \in Callers,
             AdmitRefused(c) \/ Reject(c) \/ NoOp(c) \/ PrepareFailed(c)
      PROVE  IInv'
  <2>1. /\ intent' = intent /\ head' = head /\ generation' = generation /\ current' = current
        /\ Return(c)
    BY <1>4 DEF AdmitRefused, Reject, NoOp, PrepareFailed, RecordFailure, store
  <2> QED
    BY <1>1, <1>2, <2>1, ReturnKept DEF IInv
<1>5. ASSUME NEW c \in Callers, Continue(c) PROVE IInv'
  BY <1>1, <1>3, <1>4, <1>5, AdmitStep, RestoreStep, CommitStep DEF Continue
<1>6. CASE Seal \/ UNCHANGED vars
  <2>1. /\ intent' = intent /\ head' = head /\ generation' = generation /\ current' = current
        /\ pc' = pc /\ cand' = cand
    BY <1>6 DEF Seal, vars, store
  <2>2. \A d \in Callers : (Copied(d) /\ Validated(d) /\ Admitted(d))'
    BY <2>1, <1>1, <1>2, OthersKept DEF IInv
  <2> QED
    BY <1>1, <1>2, <2>1, <2>2 DEF IInv
<1> QED
  BY <1>1, <1>5, <1>6, EnterStep DEF Next

\* The head always identifies the retained intent, and what is served is always
\* an earlier or the same observation of it.
THEOREM IntentSafe == Spec => [](IntentMatchesHead /\ ServedWithinIntent)
<1>1. IInv => IntentMatchesHead /\ ServedWithinIntent
  BY DEF IInv
<1> QED
  BY <1>1, InvariantInit, InvariantStep, PTL DEF Spec

-----------------------------------------------------------------------------
(* Action properties and the abstract specification.                       *)

\* Which steps touch the intent and what is served, and how.
LEMMA StoreSteps ==
  ASSUME IInv, [Next]_vars
  PROVE  \/ /\ sealed' \in {sealed, TRUE}
            /\ UNCHANGED <<generation, current, head, intent>>
            /\ sealed => UNCHANGED store
         \/ /\ ~ sealed /\ UNCHANGED <<sealed, generation, current, failures>>
            /\ intent' \in Snapshot /\ ContentSuccessor(intent, intent')
         \/ \E c \in Callers :
              /\ ~ sealed /\ UNCHANGED <<sealed, head, intent>>
              /\ Commit(c) /\ Valid(c)
              /\ cand[c].snap \in Snapshot
              /\ ContentSuccessor(current.sources, cand[c].snap)
              /\ ContentSuccessor(cand[c].snap, intent)
<1>1. TypeOK' /\ TypeOK
  BY TypeStep DEF IInv
<1>2. ASSUME NEW c \in Callers, Enter(c)
      PROVE  /\ UNCHANGED <<sealed, generation, current, head, intent>>
             /\ sealed => UNCHANGED store
  BY <1>2 DEF Enter, Unconditional, Conditional, Scoped, Recovery, ReadVersion, CallRefused,
         RejectObservation, Attempt, AttemptIf, WriteSource, AttemptSource,
         RestoreIntent, Recover, store
<1>3. ASSUME NEW c \in Callers, NewIntent(c) \/ AdmitRefused(c)
      PROVE  UNCHANGED store
  BY <1>3 DEF NewIntent, AdmitRefused
<1>4. ASSUME NEW c \in Callers, Reject(c) \/ NoOp(c) \/ PrepareFailed(c)
      PROVE  /\ UNCHANGED <<sealed, generation, current, head, intent>>
             /\ sealed => UNCHANGED store
  BY <1>4 DEF Reject, NoOp, PrepareFailed, RecordFailure, Valid, store
<1>5. ASSUME NEW c \in Callers, Admit(c)
      PROVE  /\ ~ sealed /\ UNCHANGED <<sealed, generation, current, failures>>
             /\ intent' \in Snapshot /\ ContentSuccessor(intent, intent')
  BY <1>1, <1>5, AdmitStep DEF Admit, Refused, TypeOK
<1>6. ASSUME NEW c \in Callers, CommitRestore(c)
      PROVE  \/ UNCHANGED store
             \/ /\ ~ sealed /\ UNCHANGED <<sealed, generation, current, failures>>
                /\ intent' \in Snapshot /\ ContentSuccessor(intent, intent')
  BY <1>1, <1>6, RestoreStep DEF CommitRestore, TypeOK, store
<1>7. ASSUME NEW c \in Callers, Commit(c)
      PROVE  \/ UNCHANGED store
             \/ /\ ~ sealed /\ UNCHANGED <<sealed, head, intent>>
                /\ Valid(c) /\ cand[c].snap \in Snapshot
                /\ ContentSuccessor(current.sources, cand[c].snap)
                /\ ContentSuccessor(cand[c].snap, intent)
  <2>1. cand[c].snap \in Snapshot
    BY <1>1 DEF TypeOK, Locals
  <2>2. CASE Valid(c)
    BY <1>1, <1>7, <2>1, <2>2, CommitStep DEF Commit, Valid
  <2>3. CASE ~ Valid(c)
    BY <1>7, <2>3 DEF Commit, store
  <2> QED
    BY <2>2, <2>3
<1>8. CASE Seal \/ UNCHANGED vars
  BY <1>1, <1>8 DEF Seal, vars, store, TypeOK
<1>9. ASSUME UNCHANGED store
      PROVE  /\ sealed' \in {sealed, TRUE}
             /\ UNCHANGED <<generation, current, head, intent>>
             /\ sealed => UNCHANGED store
  BY <1>9 DEF store
<1>10. ASSUME NEW c \in Callers, Enter(c)
       PROVE  /\ sealed' \in {sealed, TRUE}
              /\ UNCHANGED <<generation, current, head, intent>>
              /\ sealed => UNCHANGED store
  BY <1>2, <1>10
<1>11. CASE \E c \in Callers : Enter(c)
  BY <1>10, <1>11
<1>12. CASE \E c \in Callers : Continue(c)
  BY <1>3, <1>4, <1>5, <1>6, <1>7, <1>9, <1>12 DEF Continue
<1> QED
  BY <1>8, <1>11, <1>12 DEF Next

\* Once sealed, the store never changes again, whatever was under way.
THEOREM SealIsFinal == Spec => SealedFrozen
<1>1. IInv /\ [Next]_vars => [sealed => UNCHANGED store]_vars
  <2> SUFFICES ASSUME IInv, [Next]_vars, sealed PROVE UNCHANGED store
    OBVIOUS
  <2> QED
    BY StoreSteps
<1> QED
  BY <1>1, InvariantInit, InvariantStep, PTL DEF Spec, SealedFrozen

\* Publications are numbered one by one, compiled from what they record, and
\* not overtaken by any observation.
THEOREM PublicationOrder == Spec => PublishesInOrder
<1> DEFINE Ordered ==
      current' # current \/ generation' # generation =>
        /\ generation' = generation + 1
        /\ current'.plan = Compile(current'.sources)
        /\ IF generation > 0
             THEN Revs(current'.sources) = head
             ELSE AtMost(Revs(current'.sources), head)
<1>1. IInv /\ [Next]_vars => [Ordered]_vars
  <2> SUFFICES ASSUME IInv, [Next]_vars, current' # current \/ generation' # generation
               PROVE  /\ generation' = generation + 1
                      /\ current'.plan = Compile(current'.sources)
                      /\ IF generation > 0
                           THEN Revs(current'.sources) = head
                           ELSE AtMost(Revs(current'.sources), head)
    OBVIOUS
  <2>1. PICK c \in Callers : /\ Commit(c) /\ Valid(c) /\ cand[c].snap \in Snapshot
                             /\ ContentSuccessor(cand[c].snap, intent)
    BY StoreSteps
  <2>2. /\ generation' = generation + 1
        /\ current' = [plan |-> Compile(cand[c].snap), sources |-> cand[c].snap]
        /\ pc[c] = "build" /\ head = cand[c].head /\ generation = cand[c].base
    BY <2>1 DEF Commit, Valid
  <2>3. generation > 0 => Revs(cand[c].snap) = head
    BY <2>2 DEF IInv, Admitted
  <2>4. AtMost(Revs(cand[c].snap), head)
    BY <2>1 DEF IInv, IntentMatchesHead, AtMost, ContentSuccessor, Revs
  <2> QED
    BY <2>2, <2>3, <2>4
<1> QED
  BY <1>1, InvariantInit, InvariantStep, PTL DEF Spec, PublishesInOrder

\* The store implements ServingHistory.
THEOREM StoreKeepsHistory == Spec => KeepsHistory
<1>0. /\ History!EmptySnapshot = EmptySnapshot
      /\ History!Snapshot = Snapshot
      /\ \A x, y : History!ContentSuccessor(x, y) <=> ContentSuccessor(x, y)
  BY DEF History!EmptySnapshot, EmptySnapshot, History!Absent, Absent, History!Snapshot,
         Snapshot, History!SourceSnapshot, SourceSnapshot, History!ContentSuccessor,
         ContentSuccessor
<1>1. Init => History!Init
  BY <1>0 DEF Init, History!Init, NotPublished
<1>2. IInv /\ [Next]_vars => [History!Next]_(History!history)
  <2> SUFFICES ASSUME IInv, [Next]_vars PROVE [History!Next]_(History!history)
    OBVIOUS
  <2>1. CASE sealed' \in {sealed, TRUE} /\ UNCHANGED <<generation, current, head, intent>>
    BY <2>1 DEF History!Next, History!Seal, History!history
  <2>2. CASE /\ ~ sealed /\ UNCHANGED <<sealed, generation, current, failures>>
             /\ intent' \in Snapshot /\ ContentSuccessor(intent, intent')
    <3>1. History!Extend
      BY <1>0, <2>2 DEF History!Extend
    <3> QED
      BY <3>1 DEF History!Next
  <2>3. ASSUME NEW c \in Callers,
               ~ sealed, UNCHANGED <<sealed, head, intent>>, Commit(c), Valid(c),
               cand[c].snap \in Snapshot, ContentSuccessor(current.sources, cand[c].snap),
               ContentSuccessor(cand[c].snap, intent)
        PROVE  History!Publish
    BY <1>0, <2>3 DEF History!Publish, Commit, Valid
  <2> QED
    BY <2>1, <2>2, <2>3, StoreSteps DEF History!Next
<1> QED
  BY <1>1, <1>2, InvariantInit, InvariantStep, PTL DEF Spec, KeepsHistory, History!Spec

-----------------------------------------------------------------------------
(* The limits of the intent.  A restoration is counted before the lock is  *)
(* taken and an admission adds the sources nobody has seen to those that   *)
(* are retained, so neither count is of the union that is stored.          *)

Counted(c) ==
  pc[c] \in {"restore", "recover"} =>
    /\ Cardinality(Present(cand[c].snap)) <= SourceLimit
    /\ Present(cand[c].snap) \subseteq Allowed

CapacityInv == SourceCapacity /\ \A c \in Callers : Counted(c)

LEMMA CountsKept ==
  ASSUME IInv, CapacityInv, NEW c \in Callers, NEW label, NEW local, Goto(c, label, local),
         label \in {"restore", "recover"} =>
           /\ Cardinality(Present(local.snap)) <= SourceLimit /\ Present(local.snap) \subseteq Allowed
  PROVE  \A d \in Callers : Counted(d)'
<1>1. pc'[c] = label /\ cand'[c] = local
  BY DEF Goto, IInv, TypeOK
<1>2. \A d \in Callers \ {c} : pc'[d] = pc[d] /\ cand'[d] = cand[d]
  BY DEF Goto, IInv, TypeOK
<1>3. Counted(c)'
  BY <1>1 DEF Counted, Present
<1>4. ASSUME NEW d \in Callers \ {c} PROVE Counted(d)'
  BY <1>2, <1>4 DEF Counted, CapacityInv, Present
<1> QED
  BY <1>3, <1>4

\* What admission adds to the intent are sources it has counted.
LEMMA AdmitCapacity ==
  ASSUME IInv, CapacityInv, TypeOK', NEW c \in Callers, Admit(c)
  PROVE  SourceCapacity'
<1> DEFINE snap == cand[c].snap
           new == NewSources(snap)
           old == Present(intent)
<1>1. /\ snap \in Snapshot /\ intent \in Snapshot /\ intent' \in Snapshot /\ head = Revs(intent)
  BY DEF IInv, TypeOK, Locals, IntentMatchesHead
<1>2. /\ Present(snap) \subseteq Allowed /\ ~ (Cardinality(old) + Cardinality(new) > SourceLimit)
  BY DEF Admit, Refused
<1>3. old \subseteq Allowed /\ new \subseteq Allowed
  BY <1>2 DEF CapacityInv, SourceCapacity, NewSources
<1>4. IsFiniteSet(old) /\ IsFiniteSet(new)
  BY <1>3, StoreAssumption, FS_Subset
<1>5. Present(intent') \subseteq old \cup new
  <2> SUFFICES ASSUME NEW s \in Sources, intent'[s] # Absent PROVE s \in old \cup new
    BY DEF Present
  <2>1. CASE intent'[s] = intent[s]
    BY <2>1 DEF Present
  <2>2. CASE intent'[s] = snap[s] /\ snap[s].rev > head[s] /\ head[s] = 0
    BY <2>2 DEF NewSources, Present
  <2>3. CASE intent'[s] = snap[s] /\ snap[s].rev > head[s] /\ head[s] # 0
    <3>1. intent[s].rev # 0
      BY <1>1, <2>3 DEF Revs
    <3> QED
      BY <1>1, <3>1, SnapshotFacts DEF Present
  <2> QED
    BY <2>1, <2>2, <2>3 DEF Admit, MergedIntent
<1> HIDE DEF old, new
<1>6. Present(intent') \subseteq Allowed
  BY <1>3, <1>5
<1>7. /\ IsFiniteSet(old \cup new) /\ Cardinality(old \cup new) \in Nat
      /\ Cardinality(old \cup new) <= Cardinality(old) + Cardinality(new)
  <2>1. /\ IsFiniteSet(old \cup new) /\ IsFiniteSet(old \cap new)
        /\ Cardinality(old \cup new) = Cardinality(old) + Cardinality(new) - Cardinality(old \cap new)
    BY <1>4, FS_Union, FS_Intersection
  <2>2. /\ Cardinality(old) \in Nat /\ Cardinality(new) \in Nat /\ Cardinality(old \cap new) \in Nat
        /\ Cardinality(old \cup new) \in Nat
    BY <1>4, <2>1, FS_CardinalityType
  <2> QED
    BY <2>1, <2>2
<1>8. IsFiniteSet(Present(intent')) /\ Cardinality(Present(intent')) <= Cardinality(old \cup new)
  BY <1>5, <1>7, FS_Subset
<1>9. Cardinality(Present(intent')) <= SourceLimit
  <2>1. Cardinality(Present(intent')) \in Nat /\ Cardinality(old) \in Nat /\ Cardinality(new) \in Nat
    BY <1>4, <1>8, FS_CardinalityType
  <2> QED
    BY <1>2, <1>7, <1>8, <2>1, StoreAssumption DEF old, new
<1> QED
  BY <1>6, <1>9 DEF SourceCapacity, Present

LEMMA CapacityStep == IInv /\ CapacityInv /\ [Next]_vars => CapacityInv'
<1> SUFFICES ASSUME IInv, CapacityInv, [Next]_vars PROVE CapacityInv'
  OBVIOUS
<1>1. TypeOK'
  BY TypeStep DEF IInv
<1>2. ASSUME intent' = intent PROVE SourceCapacity'
  BY <1>2 DEF CapacityInv, SourceCapacity, Present
<1>3. ASSUME NEW c \in Callers, NEW label, NEW local, Goto(c, label, local),
             label \notin {"restore", "recover"}
      PROVE  \A d \in Callers : Counted(d)'
  BY <1>3, CountsKept
<1>4. ASSUME NEW c \in Callers, NEW observed \in Readable, NEW serving \in Readable,
             RestoreIntent(c, observed) \/ Recover(c, serving, observed)
      PROVE  CapacityInv'
  <2>1. Cardinality(Present(observed)) <= SourceLimit /\ Present(observed) \subseteq Allowed
    BY <1>4 DEF RestoreIntent, Recover, Restorable
  <2>2. /\ [cand[c] EXCEPT !.snap = observed].snap = observed
        /\ [cand[c] EXCEPT !.snap = observed, !.serving = serving].snap = observed
    <3>1. cand[c] \in Locals
      BY DEF IInv, TypeOK
    <3> QED
      BY <3>1 DEF Locals
  <2>3. \A d \in Callers : Counted(d)'
    <3>1. CASE Goto(c, "restore", [cand[c] EXCEPT !.snap = observed])
      BY <2>1, <2>2, <3>1, CountsKept
    <3>2. CASE Goto(c, "recover", [cand[c] EXCEPT !.snap = observed, !.serving = serving])
      BY <2>1, <2>2, <3>2, CountsKept
    <3> QED
      BY <1>4, <3>1, <3>2 DEF RestoreIntent, Recover
  <2>4. intent' = intent
    BY <1>4 DEF RestoreIntent, Recover, store
  <2> QED
    BY <1>2, <2>3, <2>4 DEF CapacityInv
<1>5. ASSUME NEW c \in Callers, Enter(c) PROVE CapacityInv'
  <2>1. intent' = intent
    BY <1>5 DEF Enter, Unconditional, Conditional, Scoped, Recovery, ReadVersion, CallRefused,
           RejectObservation, Attempt, AttemptIf, WriteSource, AttemptSource, RestoreIntent, Recover, store
  <2>2. CASE Recovery(c)
    BY <1>4, <2>2 DEF Recovery
  <2>3. CASE ~ Recovery(c)
    <3>1. CASE ReadVersion(c) \/ CallRefused(c) \/ RejectObservation(c)
      BY <1>2, <1>3, <2>1, <3>1 DEF ReadVersion, CallRefused, RejectObservation, Return, CapacityInv
    <3>2. ASSUME NEW snap \in Readable, NEW refresh \in Refreshes,
                 Attempt(c, snap, refresh) \/ AttemptIf(c, snap, refresh)
          PROVE  CapacityInv'
      BY <1>2, <1>3, <2>1, <3>2 DEF Attempt, AttemptIf, CapacityInv
    <3>3. ASSUME NEW s \in Sources, NEW i \in Inputable, WriteSource(c, s, i) PROVE CapacityInv'
      BY <1>2, <1>3, <2>1, <3>3 DEF WriteSource, CapacityInv
    <3>4. ASSUME NEW s \in Sources, NEW source, AttemptSource(c, s, source) PROVE CapacityInv'
      BY <1>2, <1>3, <2>1, <3>4 DEF AttemptSource, CapacityInv
    <3> QED
      BY <1>5, <2>3, <3>1, <3>2, <3>3, <3>4 DEF Enter, Unconditional, Conditional, Scoped
  <2> QED
    BY <2>2, <2>3
<1>6. ASSUME NEW c \in Callers, CommitRestore(c) PROVE CapacityInv'
  <2>1. \E label, local : Goto(c, label, local) /\ label \notin {"restore", "recover"}
    BY <1>6 DEF CommitRestore, Return
  <2>2. SourceCapacity'
    <3>1. CASE intent' = intent
      BY <1>2, <3>1
    <3>2. CASE intent' = cand[c].snap
      BY <1>6, <3>2 DEF CommitRestore, CapacityInv, Counted, SourceCapacity, Present
    <3> QED
      BY <1>6, <3>1, <3>2 DEF CommitRestore
  <2> QED
    BY <1>3, <2>1, <2>2 DEF CapacityInv
<1>7. ASSUME NEW c \in Callers, Admit(c) PROVE CapacityInv'
  <2>1. \E label, local : Goto(c, label, local) /\ label \notin {"restore", "recover"}
    BY <1>7 DEF Admit, Return
  <2> QED
    BY <1>1, <1>3, <1>7, <2>1, AdmitCapacity DEF CapacityInv
<1>8. ASSUME NEW c \in Callers,
             NewIntent(c) \/ AdmitRefused(c) \/ Reject(c) \/ NoOp(c) \/ PrepareFailed(c) \/ Commit(c)
      PROVE  CapacityInv'
  <2>1. intent' = intent /\ \E label, local : Goto(c, label, local) /\ label \notin {"restore", "recover"}
    BY <1>8 DEF NewIntent, AdmitRefused, Reject, NoOp, PrepareFailed, Commit, RecordFailure, Return, store
  <2> QED
    BY <1>2, <1>3, <2>1 DEF CapacityInv
<1>9. CASE Seal \/ UNCHANGED vars
  <2>1. intent' = intent /\ pc' = pc /\ cand' = cand
    BY <1>9 DEF Seal, vars, store
  <2> QED
    BY <1>2, <2>1 DEF CapacityInv, Counted, Present
<1> QED
  BY <1>5, <1>6, <1>7, <1>8, <1>9 DEF Next, Continue

\* No mixture of admissions and restorations makes the store retain more sources than its limit,
\* or one the host never registered, and what it serves is an observation it has retained.
THEOREM CapacityKept == Spec => []EntriesSound
<1>1. Init => CapacityInv
  <2> SUFFICES ASSUME Init PROVE CapacityInv
    OBVIOUS
  <2>1. Present(intent) = {}
    BY DEF Init, EmptySnapshot, Present
  <2>2. SourceCapacity
    BY <2>1, FS_EmptySet, StoreAssumption DEF SourceCapacity
  <2> QED
    BY <2>2 DEF Init, CapacityInv, Counted
<1>2. IInv /\ CapacityInv => EntriesSound
  BY DEF IInv, CapacityInv, EntriesSound
<1> QED
  BY <1>1, <1>2, InvariantInit, InvariantStep, CapacityStep, PTL DEF Spec

-----------------------------------------------------------------------------
(***************************************************************************)
(* The newest intent is served.  This needs hosts whose frontends write    *)
(* one source of the complete union (SourceWriter): a candidate that is    *)
(* still the observation of the head is then the whole intent, and either  *)
(* such a candidate is on its way to the commit or the outcome of the last *)
(* one is what the store shows.                                            *)
(***************************************************************************)
Scopes == Entries \subseteq {"writer", "reject"}

\* A conditional writer presents a version that was once the store's, and its
\* candidate is one observation away from the intent while that version lasts.
Writing(c) ==
  pc[c] \in {"versioned", "compose", "admit"} =>
    /\ cand[c].fence.generation >= 0
    /\ cand[c].refresh = FALSE
    /\ AtMost(cand[c].fence.revs, head)

Composed(c) ==
  pc[c] \in {"compose", "admit"} /\ cand[c].fence.revs = head =>
    \E s \in Sources, i \in Inputable :
      /\ CanObserve(intent[s], i)
      /\ cand[c].snap = [intent EXCEPT ![s] = Observe(intent[s], i)]

\* A builder whose head is still the head builds the whole intent, and compares
\* its plan with the one that is served.
Building(c) ==
  pc[c] = "build" =>
    /\ cand[c].refresh = FALSE
    /\ cand[c].base <= generation
    /\ cand[c].head = head => cand[c].snap = intent
    /\ cand[c].base = generation => cand[c].previous = current.plan

Ordinary(c) ==
  pc[c] \notin {"restore", "recover"} /\ Writing(c) /\ Composed(c) /\ Building(c)

Ready(c) == pc[c] = "build" /\ cand[c].head = head /\ cand[c].base = generation

Latest ==
  (~ sealed /\ generation > 0 /\ failures = 0 /\ \A c \in Callers : ~ Ready(c))
    => current.plan = Compile(intent)

NInv == Latest /\ \A c \in Callers : Ordinary(c)

\* SourceSnapshot::observe of one source of the intent: the merge is the
\* candidate itself, and it changes the intent only when it advances the head.
LEMMA ObservedMerge ==
  ASSUME IInv, NEW s \in Sources, NEW i \in Inputable, CanObserve(intent[s], i),
         NEW snap, snap = [intent EXCEPT ![s] = Observe(intent[s], i)],
         NEW fresh, \A t \in Sources : snap[t].rev > head[t] => t \in fresh
  PROVE  /\ MergedIntent(snap, fresh) = snap
         /\ MergeMax(head, Revs(snap)) = Revs(snap)
         /\ AtMost(head, Revs(snap))
         /\ Revs(snap) = head => snap = intent
<1>1. /\ intent \in Snapshot /\ head = Revs(intent) /\ i \in Inputs
  BY StoreAssumption DEF IInv, TypeOK, IntentMatchesHead
<1>2. /\ intent[s] \in SourceSnapshot \cup {Absent}
      /\ intent[s].rev \in 0..MaxRev /\ i.content \in Contents /\ i.nodes \in Trees
  BY <1>1, SnapshotFacts DEF Inputs
<1>3. DOMAIN intent = Sources /\ DOMAIN snap = Sources /\ snap[s] = Observe(intent[s], i)
      /\ \A t \in Sources \ {s} : snap[t] = intent[t]
  BY <1>1 DEF Snapshot
<1>4. CASE intent[s].content = i.content
  <2>1. intent[s] \in SourceSnapshot
    BY <1>2, <1>4, SnapshotsAssumption DEF Absent
  <2>2. snap[s] = intent[s]
    BY <1>3, <1>4, <2>1 DEF Observe, CanObserve, SourceSnapshot
  <2>3. snap = intent
    BY <1>1, <1>3, <2>2 DEF Snapshot
  <2>4. \A t \in Sources : intent[t].rev \in Int /\ head[t] = intent[t].rev
    BY <1>1, SnapshotFacts, SnapshotsAssumption DEF Revs
  <2>5. \A t \in Sources : MergedIntent(intent, fresh)[t] = intent[t]
    BY DEF MergedIntent
  <2>6. MergedIntent(intent, fresh) = intent
    <3>1. DOMAIN MergedIntent(intent, fresh) = Sources /\ MergedIntent(intent, fresh) \in Snapshot
      BY <1>1 DEF MergedIntent, Snapshot
    <3> QED
      BY <1>1, <2>5, <3>1 DEF Snapshot
  <2>7. MergeMax(head, Revs(intent)) = Revs(intent) /\ AtMost(head, Revs(intent))
    BY <1>1, <2>4 DEF MergeMax, Revs, AtMost
  <2> QED
    BY <2>3, <2>6, <2>7
<1>5. CASE intent[s].content # i.content
  <2>1. snap[s].rev = intent[s].rev + 1
    BY <1>3, <1>5 DEF Observe
  <2>2. \A t \in Sources : intent[t].rev \in 0..MaxRev /\ head[t] = intent[t].rev
    BY <1>1, SnapshotFacts DEF Revs
  <2>3. snap[s].rev > head[s] /\ \A t \in Sources \ {s} : snap[t].rev = head[t]
    BY <1>3, <2>1, <2>2, SnapshotsAssumption
  <2>4. \A t \in Sources : MergedIntent(snap, fresh)[t] = snap[t]
    BY <1>3, <2>2, <2>3, SnapshotsAssumption DEF MergedIntent
  <2>5. MergedIntent(snap, fresh) = snap
    BY <1>3, <2>4 DEF MergedIntent
  <2>6. \A t \in Sources : MergeMax(head, Revs(snap))[t] = Revs(snap)[t]
    BY <2>2, <2>3, SnapshotsAssumption DEF MergeMax, Revs
  <2>7. MergeMax(head, Revs(snap)) = Revs(snap)
    BY <2>6 DEF MergeMax, Revs
  <2>8. AtMost(head, Revs(snap))
    <3> SUFFICES ASSUME NEW t \in Sources PROVE head[t] <= snap[t].rev
      BY DEF AtMost, Revs
    <3>1. intent[t].rev \in Int /\ head[t] = intent[t].rev /\ intent[s].rev \in Int
      BY <2>2, SnapshotsAssumption
    <3> QED
      BY <2>1, <2>3, <3>1
  <2>9. Revs(snap) # head
    BY <2>2, <2>3, SnapshotsAssumption DEF Revs
  <2> QED
    BY <2>5, <2>7, <2>8, <2>9
<1> QED
  BY <1>4, <1>5

\* A caller that does not move keeps what it relies on while the head only
\* advances and a generation is replaced by a later one.
LEMMA OrdinaryKept ==
  ASSUME IInv, TypeOK', NEW c \in Callers, Ordinary(c), pc'[c] = pc[c], cand'[c] = cand[c],
         AtMost(head, head'), head' = head => intent' = intent,
         generation' >= generation, generation' = generation => current' = current
  PROVE  Ordinary(c)'
<1>1. /\ head \in RevVector /\ head' \in RevVector /\ cand[c] \in Locals
      /\ generation \in 0..MaxGen /\ generation' \in 0..MaxGen
  BY DEF IInv, TypeOK
<1>2. /\ cand[c].fence.revs \in RevVector /\ cand[c].head \in RevVector /\ cand[c].base \in 0..MaxGen
  BY <1>1 DEF Locals, Fences
<1>3. ASSUME NEW v \in RevVector, AtMost(v, head)
      PROVE  AtMost(v, head') /\ (v = head' => v = head /\ head' = head)
  <2>1. \A s \in Sources : v[s] \in Int /\ head[s] \in Int /\ head'[s] \in Int
    BY <1>1, SnapshotsAssumption DEF RevVector
  <2>2. AtMost(v, head')
    BY <1>3, <2>1 DEF AtMost
  <2>3. ASSUME v = head' PROVE v = head
    <3>1. \A s \in Sources : v[s] = head[s]
      BY <1>3, <2>1, <2>3 DEF AtMost
    <3> QED
      BY <1>1, <3>1 DEF RevVector
  <2> QED
    BY <2>2, <2>3
<1>4. Writing(c)'
  BY <1>2, <1>3 DEF Ordinary, Writing
<1>5. Composed(c)'
  BY <1>2, <1>3 DEF Ordinary, Writing, Composed
<1>6. Building(c)'
  <2>1. SUFFICES ASSUME pc[c] = "build"
                 PROVE  /\ cand[c].refresh = FALSE
                        /\ cand[c].base <= generation'
                        /\ cand[c].head = head' => cand[c].snap = intent'
                        /\ cand[c].base = generation' => cand[c].previous = current'.plan
    BY DEF Building
  <2>2. AtMost(cand[c].head, head)
    BY <2>1 DEF IInv, Admitted
  <2>3. cand[c].head = head' => cand[c].snap = intent'
    BY <1>2, <1>3, <2>1, <2>2 DEF Ordinary, Building
  <2>4. cand[c].base <= generation' /\ (cand[c].base = generation' => generation' = generation)
    BY <1>1, <1>2, <2>1, StoreAssumption DEF Ordinary, Building
  <2> QED
    BY <2>1, <2>3, <2>4 DEF Ordinary, Building
<1> QED
  BY <1>4, <1>5, <1>6 DEF Ordinary

\* A caller that was not about to commit, and moves without touching what is
\* served or intended, leaves the store's account of its newest intent.
LEMMA LatestKept ==
  ASSUME IInv, NInv, NEW c \in Callers, NEW label, NEW local, Goto(c, label, local),
         ~ Ready(c), sealed' = sealed, generation' = generation, current' = current,
         head' = head, intent' = intent, failures' = 0 => failures = 0
  PROVE  Latest'
<1>1. \A d \in Callers \ {c} : pc'[d] = pc[d] /\ cand'[d] = cand[d]
  BY DEF Goto, IInv, TypeOK
<1>2. \A d \in Callers \ {c} : Ready(d)' <=> Ready(d)
  BY <1>1 DEF Ready
<1> QED
  BY <1>2 DEF NInv, Latest

\* The callers of a step that leaves the head, the intent and the served plan.
LEMMA OrdinaryMove ==
  ASSUME IInv, NInv, TypeOK', NEW c \in Callers, NEW label, NEW local, Goto(c, label, local),
         generation' = generation, current' = current, head' = head, intent' = intent,
         Ordinary(c)'
  PROVE  \A d \in Callers : Ordinary(d)'
<1>1. \A d \in Callers \ {c} : pc'[d] = pc[d] /\ cand'[d] = cand[d]
  BY DEF Goto, IInv, TypeOK
<1>2. AtMost(head, head') /\ generation' >= generation
  BY SnapshotsAssumption, StoreAssumption DEF IInv, TypeOK, RevVector, AtMost
<1>3. ASSUME NEW d \in Callers \ {c} PROVE Ordinary(d)'
  BY <1>1, <1>2, <1>3, OrdinaryKept DEF NInv
<1> QED
  BY <1>3

\* A caller that has returned relies on nothing.
LEMMA OrdinaryReturn ==
  ASSUME IInv, NEW c \in Callers, Return(c)
  PROVE  Ordinary(c)' /\ ~ Ready(c)' /\ pc'[c] = "idle"
<1>1. pc'[c] = "idle"
  BY DEF Return, Goto, IInv, TypeOK
<1> QED
  BY <1>1 DEF Ordinary, Writing, Composed, Building, Ready

LEMMA NewestEnter ==
  ASSUME Scopes, IInv, NInv, TypeOK', NEW c \in Callers, Enter(c) \/ NewIntent(c) \/ AdmitRefused(c)
  PROVE  NInv'
<1>0. /\ cand[c] \in Locals /\ generation \in 0..MaxGen /\ head \in RevVector /\ intent \in Snapshot
      /\ pc \in [Callers -> {"idle", "versioned", "compose", "admit", "restore", "recover", "build"}]
      /\ cand \in [Callers -> Locals] /\ failures \in 0..MaxAttempts
  BY DEF IInv, TypeOK
<1>1. ASSUME NEW label, NEW local, Goto(c, label, local), ~ Ready(c), Ordinary(c)',
             sealed' = sealed, generation' = generation, current' = current,
             head' = head, intent' = intent, failures' = 0 => failures = 0
      PROVE  NInv'
  BY <1>1, LatestKept, OrdinaryMove DEF NInv
<1>2. CASE ReadVersion(c)
  <2> DEFINE local == [NoCand EXCEPT !.fence = Version]
  <2>1. /\ Goto(c, "versioned", local) /\ ~ Ready(c) /\ UNCHANGED store
        /\ pc'[c] = "versioned" /\ cand'[c] = local
    BY <1>0, <1>2 DEF ReadVersion, Ready, Goto
  <2>2. /\ local.fence.generation = generation /\ local.fence.revs = head /\ local.refresh = FALSE
    BY DEF NoCand, Version
  <2>3. AtMost(head, head) /\ generation >= 0
    BY <1>0, SnapshotsAssumption, StoreAssumption DEF RevVector, AtMost
  <2>4. Ordinary(c)'
    BY <2>1, <2>2, <2>3 DEF Ordinary, Writing, Composed, Building, store
  <2> QED
    BY <1>1, <2>1, <2>4 DEF store
<1>3. CASE CallRefused(c) \/ AdmitRefused(c)
  <2>1. Return(c) /\ ~ Ready(c) /\ UNCHANGED store
    BY <1>3 DEF CallRefused, AdmitRefused, Ready
  <2> QED
    BY <1>1, <2>1, OrdinaryReturn DEF Return, store
<1>4. CASE RejectObservation(c)
  <2>1. /\ Return(c) /\ ~ Ready(c) /\ UNCHANGED <<sealed, generation, current, head, intent>>
    BY <1>4 DEF RejectObservation, Ready
  <2>2. failures' = 0 => failures = 0
    BY <1>0, <1>4 DEF RejectObservation
  <2> QED
    BY <1>1, <2>1, <2>2, OrdinaryReturn DEF Return
<1>5. ASSUME NEW s \in Sources, NEW i \in Inputable, WriteSource(c, s, i) PROVE NInv'
  <2> DEFINE snap == [intent EXCEPT ![s] = Observe(intent[s], i)]
             local == [cand[c] EXCEPT !.snap = snap]
  <2>1. /\ Goto(c, "compose", local) /\ ~ Ready(c) /\ UNCHANGED store
        /\ pc[c] = "versioned" /\ pc'[c] = "compose" /\ cand'[c] = local
        /\ CanObserve(intent[s], i)
    BY <1>0, <1>5 DEF WriteSource, Ready, Goto
  <2>2. local.fence = cand[c].fence /\ local.snap = snap /\ local.refresh = cand[c].refresh
    BY <1>0 DEF Locals
  <2>3. Writing(c)'
    BY <2>1, <2>2 DEF NInv, Ordinary, Writing, store
  <2>4. Composed(c)'
    BY <2>1, <2>2 DEF Composed, store
  <2>5. Ordinary(c)'
    BY <2>1, <2>3, <2>4 DEF Ordinary, Building
  <2> QED
    BY <1>1, <2>1, <2>5 DEF store
<1>6. CASE NewIntent(c)
  <2> DEFINE local == [cand[c] EXCEPT !.fresh = Fresh(cand[c].snap)]
  <2>1. /\ Goto(c, "admit", local) /\ ~ Ready(c) /\ UNCHANGED store
        /\ pc[c] = "compose" /\ pc'[c] = "admit" /\ cand'[c] = local
    BY <1>0, <1>6 DEF NewIntent, Ready, Goto
  <2>2. /\ local.fence = cand[c].fence /\ local.snap = cand[c].snap /\ local.refresh = cand[c].refresh
    BY <1>0 DEF Locals
  <2>3. Ordinary(c)'
    BY <2>1, <2>2 DEF NInv, Ordinary, Writing, Composed, Building, store
  <2> QED
    BY <1>1, <2>1, <2>3 DEF store
<1> QED
  BY <1>2, <1>3, <1>4, <1>5, <1>6 DEF Enter, Unconditional, Conditional, Scoped, Recovery, Scopes

LEMMA NewestAdmit ==
  ASSUME IInv, NInv, TypeOK', NEW c \in Callers, Admit(c)
  PROVE  NInv'
<1> DEFINE snap == cand[c].snap
           local == [NoCand EXCEPT !.snap = snap, !.refresh = cand[c].refresh, !.head = head',
                                   !.base = generation, !.previous = current.plan]
<1>0. /\ cand[c] \in Locals /\ generation \in 0..MaxGen /\ head \in RevVector /\ intent \in Snapshot
      /\ pc \in [Callers -> {"idle", "versioned", "compose", "admit", "restore", "recover", "build"}]
      /\ cand \in [Callers -> Locals] /\ pc[c] = "admit"
  BY DEF IInv, TypeOK, Admit
<1>1. cand[c].fence # NoVersion
  BY <1>0 DEF NInv, Ordinary, Writing, NoVersion
<1>2. cand[c].fence = Version
  BY <1>1 DEF Admit, Refused
<1>3. cand[c].fence.revs = head
  BY <1>2 DEF Version
<1>4. PICK s \in Sources, i \in Inputable :
        CanObserve(intent[s], i) /\ snap = [intent EXCEPT ![s] = Observe(intent[s], i)]
  BY <1>0, <1>3 DEF NInv, Ordinary, Composed
<1>5. \A t \in Sources : snap[t].rev > head[t] => t \in cand[c].fresh
  BY <1>0 DEF IInv, Copied
<1>6. /\ MergedIntent(snap, cand[c].fresh) = snap /\ MergeMax(head, Revs(snap)) = Revs(snap)
      /\ AtMost(head, Revs(snap)) /\ (Revs(snap) = head => snap = intent)
  <2> HIDE DEF snap
  <2> QED
    BY <1>4, <1>5, ObservedMerge
<1>7. /\ intent' = snap /\ head' = Revs(snap) /\ Goto(c, "build", local)
      /\ UNCHANGED <<sealed, generation, current, failures>>
  BY <1>6 DEF Admit
<1>8. pc'[c] = "build" /\ cand'[c] = local /\ \A d \in Callers \ {c} : pc'[d] = pc[d] /\ cand'[d] = cand[d]
  BY <1>0, <1>7 DEF Goto
<1>9. /\ local.snap = snap /\ local.refresh = cand[c].refresh /\ local.head = head'
      /\ local.base = generation /\ local.previous = current.plan
  BY DEF NoCand
<1>10. Ready(c)'
  BY <1>7, <1>8, <1>9 DEF Ready
<1>11. Ordinary(c)'
  <2>1. cand[c].refresh = FALSE
    BY <1>0 DEF NInv, Ordinary, Writing
  <2>2. generation <= generation
    BY <1>0, StoreAssumption
  <2>3. Building(c)'
    BY <1>7, <1>8, <1>9, <2>1, <2>2 DEF Building
  <2> QED
    BY <1>8, <2>3 DEF Ordinary, Writing, Composed
<1>12. ASSUME NEW d \in Callers \ {c} PROVE Ordinary(d)'
  <2>1. Ordinary(d) /\ pc'[d] = pc[d] /\ cand'[d] = cand[d]
    BY <1>8 DEF NInv
  <2>2. /\ AtMost(head, head') /\ (head' = head => intent' = intent)
        /\ generation' >= generation /\ current' = current
    BY <1>0, <1>6, <1>7, StoreAssumption
  <2> QED
    BY <2>1, <2>2, OrdinaryKept
<1> QED
  BY <1>10, <1>11, <1>12 DEF NInv, Latest

\* Whatever the last valid builder finds is what the store shows.
LEMMA NewestFinish ==
  ASSUME IInv, NInv, TypeOK', NEW c \in Callers, Reject(c) \/ NoOp(c) \/ PrepareFailed(c) \/ Commit(c)
  PROVE  NInv'
<1>0. /\ cand[c] \in Locals /\ generation \in 0..MaxGen /\ head \in RevVector /\ intent \in Snapshot
      /\ pc[c] = "build" /\ failures \in 0..MaxAttempts /\ generation' \in 0..MaxGen
  BY DEF IInv, TypeOK, Reject, NoOp, PrepareFailed, Commit
<1>1. Return(c) /\ UNCHANGED <<sealed, head, intent>>
  BY DEF Reject, NoOp, PrepareFailed, Commit, RecordFailure
<1>2. Ordinary(c)' /\ pc'[c] = "idle"
  BY <1>1, OrdinaryReturn
<1>3. /\ cand[c].refresh = FALSE /\ cand[c].base <= generation /\ cand[c].base \in 0..MaxGen
      /\ (cand[c].head = head => cand[c].snap = intent)
      /\ (cand[c].base = generation => cand[c].previous = current.plan)
  BY <1>0 DEF NInv, Ordinary, Building, Locals
<1>4. generation' >= generation /\ (generation' = generation => current' = current)
  BY <1>0, <1>3, StoreAssumption DEF Reject, NoOp, PrepareFailed, Commit, RecordFailure, Valid
<1>5. ASSUME NEW d \in Callers \ {c} PROVE Ordinary(d)'
  <2>1. Ordinary(d) /\ pc'[d] = pc[d] /\ cand'[d] = cand[d]
    BY <1>1 DEF NInv, Return, Goto, IInv, TypeOK
  <2>2. AtMost(head, head')
    BY <1>0, <1>1, SnapshotsAssumption DEF RevVector, AtMost
  <2> QED
    BY <1>1, <1>4, <2>1, <2>2, OrdinaryKept
<1>6. Latest'
  <2>1. CASE ~ Ready(c)
    <3>1. ~ Valid(c)
      BY <1>0, <2>1 DEF Ready, Valid
    <3>2. UNCHANGED <<generation, current, failures>>
      BY <3>1 DEF Reject, NoOp, PrepareFailed, Commit, RecordFailure
    <3> QED
      BY <1>1, <2>1, <3>2, LatestKept DEF Return
  <2>2. CASE sealed
    BY <1>1, <2>2 DEF Latest
  <2>3. CASE Ready(c) /\ ~ sealed
    <3>1. Valid(c) /\ cand[c].snap = intent /\ cand[c].previous = current.plan
      BY <1>3, <2>3 DEF Ready, Valid
    <3>2. CASE Reject(c) \/ PrepareFailed(c)
      <4>1. failures' # 0
        BY <1>0, <3>1, <3>2, StoreAssumption DEF Reject, PrepareFailed, RecordFailure
      <4> QED
        BY <4>1 DEF Latest
    <3>3. CASE NoOp(c)
      BY <1>1, <1>3, <3>1, <3>3 DEF NoOp, Unchanged, Latest
    <3>4. CASE Commit(c)
      <4>1. current'.plan = Compile(cand[c].snap)
        BY <3>1, <3>4 DEF Commit
      <4> QED
        BY <1>1, <3>1, <4>1 DEF Latest
    <3> QED
      BY <3>2, <3>3, <3>4
  <2> QED
    BY <2>1, <2>2, <2>3
<1> QED
  BY <1>2, <1>5, <1>6 DEF NInv

LEMMA NewestStep ==
  ASSUME Scopes
  PROVE  IInv /\ NInv /\ [Next]_vars => NInv'
<1> SUFFICES ASSUME IInv, NInv, [Next]_vars PROVE NInv'
  OBVIOUS
<1>1. TypeOK'
  BY TypeStep DEF IInv
<1>2. ASSUME NEW c \in Callers, CommitRestore(c) PROVE NInv'
  BY <1>2 DEF CommitRestore, NInv, Ordinary
<1>3. CASE Seal \/ UNCHANGED vars
  <2>1. /\ UNCHANGED <<generation, current, head, intent, failures, pc, cand>>
        /\ sealed' \in {sealed, TRUE}
    BY <1>3 DEF Seal, vars, store
  <2>2. Latest'
    BY <2>1 DEF NInv, Latest, Ready
  <2>3. \A c \in Callers : Ordinary(c)'
    BY <2>1 DEF NInv, Ordinary, Writing, Composed, Building
  <2> QED
    BY <2>2, <2>3 DEF NInv
<1> QED
  BY <1>1, <1>2, <1>3, NewestEnter, NewestAdmit, NewestFinish DEF Next, Continue

\* A host whose frontends write through SourceWriter loses no admitted write: when nobody is
\* between admission and commit and no failure is recorded, the served plan is the compilation
\* of the newest intent.
THEOREM NewestServed ==
  ASSUME Entries \subseteq {"writer", "reject"}
  PROVE  Spec => []ServesNewestIntent
<1>0. Scopes
  BY DEF Scopes
<1>1. Init => NInv
  BY DEF Init, NInv, Latest, Ordinary, Writing, Composed, Building
<1>2. NInv => ServesNewestIntent
  BY DEF NInv, Latest, Ready, ServesNewestIntent
<1>3. IInv /\ NInv /\ [Next]_vars => NInv'
  BY <1>0, NewestStep
<1> QED
  BY <1>1, <1>2, <1>3, InvariantInit, InvariantStep, PTL DEF Spec
=============================================================================
