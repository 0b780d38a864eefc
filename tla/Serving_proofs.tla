--------------------------- MODULE Serving_proofs ---------------------------
(***************************************************************************)
(* Proofs about what a process keeps while it serves: the admission of     *)
(* connections, for every capacity and number of accept loops, the log     *)
(* sinks, for every number of files, writers, lines and policies, the      *)
(* server, the tasks of plugins, and the budget of the blocking work they  *)
(* give away (Blocking), for every number of jobs, every declared memory   *)
(* and every set of limits.                                                *)
(***************************************************************************)
EXTENDS Server, Admission, Plugins, Sinks, Blocking, FiniteSetTheorems, TLAPS

-----------------------------------------------------------------------------
(* Admission.  The inductive invariant is the accounting: every permit is  *)
(* idle, grabbed or held, none is missing and none that was withdrawn is   *)
(* idle.                                                                   *)

IInv == TypeOK /\ waiting + grabbed <= MaxWaiters /\ Accounted /\ NeverShort /\ ShrinksFirst

LEMMA InitInv == Init => IInv
  BY AdmissionAssumption DEF Init, IInv, TypeOK, Accounted, NeverShort, ShrinksFirst

LEMMA StepInv == IInv /\ [Next]_vars => IInv'
  <1> SUFFICES ASSUME IInv, [Next]_vars PROVE IInv'
    OBVIOUS
  <1> USE AdmissionAssumption DEF IInv, TypeOK, Accounted, NeverShort, ShrinksFirst
  <1>1. ASSUME NEW n \in 0..MaxCapacity, Resize(n) PROVE IInv'
    BY <1>1 DEF Resize, Least
  <1>2. CASE Reserve
    BY <1>2 DEF Reserve
  <1>3. CASE Abandon
    BY <1>3 DEF Abandon
  <1>4. CASE Grab
    BY <1>4 DEF Grab
  <1>5. CASE Shrink
    BY <1>5 DEF Shrink
  <1>6. CASE Admit
    BY <1>6 DEF Admit
  <1>7. CASE Release
    BY <1>7 DEF Release
  <1>8. CASE UNCHANGED vars
    BY <1>8 DEF vars
  <1> QED
    BY <1>1, <1>2, <1>3, <1>4, <1>5, <1>6, <1>7, <1>8 DEF Next

LEMMA Invariant == Spec => []IInv
  BY InitInv, StepInv, PTL DEF Spec

\* The counters of connection_admission.rs never leave their range: no
\* unsigned subtraction of resize, acquire or Permit::drop wraps.
THEOREM CountersInRange == Spec => []TypeOK
  BY Invariant, PTL DEF IInv

\* resize, acquire and Permit::drop together lose no slot.
THEOREM NoSlotLost == Spec => []NoStrandedCapacity
  <1>1. IInv => NoStrandedCapacity
    BY AdmissionAssumption
    DEF IInv, TypeOK, Accounted, NeverShort, NoStrandedCapacity
  <1> QED
    BY <1>1, Invariant, PTL

\* acquire admits nobody beyond the limit in force.
THEOREM AdmissionBounded == Spec => NeverOverAdmits
  <1>1. IInv /\ [Next]_vars => [held' > held => held' <= wanted]_vars
    <2> SUFFICES ASSUME IInv, Next, held' > held PROVE held' <= wanted
      BY DEF vars
    <2> USE AdmissionAssumption DEF IInv, TypeOK, Accounted
    <2>1. CASE Admit
      BY <2>1 DEF Admit
    <2>2. CASE Release
      BY <2>2 DEF Release
    <2>3. ASSUME NEW n \in 0..MaxCapacity, Resize(n) PROVE FALSE
      BY <2>3 DEF Resize
    <2>4. CASE Reserve \/ Abandon \/ Grab \/ Shrink
      BY <2>4 DEF Reserve, Abandon, Grab, Shrink
    <2> QED
      BY <2>1, <2>2, <2>3, <2>4 DEF Next
  <1> QED
    BY <1>1, Invariant, PTL DEF Spec, NeverOverAdmits

-----------------------------------------------------------------------------
(* Sinks.  OneWriterPerFile is not inductive: a second writer could be     *)
(* started for a file whose first one has been forgotten.  What keeps it   *)
(* out is that the registry forgets a writer only once it is done, so that *)
(* every writer at work is the one registered for its file                 *)
(* (ActiveRegistered).                                                     *)

PolicySet == [size : Nat, keep : Nat]
Workers == {"running", "stopping", "closed", "done", "gone"}
SinkRecord ==
    [name : LogNames, queued : Nat, closed : BOOLEAN, policy : PolicySet, kept : Nat, worker : Workers,
     file : BOOLEAN, accepted : Nat, written : Nat, lost : Nat, dropped : Nat, waiting : BOOLEAN]
Ask == [name : LogNames, sink : Nat, policy : PolicySet]

SinkTypeOK ==
    /\ sinks \in Seq(SinkRecord)
    /\ registry.open = [f \in DOMAIN registry.open |-> registry.open[f]]
    /\ registry = [open |-> registry.open, closed |-> registry.closed]
    /\ stage \in [asked : SUBSET Ask, failed : BOOLEAN, count : Nat]
    /\ published \in SUBSET Ask

\* A writer that has not said it is done is the one registered for its file.
Active(w) == w.worker \notin {"done", "gone"}
ActiveRegistered ==
    \A s \in DOMAIN sinks : Active(sinks[s]) =>
        sinks[s].name \in DOMAIN registry.open /\ registry.open[sinks[s].name] = s
RegisteredByName ==
    \A f \in DOMAIN registry.open : registry.open[f] \in DOMAIN sinks /\ sinks[registry.open[f]].name = f

\* No line is unaccounted for, and a writer that is not running has a closed queue, so none can come.
LinesKept(w) ==
    /\ w.accepted = w.queued + w.written + w.lost
    /\ w.worker # "running" => w.queued = 0 /\ w.closed
LinesSafe == \A s \in DOMAIN sinks : LinesKept(sinks[s])

\* A generation asks for the sink of the file it names, with one policy.
Coherent(asked) ==
    /\ \A a \in asked : a.sink \in DOMAIN sinks /\ sinks[a.sink].name = a.name
    /\ \A a, b \in asked : a.name = b.name => a.policy = b.policy

SinksInv ==
    /\ SinkTypeOK
    /\ ActiveRegistered /\ RegisteredByName
    /\ LinesSafe
    /\ Coherent(stage.asked) /\ Coherent(published)
    /\ PolicyOfPublished

-----------------------------------------------------------------------------
(* Lemmas.                                                                 *)

\* A function on the domain of a sequence, with values in a set, is a sequence of that set.
LEMMA SameDomain ==
    ASSUME NEW S, NEW q \in Seq(S), NEW g, g = [i \in DOMAIN q |-> g[i]],
           \A i \in DOMAIN q : g[i] \in S
    PROVE  g \in Seq(S) /\ Len(g) = Len(q) /\ DOMAIN g = DOMAIN q
<1>1. DOMAIN q = 1..Len(q) /\ Len(q) \in Nat
  OBVIOUS
<1>2. g \in [1..Len(q) -> S]
  BY <1>1
<1>. QED
  BY <1>1, <1>2

\* What the steps of writers, requests and holders have in common: sinks keep their names and policies,
\* writers do not come back, and the registry is left alone.
LEMMA Evolves ==
    ASSUME SinksInv,
           sinks' = [s \in DOMAIN sinks |-> sinks'[s]],
           \A s \in DOMAIN sinks :
              /\ sinks'[s] \in SinkRecord
              /\ sinks'[s].name = sinks[s].name
              /\ sinks'[s].policy = sinks[s].policy
              /\ LinesKept(sinks'[s])
              /\ Active(sinks'[s]) => Active(sinks[s]),
           registry'.open = registry.open,
           registry' = [open |-> registry'.open, closed |-> registry'.closed],
           stage' \in [asked : SUBSET Ask, failed : BOOLEAN, count : Nat],
           stage'.asked \in {stage.asked, {}},
           published' = published
    PROVE  SinksInv'
<1>1. sinks' \in Seq(SinkRecord) /\ DOMAIN sinks' = DOMAIN sinks
  BY SameDomain DEF SinksInv, SinkTypeOK
<1>2. SinkTypeOK'
  BY <1>1 DEF SinksInv, SinkTypeOK
<1>3. ActiveRegistered'
  BY <1>1 DEF SinksInv, ActiveRegistered
<1>4. RegisteredByName'
  BY <1>1 DEF SinksInv, RegisteredByName
<1>5. LinesSafe'
  BY <1>1 DEF SinksInv, LinesSafe
<1>6. Coherent(stage.asked)' /\ Coherent(published)'
  BY <1>1 DEF SinksInv, Coherent
<1>7. PolicyOfPublished'
  BY <1>1 DEF SinksInv, Coherent, PolicyOfPublished
<1>. QED
  BY <1>2, <1>3, <1>4, <1>5, <1>6, <1>7 DEF SinksInv

-----------------------------------------------------------------------------
(* One lemma per action.                                                   *)

LEMMA InitSafe == SinkInit => SinksInv
<1>. SUFFICES ASSUME SinkInit PROVE SinksInv
  OBVIOUS
<1>1. SinkTypeOK
  BY DEF SinkInit, SinkTypeOK, NoSinkStage
<1>2. DOMAIN sinks = {} /\ DOMAIN registry.open = {} /\ stage.asked = {} /\ published = {}
  BY DEF SinkInit, NoSinkStage
<1>. QED
  BY <1>1, <1>2 DEF SinksInv, ActiveRegistered, RegisteredByName, LinesSafe, Coherent, PolicyOfPublished

\* The registry as it is after reaping: no entry but those of finished writers is gone.
LEMMA ReapKeeps ==
    ASSUME SinksInv, NEW open, open = Reap(registry.open)
    PROVE  /\ open = [f \in DOMAIN open |-> open[f]]
           /\ \A f \in DOMAIN open : f \in DOMAIN registry.open /\ open[f] = registry.open[f]
           /\ \A s \in DOMAIN sinks : Active(sinks[s]) =>
                 sinks[s].name \in DOMAIN open /\ open[sinks[s].name] = s
  BY DEF SinksInv, Reap, Finished, ActiveRegistered, RegisteredByName, Active

\* What a request for a sink leaves of the stage is coherent when the sink is the file's.
LEMMA AsksCoherent ==
    ASSUME SinksInv, NEW name \in LogNames, NEW policy \in PolicySet, NEW s \in Nat,
           stage' = Asks(name, policy, s),
           \A t \in DOMAIN sinks : t \in DOMAIN sinks' /\ sinks'[t].name = sinks[t].name,
           s \in DOMAIN sinks' /\ sinks'[s].name = name
    PROVE  /\ stage' \in [asked : SUBSET Ask, failed : BOOLEAN, count : Nat]
           /\ Coherent(stage.asked)'
<1>. DEFINE new == [name |-> name, sink |-> s, policy |-> policy]
<1>1. new \in Ask
  BY DEF Ask
<1>2. CASE \E a \in stage.asked : a.name = name /\ a.policy # policy
  <2>1. stage' = [stage EXCEPT !.failed = TRUE]
    BY <1>2 DEF Asks
  <2>. QED
    BY <2>1 DEF SinksInv, SinkTypeOK, Coherent
<1>3. CASE ~ \E a \in stage.asked : a.name = name /\ a.policy # policy
  <2>1. stage' = [stage EXCEPT !.asked = @ \cup {new}]
    BY <1>3 DEF Asks
  <2>2. stage'.asked = stage.asked \cup {new} /\ stage' \in [asked : SUBSET Ask, failed : BOOLEAN, count : Nat]
    BY <1>1, <2>1 DEF SinksInv, SinkTypeOK
  <2>3. \A a \in stage'.asked : a.sink \in DOMAIN sinks' /\ sinks'[a.sink].name = a.name
    BY <2>2 DEF SinksInv, Coherent
  <2>4. \A a, b \in stage'.asked : a.name = b.name => a.policy = b.policy
    BY <1>3, <2>2 DEF SinksInv, Coherent
  <2>. QED
    BY <2>2, <2>3, <2>4 DEF Coherent
<1>. QED
  BY <1>2, <1>3

\* A request that fails marks the candidate and reaps the registry.
LEMMA FailsSafe ==
    ASSUME SinksInv, Fails, registry' = [registry EXCEPT !.open = Reap(registry.open)], UNCHANGED published
    PROVE  SinksInv'
<1>. DEFINE open == Reap(registry.open)
<1>0. /\ open = [f \in DOMAIN open |-> open[f]]
      /\ \A f \in DOMAIN open : f \in DOMAIN registry.open /\ open[f] = registry.open[f]
      /\ \A s \in DOMAIN sinks : Active(sinks[s]) =>
            sinks[s].name \in DOMAIN open /\ open[sinks[s].name] = s
  BY ReapKeeps
<1>1. sinks' = sinks /\ stage'.asked = stage.asked
      /\ stage' \in [asked : SUBSET Ask, failed : BOOLEAN, count : Nat]
  BY DEF Fails, SinksInv, SinkTypeOK
<1>2. registry'.open = open /\ registry' = [open |-> registry'.open, closed |-> registry'.closed]
  BY DEF SinksInv, SinkTypeOK
<1>. HIDE DEF open
<1>3. SinkTypeOK'
  BY <1>0, <1>1, <1>2 DEF SinksInv, SinkTypeOK
<1>4. ActiveRegistered' /\ RegisteredByName'
  BY <1>0, <1>1, <1>2 DEF SinksInv, ActiveRegistered, RegisteredByName
<1>5. LinesSafe' /\ PolicyOfPublished' /\ Coherent(published)' /\ Coherent(stage.asked)'
  BY <1>1 DEF SinksInv, LinesSafe, PolicyOfPublished, Coherent
<1>. QED
  BY <1>3, <1>4, <1>5 DEF SinksInv

\* A sink is shared, opened or refused.
LEMMA ResolvesSafe ==
    ASSUME SinksInv, NEW name \in LogNames, NEW policy \in PolicySet, Resolves(name, policy),
           UNCHANGED published
    PROVE  SinksInv'
<1>. DEFINE open == Reap(registry.open)
            found == Existing(open, name)
            new == Len(sinks) + 1
            grown == [f \in DOMAIN open \cup {name} |-> IF f = name THEN new ELSE open[f]]
<1>0. /\ open = [f \in DOMAIN open |-> open[f]]
      /\ \A f \in DOMAIN open : f \in DOMAIN registry.open /\ open[f] = registry.open[f]
      /\ \A s \in DOMAIN sinks : Active(sinks[s]) =>
            sinks[s].name \in DOMAIN open /\ open[sinks[s].name] = s
  BY ReapKeeps
<1>. HIDE DEF open
<1>1. CASE found = "shared" /\ Shared(name, policy, open[name]) /\ registry' = [registry EXCEPT !.open = open]
  <2>1. name \in DOMAIN open
    BY <1>1 DEF Existing
  <2>2. open[name] \in DOMAIN sinks /\ sinks[open[name]].name = name
    BY <1>0, <2>1 DEF SinksInv, RegisteredByName
  <2>3. sinks' = sinks /\ stage' = Asks(name, policy, open[name])
    BY <1>1 DEF Shared
  <2>4. open[name] \in Nat
    BY <2>2 DEF SinksInv, SinkTypeOK
  <2>5. stage' \in [asked : SUBSET Ask, failed : BOOLEAN, count : Nat] /\ Coherent(stage.asked)'
    BY <2>2, <2>3, <2>4, AsksCoherent
  <2>6. registry'.open = open /\ registry' = [open |-> registry'.open, closed |-> registry'.closed]
    BY <1>1 DEF SinksInv, SinkTypeOK
  <2>7. SinkTypeOK'
    BY <1>0, <2>3, <2>5, <2>6 DEF SinksInv, SinkTypeOK
  <2>8. ActiveRegistered' /\ RegisteredByName'
    BY <1>0, <2>3, <2>6 DEF SinksInv, ActiveRegistered, RegisteredByName
  <2>9. LinesSafe' /\ PolicyOfPublished' /\ Coherent(published)'
    BY <2>3 DEF SinksInv, LinesSafe, PolicyOfPublished, Coherent
  <2>. QED
    BY <2>5, <2>7, <2>8, <2>9 DEF SinksInv
<1>2. CASE /\ found = "free"
           /\ sinks' = Append(sinks, NewSink(name))
           /\ registry' = [registry EXCEPT !.open = grown]
           /\ stage' = Asks(name, policy, new)
  <2>1. name \notin DOMAIN open
    BY <1>2 DEF Existing
  <2>2. NewSink(name) \in SinkRecord /\ LinesKept(NewSink(name)) /\ NewSink(name).name = name
    BY DEF NewSink, SinkRecord, PolicySet, Never, Workers, LinesKept
  <2>3. /\ sinks' \in Seq(SinkRecord)
        /\ DOMAIN sinks' = DOMAIN sinks \cup {new} /\ new \notin DOMAIN sinks /\ new \in Nat
        /\ \A s \in DOMAIN sinks : sinks'[s] = sinks[s]
        /\ sinks'[new] = NewSink(name)
    BY <1>2, <2>2 DEF SinksInv, SinkTypeOK
  <2>4. stage' \in [asked : SUBSET Ask, failed : BOOLEAN, count : Nat] /\ Coherent(stage.asked)'
    BY <1>2, <2>2, <2>3, AsksCoherent
  <2>5. registry'.open = grown /\ registry' = [open |-> registry'.open, closed |-> registry'.closed]
    BY <1>2 DEF SinksInv, SinkTypeOK
  <2>6. SinkTypeOK'
    BY <2>3, <2>4, <2>5 DEF SinksInv, SinkTypeOK
  <2>7. ActiveRegistered'
    <3>. SUFFICES ASSUME NEW s \in DOMAIN sinks', Active(sinks'[s])
                  PROVE  sinks'[s].name \in DOMAIN grown /\ grown[sinks'[s].name] = s
      BY <2>5 DEF ActiveRegistered
    <3>1. CASE s = new
      BY <2>2, <2>3, <3>1
    <3>2. CASE s \in DOMAIN sinks
      BY <1>0, <2>1, <2>3, <3>2
    <3>. QED
      BY <2>3, <3>1, <3>2
  <2>8. RegisteredByName'
    BY <1>0, <2>1, <2>2, <2>3, <2>5 DEF SinksInv, RegisteredByName
  <2>9. LinesSafe'
    BY <2>2, <2>3 DEF SinksInv, LinesSafe
  <2>10. PolicyOfPublished' /\ Coherent(published)'
    BY <2>3 DEF SinksInv, PolicyOfPublished, Coherent
  <2>. QED
    BY <2>4, <2>6, <2>7, <2>8, <2>9, <2>10 DEF SinksInv
<1>3. CASE Fails /\ registry' = [registry EXCEPT !.open = open]
  BY <1>3, FailsSafe DEF open
<1>. QED
  BY <1>1, <1>2, <1>3 DEF Resolves, open

LEMMA StageSafe ==
    ASSUME SinksInv, \/ \E f \in LogFiles, p \in Policies : StageFile(f, p)
                     \/ StageStderr
    PROVE  SinksInv'
<1>1. ASSUME NEW f \in LogFiles, NEW p \in Policies, StageFile(f, p)
      PROVE  SinksInv'
  <2>1. f \in LogNames /\ p \in PolicySet
    BY SinksAssumption DEF LogNames, PolicySet
  <2>. QED
    BY <1>1, <2>1, ResolvesSafe, FailsSafe DEF StageFile
<1>2. CASE StageStderr
  <2>1. Stderr \in LogNames /\ Never \in PolicySet
    BY DEF LogNames, PolicySet, Never
  <2>. QED
    BY <1>2, <2>1, ResolvesSafe DEF StageStderr
<1>. QED
  BY <1>1, <1>2

\* Closing a queue changes nothing that is accounted for.
LEMMA ClosedSafe ==
    ASSUME NEW w \in SinkRecord, LinesKept(w)
    PROVE  LET c == [w EXCEPT !.closed = TRUE]
           IN  c \in SinkRecord /\ c.name = w.name /\ c.policy = w.policy /\ LinesKept(c) /\ Active(c) = Active(w)
  BY DEF SinkRecord, LinesKept, Active

LEMMA DroppedSafe ==
    ASSUME SinksInv, NEW kept, sinks' = Dropped(kept), UNCHANGED <<registry, published>>,
           stage' \in [asked : SUBSET Ask, failed : BOOLEAN, count : Nat],
           stage'.asked \in {stage.asked, {}}
    PROVE  SinksInv'
<1>1. \A s \in DOMAIN sinks : sinks[s] \in SinkRecord /\ LinesKept(sinks[s])
  BY DEF SinksInv, SinkTypeOK, LinesSafe
<1>2. sinks' = [s \in DOMAIN sinks |-> sinks'[s]]
  BY DEF Dropped
<1>3. \A s \in DOMAIN sinks : sinks'[s] = sinks[s] \/ sinks'[s] = [sinks[s] EXCEPT !.closed = TRUE]
  BY DEF Dropped
<1>4. \A s \in DOMAIN sinks :
        /\ sinks'[s] \in SinkRecord
        /\ sinks'[s].name = sinks[s].name
        /\ sinks'[s].policy = sinks[s].policy
        /\ LinesKept(sinks'[s])
        /\ Active(sinks'[s]) => Active(sinks[s])
  BY <1>1, <1>3, ClosedSafe
<1>5. registry' = [open |-> registry'.open, closed |-> registry'.closed]
  BY DEF SinksInv, SinkTypeOK
<1>. QED
  BY <1>2, <1>4, <1>5, Evolves

LEMMA ClearedStage ==
    ASSUME SinksInv, stage' = [NoSinkStage EXCEPT !.count = stage.count + 1]
    PROVE  stage' \in [asked : SUBSET Ask, failed : BOOLEAN, count : Nat] /\ stage'.asked = {}
<1>1. NoSinkStage \in [asked : SUBSET Ask, failed : BOOLEAN, count : Nat] /\ NoSinkStage.asked = {}
  BY DEF NoSinkStage
<1>2. stage.count + 1 \in Nat
  BY DEF SinksInv, SinkTypeOK
<1>. QED
  BY <1>1, <1>2

LEMMA AbandonSafe == SinksInv /\ AbandonStage => SinksInv'
<1>. SUFFICES ASSUME SinksInv, AbandonStage PROVE SinksInv'
  OBVIOUS
<1>1. stage' \in [asked : SUBSET Ask, failed : BOOLEAN, count : Nat] /\ stage'.asked = {}
  BY ClearedStage DEF AbandonStage
<1>. QED
  BY <1>1, DroppedSafe DEF AbandonStage

LEMMA RetiredSafe == ASSUME SinksInv, NEW g \in outgoing, RetiredEnds(g) PROVE SinksInv'
<1>1. stage' \in [asked : SUBSET Ask, failed : BOOLEAN, count : Nat] /\ stage'.asked = stage.asked
  BY DEF RetiredEnds, SinksInv, SinkTypeOK
<1>. QED
  BY <1>1, DroppedSafe DEF RetiredEnds

\* Publication gives each sink of the candidate the one policy it asked for.
LEMMA PublishSafe == SinksInv /\ PublishStage => SinksInv'
<1>. SUFFICES ASSUME SinksInv, PublishStage PROVE SinksInv'
  OBVIOUS
<1>. DEFINE asks(s) == \E a \in stage.asked : a.sink = s
            pick(s) == CHOOSE a \in stage.asked : a.sink = s
<1>1. /\ sinks' = [s \in DOMAIN sinks |-> [sinks[s] EXCEPT !.policy = IF asks(s) THEN pick(s).policy ELSE @]]
      /\ published' = stage.asked
      /\ registry' = registry
  BY DEF PublishStage
<1>2. stage' \in [asked : SUBSET Ask, failed : BOOLEAN, count : Nat] /\ stage'.asked = {}
  BY ClearedStage DEF PublishStage
<1>3. \A s \in DOMAIN sinks : asks(s) => pick(s) \in stage.asked /\ pick(s).sink = s
  OBVIOUS
<1>4. stage.asked \in SUBSET Ask /\ \A s \in DOMAIN sinks : sinks[s] \in SinkRecord
  BY DEF SinksInv, SinkTypeOK
<1>5. ASSUME NEW s \in DOMAIN sinks
      PROVE  /\ sinks'[s] \in SinkRecord
             /\ sinks'[s].name = sinks[s].name /\ sinks'[s].worker = sinks[s].worker
             /\ LinesKept(sinks'[s])
             /\ asks(s) => sinks'[s].policy = pick(s).policy
  <2>1. LinesKept(sinks[s])
    BY DEF SinksInv, LinesSafe
  <2>2. asks(s) => pick(s).policy \in PolicySet
    BY <1>3, <1>4 DEF Ask
  <2>3. CASE asks(s)
    <3>. DEFINE p == pick(s).policy
    <3>1. sinks'[s] = [sinks[s] EXCEPT !.policy = p]
      BY <1>1, <2>3
    <3>2. p \in PolicySet
      BY <2>2, <2>3
    <3>. HIDE DEF p, asks, pick
    <3>3. sinks'[s] \in SinkRecord /\ LinesKept(sinks'[s]) /\ sinks'[s].policy = p
          /\ sinks'[s].name = sinks[s].name /\ sinks'[s].worker = sinks[s].worker
      BY <1>4, <2>1, <3>1, <3>2 DEF SinkRecord, LinesKept
    <3>. QED
      BY <3>3 DEF p
  <2>4. CASE ~asks(s)
    <3>1. sinks'[s] = sinks[s]
      BY <1>1, <1>4, <2>4 DEF SinkRecord
    <3>. QED
      BY <1>4, <2>1, <2>4, <3>1
  <2>. QED
    BY <2>3, <2>4
<1>6. sinks' = [s \in DOMAIN sinks |-> sinks'[s]] /\ registry' = registry /\ published' = stage.asked
  BY <1>1
<1>. HIDE DEF asks, pick
<1>7. sinks' \in Seq(SinkRecord) /\ DOMAIN sinks' = DOMAIN sinks
  BY <1>5, <1>6, SameDomain DEF SinksInv, SinkTypeOK
<1>8. SinkTypeOK'
  BY <1>2, <1>4, <1>6, <1>7 DEF SinksInv, SinkTypeOK
<1>9. ActiveRegistered' /\ RegisteredByName'
  BY <1>5, <1>6, <1>7 DEF SinksInv, ActiveRegistered, RegisteredByName, Active
<1>10. LinesSafe'
  BY <1>5, <1>7 DEF LinesSafe
<1>11. Coherent(stage.asked)' /\ Coherent(published)'
  BY <1>2, <1>5, <1>6, <1>7 DEF SinksInv, Coherent
<1>12. PolicyOfPublished'
  <2>. SUFFICES ASSUME NEW a \in stage.asked PROVE sinks'[a.sink].policy = a.policy
    BY <1>6 DEF PolicyOfPublished
  <2>1. a.sink \in DOMAIN sinks /\ asks(a.sink)
    BY DEF SinksInv, Coherent, asks
  <2>2. pick(a.sink) \in stage.asked /\ pick(a.sink).sink = a.sink
    BY <1>3, <2>1
  <2>3. pick(a.sink).name = a.name
    BY <2>2 DEF SinksInv, Coherent
  <2>. QED
    BY <1>5, <2>1, <2>2, <2>3 DEF SinksInv, Coherent
<1>. QED
  BY <1>8, <1>9, <1>10, <1>11, <1>12 DEF SinksInv

\* A step of one sink or its writer.
LEMMA OneSinkSafe ==
    ASSUME SinksInv, NEW s \in DOMAIN sinks, NEW w \in SinkRecord, sinks' = [sinks EXCEPT ![s] = w],
           w.name = sinks[s].name, w.policy = sinks[s].policy, LinesKept(w), Active(w) => Active(sinks[s]),
           UNCHANGED <<registry, stage, published>>
    PROVE  SinksInv'
<1>1. \A t \in DOMAIN sinks : sinks[t] \in SinkRecord /\ LinesKept(sinks[t])
  BY DEF SinksInv, SinkTypeOK, LinesSafe
<1>2. sinks' = [t \in DOMAIN sinks |-> sinks'[t]]
  BY DEF SinksInv, SinkTypeOK
<1>3. \A t \in DOMAIN sinks : sinks'[t] = IF t = s THEN w ELSE sinks[t]
  BY DEF SinksInv, SinkTypeOK
<1>4. /\ registry' = [open |-> registry'.open, closed |-> registry'.closed]
      /\ stage' \in [asked : SUBSET Ask, failed : BOOLEAN, count : Nat]
  BY DEF SinksInv, SinkTypeOK
<1>. QED
  BY <1>1, <1>2, <1>3, <1>4, Evolves

\* The three ways a line is counted.
LEMMA TakenSafe ==
    ASSUME NEW v \in SinkRecord, LinesKept(v), ~v.closed
    PROVE  /\ Taken(v) \in SinkRecord /\ LinesKept(Taken(v))
           /\ Taken(v).name = v.name /\ Taken(v).policy = v.policy /\ Taken(v).worker = v.worker
<1>. DEFINE q == v.queued + 1
            a == v.accepted + 1
<1>1. q \in Nat /\ a \in Nat /\ a = q + v.written + v.lost
  BY DEF SinkRecord, LinesKept
<1>2. Taken(v) = [v EXCEPT !.queued = q, !.accepted = a]
  BY DEF Taken
<1>3. v.worker = "running"
  BY Zenon DEF LinesKept
<1>. HIDE DEF q, a
<1>4. Taken(v) \in SinkRecord
  BY <1>1, <1>2 DEF SinkRecord
<1>5. /\ Taken(v).name = v.name /\ Taken(v).policy = v.policy /\ Taken(v).worker = v.worker
      /\ Taken(v).queued = q /\ Taken(v).accepted = a /\ Taken(v).written = v.written /\ Taken(v).lost = v.lost
  BY <1>2 DEF SinkRecord
<1>6. LinesKept(Taken(v))
  BY <1>1, <1>3, <1>5 DEF LinesKept
<1>. QED
  BY <1>4, <1>5, <1>6

LEMMA LostSafe ==
    ASSUME NEW v \in SinkRecord, LinesKept(v), v.worker = "running", v.queued > 0
    PROVE  /\ Lost(v) \in SinkRecord /\ LinesKept(Lost(v))
           /\ Lost(v).name = v.name /\ Lost(v).policy = v.policy /\ Lost(v).worker = v.worker
<1>. DEFINE q == v.queued - 1
            l == v.lost + 1
<1>1. q \in Nat /\ l \in Nat /\ v.accepted = q + v.written + l
  BY DEF SinkRecord, LinesKept
<1>2. Lost(v) = [v EXCEPT !.queued = q, !.lost = l]
  BY DEF Lost
<1>. HIDE DEF q, l
<1>. QED
  BY <1>1, <1>2 DEF SinkRecord, LinesKept

LEMMA WroteSafe ==
    ASSUME NEW v \in SinkRecord, LinesKept(v), v.worker = "running", v.queued > 0
    PROVE  /\ Wrote(v) \in SinkRecord /\ LinesKept(Wrote(v))
           /\ Wrote(v).name = v.name /\ Wrote(v).policy = v.policy /\ Wrote(v).worker = v.worker
<1>. DEFINE q == v.queued - 1
            n == v.written + 1
<1>1. q \in Nat /\ n \in Nat /\ v.accepted = q + n + v.lost
  BY DEF SinkRecord, LinesKept
<1>2. Wrote(v) = [v EXCEPT !.queued = q, !.written = n, !.file = TRUE]
  BY DEF Wrote
<1>. HIDE DEF q, n
<1>. QED
  BY <1>1, <1>2 DEF SinkRecord, LinesKept

LEMMA WriteSafe == ASSUME SinksInv, NEW s \in DOMAIN sinks, SinkWrite(s) PROVE SinksInv'
<1>. DEFINE v == sinks[s]
            w == IF v.closed \/ v.queued = QueueLimit THEN Refused(v) ELSE Taken(v)
<1>1. v \in SinkRecord /\ LinesKept(v)
  BY DEF SinksInv, SinkTypeOK, LinesSafe
<1>2. sinks' = [sinks EXCEPT ![s] = w] /\ UNCHANGED <<registry, stage, published>>
  BY DEF SinkWrite
<1>. HIDE DEF v
<1>3. /\ Refused(v) \in SinkRecord /\ LinesKept(Refused(v))
      /\ Refused(v).name = v.name /\ Refused(v).policy = v.policy /\ Refused(v).worker = v.worker
  <2>1. v.dropped + 1 \in Nat
    BY <1>1 DEF SinkRecord
  <2>. QED
    BY <1>1, <2>1 DEF SinkRecord, LinesKept, Refused
<1>4. ~v.closed => /\ Taken(v) \in SinkRecord /\ LinesKept(Taken(v))
                   /\ Taken(v).name = v.name /\ Taken(v).policy = v.policy /\ Taken(v).worker = v.worker
  BY <1>1, TakenSafe
<1>5. w \in SinkRecord /\ w.name = v.name /\ w.policy = v.policy /\ w.worker = v.worker /\ LinesKept(w)
  BY <1>3, <1>4
<1>. HIDE DEF w
<1>. QED
  BY <1>2, <1>5, OneSinkSafe DEF v, Active

LEMMA WritesSafe == ASSUME SinksInv, NEW s \in DOMAIN sinks, WriterWrites(s) PROVE SinksInv'
<1>. DEFINE v == sinks[s]
<1>1. v \in SinkRecord /\ LinesKept(v)
  BY DEF SinksInv, SinkTypeOK, LinesSafe
<1>2. v.worker = "running" /\ v.queued > 0 /\ UNCHANGED <<registry, stage, published>>
  BY DEF WriterWrites
<1>3. PICK w \in {Lost(v), Wrote(v), [Wrote(v) EXCEPT !.kept = v.policy.keep], [Wrote(v) EXCEPT !.file = FALSE]} :
          sinks' = [sinks EXCEPT ![s] = w]
  BY DEF WriterWrites
<1>. HIDE DEF v
<1>4. v.queued - 1 \in Nat /\ v.policy.keep \in Nat
  BY <1>1, <1>2 DEF SinkRecord, PolicySet
<1>5. Lost(v) \in SinkRecord /\ LinesKept(Lost(v)) /\ Lost(v).name = v.name /\ Lost(v).policy = v.policy
      /\ Lost(v).worker = v.worker
  BY <1>1, <1>2, LostSafe
<1>6. Wrote(v) \in SinkRecord /\ LinesKept(Wrote(v)) /\ Wrote(v).name = v.name /\ Wrote(v).policy = v.policy
      /\ Wrote(v).worker = v.worker
  BY <1>1, <1>2, WroteSafe
<1>7. \A u \in SinkRecord, k \in Nat :
        LinesKept(u) => LET x == [u EXCEPT !.kept = k]
                        IN  x \in SinkRecord /\ LinesKept(x) /\ x.name = u.name /\ x.policy = u.policy
                            /\ x.worker = u.worker
  BY DEF SinkRecord, LinesKept
<1>8. \A u \in SinkRecord :
        LinesKept(u) => LET x == [u EXCEPT !.file = FALSE]
                        IN  x \in SinkRecord /\ LinesKept(x) /\ x.name = u.name /\ x.policy = u.policy
                            /\ x.worker = u.worker
  BY DEF SinkRecord, LinesKept
<1>9. w \in SinkRecord /\ LinesKept(w) /\ w.name = v.name /\ w.policy = v.policy /\ w.worker = v.worker
  <2>1. CASE w = Lost(v)
    BY <1>5, <2>1
  <2>2. CASE w = Wrote(v)
    BY <1>6, <2>2
  <2>3. CASE w = [Wrote(v) EXCEPT !.kept = v.policy.keep]
    BY <1>4, <1>6, <1>7, <2>3
  <2>4. CASE w = [Wrote(v) EXCEPT !.file = FALSE]
    BY <1>6, <1>8, <2>4
  <2>. QED
    BY <1>3, <2>1, <2>2, <2>3, <2>4
<1>. QED
  BY <1>2, <1>3, <1>9, OneSinkSafe DEF v, Active

LEMMA EndsSafe ==
    ASSUME SinksInv, NEW s \in DOMAIN sinks,
           WriterStops(s) \/ WriterCloses(s) \/ WriterDone(s) \/ WriterWakes(s)
    PROVE  SinksInv'
<1>. DEFINE v == sinks[s]
<1>1. v \in SinkRecord /\ LinesKept(v)
  BY DEF SinksInv, SinkTypeOK, LinesSafe
<1>2. UNCHANGED <<registry, stage, published>>
  BY DEF WriterStops, WriterCloses, WriterDone, WriterWakes
<1>3. PICK w : /\ sinks' = [sinks EXCEPT ![s] = w]
               /\ \/ v.worker = "running" /\ v.queued = 0 /\ v.closed /\ w = [v EXCEPT !.worker = "stopping"]
                  \/ v.worker = "stopping" /\ w = [v EXCEPT !.file = FALSE, !.worker = "closed"]
                  \/ v.worker = "closed" /\ w = [v EXCEPT !.worker = "done"]
                  \/ v.worker = "done" /\ w = [v EXCEPT !.worker = "gone", !.waiting = FALSE]
  <2>1. CASE WriterStops(s)
    BY <2>1 DEF WriterStops
  <2>2. CASE WriterCloses(s)
    BY <2>2 DEF WriterCloses
  <2>3. CASE WriterDone(s)
    BY <2>3 DEF WriterDone
  <2>4. CASE WriterWakes(s)
    BY <2>4 DEF WriterWakes
  <2>. QED
    BY <2>1, <2>2, <2>3, <2>4
<1>. HIDE DEF v
<1>4. w \in SinkRecord /\ LinesKept(w) /\ w.name = v.name /\ w.policy = v.policy /\ (Active(w) => Active(v))
  BY <1>1, <1>3 DEF SinkRecord, LinesKept, Active, Workers
<1>. QED
  BY <1>2, <1>3, <1>4, OneSinkSafe DEF v

\* A shutdown closes queues and reaps the registry once more.
LEMMA ShutdownSafe == SinksInv /\ SinksShutdown => SinksInv'
<1>. SUFFICES ASSUME SinksInv, SinksShutdown PROVE SinksInv'
  OBVIOUS
<1>. DEFINE open == Reap(registry.open)
            workers == {open[f] : f \in DOMAIN open}
<1>0. /\ open = [f \in DOMAIN open |-> open[f]]
      /\ \A f \in DOMAIN open : f \in DOMAIN registry.open /\ open[f] = registry.open[f]
      /\ \A s \in DOMAIN sinks : Active(sinks[s]) =>
            sinks[s].name \in DOMAIN open /\ open[sinks[s].name] = s
  BY ReapKeeps
<1>1. /\ registry' = [open |-> open, closed |-> TRUE]
      /\ sinks' = [s \in DOMAIN sinks |-> IF s \in workers THEN [sinks[s] EXCEPT !.closed = TRUE] ELSE sinks[s]]
      /\ UNCHANGED <<stage, published>>
  BY DEF SinksShutdown
<1>. HIDE DEF open, workers
<1>2. \A s \in DOMAIN sinks : sinks[s] \in SinkRecord /\ LinesKept(sinks[s])
  BY DEF SinksInv, SinkTypeOK, LinesSafe
<1>3. /\ sinks' = [s \in DOMAIN sinks |-> sinks'[s]]
      /\ \A s \in DOMAIN sinks : sinks'[s] = sinks[s] \/ sinks'[s] = [sinks[s] EXCEPT !.closed = TRUE]
  BY <1>1
<1>4. \A s \in DOMAIN sinks :
        /\ sinks'[s] \in SinkRecord /\ LinesKept(sinks'[s])
        /\ sinks'[s].name = sinks[s].name /\ sinks'[s].policy = sinks[s].policy
        /\ Active(sinks'[s]) => Active(sinks[s])
  BY <1>2, <1>3, ClosedSafe
<1>5. sinks' \in Seq(SinkRecord) /\ DOMAIN sinks' = DOMAIN sinks
  BY <1>3, <1>4, SameDomain DEF SinksInv, SinkTypeOK
<1>6. registry'.open = open /\ registry' = [open |-> registry'.open, closed |-> registry'.closed]
  BY <1>1
<1>7. SinkTypeOK'
  BY <1>0, <1>1, <1>5, <1>6 DEF SinksInv, SinkTypeOK
<1>8. ActiveRegistered' /\ RegisteredByName'
  BY <1>0, <1>4, <1>5, <1>6 DEF SinksInv, ActiveRegistered, RegisteredByName
<1>9. LinesSafe' /\ Coherent(stage.asked)' /\ Coherent(published)'
  BY <1>1, <1>4, <1>5 DEF SinksInv, LinesSafe, Coherent
<1>10. PolicyOfPublished'
  BY <1>1, <1>4, <1>5 DEF SinksInv, PolicyOfPublished, Coherent
<1>. QED
  BY <1>7, <1>8, <1>9, <1>10 DEF SinksInv

LEMMA DrainSafe == SinksInv /\ (DrainPolls \/ DrainTests) => SinksInv'
<1>. SUFFICES ASSUME SinksInv, DrainPolls \/ DrainTests PROVE SinksInv'
  OBVIOUS
<1>1. \A s \in DOMAIN sinks : sinks[s] \in SinkRecord /\ LinesKept(sinks[s])
  BY DEF SinksInv, SinkTypeOK, LinesSafe
<1>2. /\ sinks' = [s \in DOMAIN sinks |-> sinks'[s]]
      /\ \A s \in DOMAIN sinks : sinks'[s] = sinks[s] \/ sinks'[s] = [sinks[s] EXCEPT !.waiting = TRUE]
      /\ UNCHANGED <<registry, stage, published>>
  <2>1. CASE DrainPolls
    BY <2>1 DEF DrainPolls
  <2>2. CASE DrainTests
    BY <2>2 DEF DrainTests, SinksInv, SinkTypeOK
  <2>. QED
    BY <2>1, <2>2
<1>3. \A w \in SinkRecord :
        LinesKept(w) => LET x == [w EXCEPT !.waiting = TRUE]
                        IN  x \in SinkRecord /\ LinesKept(x) /\ x.name = w.name /\ x.policy = w.policy
                            /\ Active(x) = Active(w)
  BY DEF SinkRecord, LinesKept, Active
<1>4. \A s \in DOMAIN sinks :
        /\ sinks'[s] \in SinkRecord /\ LinesKept(sinks'[s])
        /\ sinks'[s].name = sinks[s].name /\ sinks'[s].policy = sinks[s].policy
        /\ Active(sinks'[s]) => Active(sinks[s])
  BY <1>1, <1>2, <1>3
<1>5. /\ registry' = [open |-> registry'.open, closed |-> registry'.closed]
      /\ stage' \in [asked : SUBSET Ask, failed : BOOLEAN, count : Nat]
  BY <1>2 DEF SinksInv, SinkTypeOK
<1>. QED
  BY <1>2, <1>4, <1>5, Evolves

-----------------------------------------------------------------------------
(* Results.                                                                *)

LEMMA NextSafe == SinksInv /\ [SinkNext]_sinkVars => SinksInv'
<1>. SUFFICES ASSUME SinksInv, [SinkNext]_sinkVars PROVE SinksInv'
  OBVIOUS
<1>1. CASE UNCHANGED sinkVars
  BY <1>1 DEF sinkVars, SinksInv, SinkTypeOK, ActiveRegistered, RegisteredByName, LinesSafe, Coherent,
              PolicyOfPublished
<1>2. CASE SinkNext
  BY <1>2, StageSafe, AbandonSafe, PublishSafe, RetiredSafe, WriteSafe, WritesSafe, EndsSafe, ShutdownSafe,
     DrainSafe DEF SinkNext
<1>. QED
  BY <1>1, <1>2

LEMMA InvImpliesSound == SinksInv => SinksSound
<1>. SUFFICES ASSUME SinksInv PROVE SinksSound
  OBVIOUS
<1>1. OneWriterPerFile
  BY DEF SinksInv, ActiveRegistered, OneWriterPerFile, Active
<1>2. LinesAccounted
  BY DEF SinksInv, LinesSafe, LinesKept, LinesAccounted
<1>. QED
  BY <1>1, <1>2 DEF SinksSound, SinksInv

\* Log files are written by one thread each, every line taken is written or counted, and a writer follows
\* the policy of the generation in force (sink.rs), whatever is staged, given up, dropped or asked for
\* again, and however many files, writers and generations there are.
THEOREM WritersSound == SinkSpec => []SinksSound
<1>1. SinkInit => SinksInv
  BY InitSafe
<1>2. SinksInv /\ [SinkNext]_sinkVars => SinksInv'
  BY NextSafe
<1>3. SinksInv => SinksSound
  BY InvImpliesSound
<1>. QED
  BY <1>1, <1>2, <1>3, PTL DEF SinkSpec

-----------------------------------------------------------------------------
(* Sockets, accept loops and connections.  What is inductive: every open   *)
(* socket is in the index of reservations, at most one loop of an address  *)
(* has not been told to stop, and a loop that drains has been told to.     *)

Stages == [addresses : SUBSET Addresses, drains : BOOLEAN, on : BOOLEAN]
LoopStates ==
  [address : Addresses \cup {"none"}, pc : {"free", "accept", "admit", "pin", "drain"}, stop : BOOLEAN]
ConnStates ==
  [pc : {"none", "accepted", "serving"}, loop : Loops \cup {"none"}, generation : Nat, deadline : BOOLEAN]
ServerTypes ==
  /\ staged \in Stages
  /\ loop \in [Loops -> LoopStates]
  /\ conn \in [Conns -> ConnStates]
  /\ generation \in Nat
  /\ listening \subseteq Addresses
  /\ table \subseteq Addresses
  /\ closed \in BOOLEAN

Socketed == ~closed => listening \subseteq table
Reserved == \A a \in Addresses : Open(a) => a \in reserved
Draining == \A l \in Loops : loop[l].pc = "drain" => loop[l].stop
Distinct == \A l, m \in Loops : Task(l) /\ Task(m) /\ loop[l].address = loop[m].address => l = m
Listens ==
  act \in {"prune", "idle"} /\ ~closed =>
    /\ \A a \in listening : \E l \in Loops : Task(l) /\ loop[l].address = a
    /\ \A l \in Loops : Task(l) => loop[l].address \in listening
Owned(c) == conn[c].pc # "none" => conn[c].loop \in Loops /\ loop[conn[c].loop].pc # "free"
Limited(c) ==
  drains /\ act \in {"prune", "idle"} /\ ~closed =>
    (conn[c].pc = "serving" /\ conn[c].generation < generation => conn[c].deadline)

SInv ==
  /\ ServerTypes
  /\ Socketed /\ Reserved
  /\ Draining /\ Distinct /\ Listens
  /\ \A c \in Conns : Owned(c) /\ Limited(c)

LEMMA Blanks == NoStage \in Stages /\ NoLoop \in LoopStates /\ NoConn \in ConnStates
<1>1. NoStage \in Stages
  BY DEF NoStage, Stages
<1>2. NoLoop \in LoopStates
  BY DEF NoLoop, LoopStates
<1>3. NoConn \in ConnStates
  BY DEF NoConn, ConnStates
<1> QED
  BY <1>1, <1>2, <1>3

\* Steps on sockets alone.
LEMMA BindSteps ==
  ASSUME SInv, UNCHANGED <<loop, conn, closed>>, UNCHANGED committed,
         ServerTypes', Socketed', Reserved', act' \in {"prune", "idle"} => act \in {"prune", "idle"}
  PROVE  SInv'
<1>1. UNCHANGED <<generation, listening, drains>>
  BY DEF committed
<1>2. Draining' /\ Distinct' /\ Listens'
  BY <1>1 DEF SInv, Draining, Distinct, Listens, Task
<1>3. \A c \in Conns : Owned(c)' /\ Limited(c)'
  BY <1>1 DEF SInv, Owned, Limited
<1> QED
  BY <1>2, <1>3 DEF SInv

LEMMA StageSteps ==
  ASSUME SInv, NEW addresses \in SUBSET Addresses,
         (\E stops \in BOOLEAN : Stage(addresses, stops)) \/ StageFails(addresses)
  PROVE  SInv'
<1>1. /\ UNCHANGED <<table, retired, act, loop, conn, closed>> /\ UNCHANGED committed
      /\ act = "idle"
      /\ LiveSockets \subseteq reserved'
      /\ staged' = staged \/ (staged'.addresses = addresses /\ addresses \subseteq reserved'
            /\ staged' \in Stages)
  <2>1. ASSUME NEW stops \in BOOLEAN, Stage(addresses, stops) 
        PROVE  /\ UNCHANGED <<table, retired, act, loop, conn, closed>> /\ UNCHANGED committed
               /\ act = "idle"
               /\ LiveSockets \subseteq reserved'
               /\ staged' = staged \/ (staged'.addresses = addresses /\ addresses \subseteq reserved'
                     /\ staged' \in Stages)
    <3>1. /\ UNCHANGED <<table, retired, act, loop, conn, closed>> /\ UNCHANGED committed
          /\ act = "idle"
          /\ LiveSockets \subseteq reserved'
      BY <2>1 DEF Stage
    <3>2. staged'.addresses = addresses /\ addresses \subseteq reserved' /\ staged' \in Stages
      BY <2>1 DEF Stage, Stages
    <3> QED
      BY <3>1, <3>2
  <2>2. CASE StageFails(addresses)
    BY <2>2 DEF StageFails
  <2> QED
    BY <2>1, <2>2
<1>2. ServerTypes' /\ Socketed'
  BY <1>1 DEF SInv, ServerTypes, Socketed, committed
<1>3. Reserved'
  <2> SUFFICES ASSUME NEW a \in Addresses, Open(a)' PROVE a \in reserved'
    BY DEF Reserved
  <2>1. Open(a) \/ (a \in staged'.addresses /\ staged' # staged)
    BY <1>1 DEF Open
  <2>2. Open(a) => a \in LiveSockets
    BY DEF SInv, Reserved, LiveSockets
  <2> QED
    BY <1>1, <2>1, <2>2
<1> QED
  BY <1>1, <1>2, <1>3, BindSteps

LEMMA AdoptStep == ASSUME SInv, NEW a \in Addresses, Adopt(a) PROVE SInv'
<1>1. /\ UNCHANGED <<staged, retired, act, loop, conn, closed>> /\ UNCHANGED committed
      /\ table' = table \cup {a} /\ reserved' = reserved \cup {a}
  BY DEF Adopt
<1>2. ServerTypes' /\ Socketed'
  BY <1>1 DEF SInv, ServerTypes, Socketed, committed
<1>3. Reserved'
  BY <1>1 DEF SInv, Reserved, Open
<1> QED
  BY <1>1, <1>2, <1>3, BindSteps

LEMMA DropSteps == ASSUME SInv, Discard \/ Finish \/ Prune \/ ReleaseBinds PROVE SInv'
<1>1. /\ UNCHANGED <<reserved, loop, conn, closed>> /\ UNCHANGED committed
      /\ table' \subseteq table /\ retired' \subseteq retired
      /\ staged' = staged \/ staged' = NoStage
      /\ act' \in {"prune", "idle"} => act \in {"prune", "idle"}
      /\ closed \/ listening \cap table \subseteq table'
  BY DEF Discard, Finish, Prune, ReleaseBinds
<1>2. ServerTypes' /\ Socketed'
  BY <1>1, Blanks DEF SInv, ServerTypes, Socketed, committed
<1>3. Reserved'
  BY <1>1 DEF SInv, Reserved, Open, NoStage
<1> QED
  BY <1>1, <1>2, <1>3, BindSteps

LEMMA PublishStep == ASSUME SInv, Publish PROVE SInv'
<1>1. /\ generation' = generation + 1 /\ listening' = staged.addresses /\ drains' = staged.drains
      /\ retired' = table /\ table' = staged.addresses /\ staged' = NoStage /\ act' = "finish"
      /\ UNCHANGED <<reserved, loop, conn, closed>>
  BY DEF Publish
<1>2. ServerTypes' /\ Socketed'
  BY <1>1, Blanks DEF SInv, ServerTypes, Socketed, Stages
<1>3. Reserved'
  BY <1>1 DEF SInv, Reserved, Open, NoStage
<1>4. Draining' /\ Distinct' /\ Listens'
  BY <1>1 DEF SInv, Draining, Distinct, Listens, Task
<1>5. \A c \in Conns : Owned(c)' /\ Limited(c)'
  BY <1>1 DEF SInv, Owned, Limited
<1> QED
  BY <1>2, <1>3, <1>4, <1>5 DEF SInv

\* A loop that is alive moves, its address and its order to stop unchanged.
LEMMA LoopMoves ==
  ASSUME SInv, NEW l \in Loops, NEW x \in {"accept", "admit", "pin", "drain"}, loop[l].pc # "free",
         x = "drain" => loop[l].stop, loop' = [loop EXCEPT ![l].pc = x],
         UNCHANGED <<foreign, act, closed>>, UNCHANGED committed, UNCHANGED binds,
         conn' \in [Conns -> ConnStates],
         \A c \in Conns : \/ conn'[c] = conn[c] \/ conn'[c] = NoConn
                          \/ conn'[c].loop = l /\ (conn'[c].pc # "serving" \/ conn'[c].generation = generation)
  PROVE  SInv'
<1>1. UNCHANGED <<generation, listening, drains, table, reserved, staged, retired>>
  BY DEF committed, binds
<1>2. loop \in [Loops -> LoopStates]
  BY DEF SInv, ServerTypes
<1>3. \A m \in Loops : /\ loop'[m].address = loop[m].address /\ loop'[m].stop = loop[m].stop
                       /\ loop'[m].pc = "free" <=> loop[m].pc = "free"
                       /\ loop'[m].pc = loop[m].pc \/ (m = l /\ loop'[m].pc = x)
  BY <1>2
<1>4. ServerTypes'
  BY <1>1, <1>2 DEF SInv, ServerTypes, LoopStates
<1>5. Socketed' /\ Reserved'
  BY <1>1, <1>3 DEF SInv, Socketed, Reserved, Open
<1>6. \A m \in Loops : Task(m)' <=> Task(m)
  BY <1>3 DEF Task
<1>7. Draining' /\ Distinct' /\ Listens'
  BY <1>1, <1>3, <1>6 DEF SInv, Draining, Distinct, Listens
<1>8. ASSUME NEW c \in Conns PROVE Owned(c)' /\ Limited(c)'
  <2>1. Owned(c) /\ Limited(c) /\ generation \in Nat
    BY DEF SInv, ServerTypes
  <2>2. CASE conn'[c] = conn[c]
    BY <1>1, <1>3, <2>1, <2>2 DEF Owned, Limited
  <2>3. CASE conn'[c] = NoConn
    BY <2>3 DEF Owned, Limited, NoConn
  <2>4. CASE conn'[c].loop = l /\ (conn'[c].pc # "serving" \/ conn'[c].generation = generation)
    BY <1>1, <1>3, <2>1, <2>4 DEF Owned, Limited
  <2> QED
    BY <2>2, <2>3, <2>4
<1> QED
  BY <1>4, <1>5, <1>7, <1>8 DEF SInv

LEMMA AcceptSteps ==
  ASSUME SInv, NEW l \in Loops,
         AdmitAccepted(l) \/ Stop(l) \/ \E c \in Conns : Pin(l, c) \/ Accept(l, c)
  PROVE  SInv'
<1>0. /\ conn \in [Conns -> ConnStates]
      /\ generation \in Nat
      /\ NoConn \in ConnStates
  BY Blanks DEF SInv, ServerTypes
<1>1. CASE AdmitAccepted(l)
  <2>1. /\ loop[l].pc = "admit" /\ loop' = [loop EXCEPT ![l].pc = "pin"] /\ UNCHANGED <<foreign, act, closed, conn>>
        /\ UNCHANGED committed /\ UNCHANGED binds
    BY <1>1 DEF AdmitAccepted
  <2> QED
    BY <1>0, <2>1, LoopMoves
<1>2. CASE Stop(l)
  <2>1. /\ loop[l].pc \in {"accept", "admit"} /\ loop[l].stop /\ loop' = [loop EXCEPT ![l].pc = "drain"]
        /\ UNCHANGED <<foreign, act, closed>> /\ UNCHANGED committed /\ UNCHANGED binds
        /\ conn' = [c \in Conns |-> IF conn[c].pc = "accepted" /\ conn[c].loop = l THEN NoConn ELSE conn[c]]
    BY <1>2 DEF Stop
  <2>2. /\ conn' \in [Conns -> ConnStates]
        /\ \A c \in Conns : conn'[c] = conn[c] \/ conn'[c] = NoConn
    BY <1>0, <2>1
  <2> QED
    BY <2>1, <2>2, LoopMoves
<1>3. ASSUME NEW c \in Conns, Pin(l, c) PROVE SInv'
  <2>1. /\ loop[l].pc = "pin" /\ loop' = [loop EXCEPT ![l].pc = "accept"] /\ conn[c].loop = l
        /\ UNCHANGED <<foreign, act, closed>> /\ UNCHANGED committed /\ UNCHANGED binds
        /\ \/ conn' = [conn EXCEPT ![c] = NoConn]
           \/ conn' = [conn EXCEPT ![c] = [conn[c] EXCEPT !.pc = "serving", !.generation = generation]]
    BY <1>3 DEF Pin
  <2>2. /\ [conn[c] EXCEPT !.pc = "serving", !.generation = generation] \in ConnStates
        /\ [conn[c] EXCEPT !.pc = "serving", !.generation = generation].loop = l
        /\ [conn[c] EXCEPT !.pc = "serving", !.generation = generation].generation = generation
    BY <1>0, <2>1 DEF ConnStates
  <2>3. /\ conn' \in [Conns -> ConnStates]
        /\ \A d \in Conns : \/ conn'[d] = conn[d] \/ conn'[d] = NoConn
                            \/ conn'[d].loop = l /\ conn'[d].generation = generation
    BY <1>0, <2>1, <2>2
  <2> QED
    BY <2>1, <2>2, <2>3, LoopMoves
<1>4. ASSUME NEW c \in Conns, Accept(l, c) PROVE SInv'
  <2>1. /\ loop[l].pc = "accept" /\ loop' = [loop EXCEPT ![l].pc = "admit"]
        /\ UNCHANGED <<foreign, act, closed>> /\ UNCHANGED committed /\ UNCHANGED binds
        /\ conn' = [conn EXCEPT ![c] = [NoConn EXCEPT !.pc = "accepted", !.loop = l]]
    BY <1>4 DEF Accept
  <2>2. conn' \in [Conns -> ConnStates]
    BY <1>0, <2>1 DEF NoConn, ConnStates
  <2>3. \A d \in Conns : \/ conn'[d] = conn[d]
                         \/ conn'[d].loop = l /\ conn'[d].pc = "accepted"
    BY <1>0, <2>1 DEF NoConn
  <2> QED
    BY <2>1, <2>2, <2>3, LoopMoves
<1> QED
  BY <1>1, <1>2, <1>3, <1>4

LEMMA EndSteps ==
  ASSUME SInv, (\E c \in Conns : Ends(c) \/ Expires(c)) \/ (\E l \in Loops : Grace(l))
  PROVE  SInv'
<1>0. conn \in [Conns -> ConnStates]
  BY DEF SInv, ServerTypes
<1>1. /\ UNCHANGED <<act, loop, closed>> /\ UNCHANGED committed /\ UNCHANGED binds
  BY DEF Ends, Expires, Grace
<1>2. conn' \in [Conns -> ConnStates]
      /\ \A c \in Conns : conn'[c] = conn[c] \/ conn'[c] = NoConn
  <2>1. ASSUME NEW c \in Conns, Ends(c) \/ Expires(c) PROVE conn' = [conn EXCEPT ![c] = NoConn]
    BY <2>1 DEF Ends, Expires
  <2>2. ASSUME NEW l \in Loops, Grace(l)
        PROVE  conn' = [c \in Conns |-> IF conn[c].loop = l THEN NoConn ELSE conn[c]]
    BY <2>2 DEF Grace
  <2>3. NoConn \in ConnStates
    BY Blanks
  <2> QED
    BY <1>0, <2>1, <2>2, <2>3
<1>3. UNCHANGED <<generation, listening, drains, table, reserved, staged, retired>>
  BY <1>1 DEF committed, binds
<1>4. ServerTypes' /\ Socketed' /\ Reserved' /\ Draining' /\ Distinct' /\ Listens'
  BY <1>1, <1>2, <1>3 DEF SInv, ServerTypes, Socketed, Reserved, Open, Draining, Distinct, Listens, Task
<1>5. \A c \in Conns : Owned(c)' /\ Limited(c)'
  BY <1>1, <1>2, <1>3 DEF SInv, Owned, Limited, NoConn
<1> QED
  BY <1>4, <1>5 DEF SInv

LEMMA LoopEndsStep == ASSUME SInv, NEW l \in Loops, LoopEnds(l) PROVE SInv'
<1>0. loop \in [Loops -> LoopStates]
  BY DEF SInv, ServerTypes
<1>1. /\ UNCHANGED <<act, conn, closed>> /\ UNCHANGED committed /\ UNCHANGED binds
      /\ loop[l].pc = "drain" /\ loop' = [loop EXCEPT ![l] = NoLoop] /\ \A c \in Conns : conn[c].loop # l
  BY DEF LoopEnds
<1>2. UNCHANGED <<generation, listening, drains, table, reserved, staged, retired>>
  BY <1>1 DEF committed, binds
<1>3. loop'[l] = NoLoop /\ (\A m \in Loops : m # l => loop'[m] = loop[m]) /\ ~ Task(l) /\ ~ Task(l)' /\ NoLoop.pc = "free"
  BY <1>0, <1>1 DEF SInv, Draining, Task, NoLoop
<1>4. ServerTypes'
  BY <1>0, <1>1, <1>2, Blanks DEF SInv, ServerTypes
<1>5. Socketed' /\ Reserved'
  BY <1>1, <1>2, <1>3 DEF SInv, Socketed, Reserved, Open
<1>6. Draining' /\ Distinct' /\ Listens'
  BY <1>1, <1>2, <1>3 DEF SInv, Draining, Distinct, Listens, Task
<1>7. \A c \in Conns : Owned(c)' /\ Limited(c)'
  BY <1>1, <1>2, <1>3 DEF SInv, Owned, Limited
<1> QED
  BY <1>4, <1>5, <1>6, <1>7 DEF SInv

LEMMA ShutdownStep == ASSUME SInv, Shutdown PROVE SInv'
<1>0. loop \in [Loops -> LoopStates]
  BY DEF SInv, ServerTypes
<1>1. /\ UNCHANGED <<act, conn>> /\ UNCHANGED committed /\ UNCHANGED binds /\ closed' = TRUE
      /\ loop' = [l \in Loops |-> IF loop[l].pc = "free" THEN NoLoop ELSE [loop[l] EXCEPT !.stop = TRUE]]
  BY DEF Shutdown
<1>2. UNCHANGED <<generation, listening, drains, table, reserved, staged, retired>>
  BY <1>1 DEF committed, binds
<1>3. \A m \in Loops : /\ loop[m].pc = "free" => loop'[m].pc = "free"
                       /\ loop[m].pc # "free" => /\ loop'[m].pc = loop[m].pc /\ loop'[m].stop
                                                 /\ loop'[m].address = loop[m].address
  BY <1>0, <1>1 DEF NoLoop
<1>s. \A l \in Loops : [loop[l] EXCEPT !.stop = TRUE] \in LoopStates
  BY <1>0 DEF LoopStates
<1>4. ServerTypes'
  BY <1>0, <1>1, <1>2, <1>s, Blanks DEF SInv, ServerTypes
<1>5. Socketed' /\ Reserved'
  BY <1>1, <1>2, <1>3 DEF SInv, Socketed, Reserved, Open
<1>6. Draining' /\ Distinct' /\ Listens'
  BY <1>1, <1>2, <1>3 DEF SInv, Draining, Distinct, Listens, Task
<1>7. \A c \in Conns : Owned(c)' /\ Limited(c)'
  BY <1>1, <1>2, <1>3 DEF SInv, Owned, Limited
<1> QED
  BY <1>4, <1>5, <1>6, <1>7 DEF SInv

LEMMA Begun == ASSUME NEW a PROVE Started(a).address = a /\ Started(a).pc = "accept" /\ ~ Started(a).stop
<1>1. Started(a).address = a /\ Started(a).pc = "accept"
  BY DEF Started
<1>2. ~ Started(a).stop
  BY Zenon DEF Started
<1> QED
  BY <1>1, <1>2

\* Server::sync: each address without a loop gets one that was free, and no loop
\* that serves an address of the plan is told to stop.
LEMMA SyncStep == ASSUME SInv, Sync PROVE SInv'
<1>0. /\ loop \in [Loops -> LoopStates]
      /\ conn \in [Conns -> ConnStates]
  BY DEF SInv, ServerTypes
<1>1. PICK start \in [Missing -> {l \in Loops : loop[l].pc = "free"}] :
        /\ \A a, b \in Missing : start[a] = start[b] => a = b
        /\ loop' = [l \in Loops |->
             IF \E a \in Missing : start[a] = l
             THEN Started(CHOOSE a \in Missing : start[a] = l)
             ELSE [loop[l] EXCEPT !.stop = @ \/ (Task(l) /\ loop[l].address \notin listening)]]
  BY DEF Sync
<1>c. \A c \in Conns, b \in BOOLEAN :
        /\ [conn[c] EXCEPT !.deadline = b] \in ConnStates
        /\ [conn[c] EXCEPT !.deadline = b].pc = conn[c].pc
        /\ [conn[c] EXCEPT !.deadline = b].loop = conn[c].loop
        /\ [conn[c] EXCEPT !.deadline = b].generation = conn[c].generation
        /\ [conn[c] EXCEPT !.deadline = b].deadline = b
  BY <1>0 DEF ConnStates
<1>2. /\ ~closed /\ act' = "prune" /\ UNCHANGED closed /\ UNCHANGED committed /\ UNCHANGED binds
      /\ conn' = [c \in Conns |-> [conn[c] EXCEPT !.deadline = @ \/ Retire(c)]]
  BY DEF Sync
<1>3. UNCHANGED <<generation, listening, drains, table, reserved, staged, retired>>
  BY <1>2 DEF committed, binds
<1>4. listening \subseteq table /\ listening \subseteq Addresses
  BY <1>2 DEF SInv, Socketed, ServerTypes
<1>5. \A a \in Missing : a \in listening /\ start[a] \in Loops /\ loop[start[a]].pc = "free"
  BY <1>1 DEF Missing
<1>6. \A a \in Missing : loop'[start[a]] = Started(a)
  <2> SUFFICES ASSUME NEW a \in Missing PROVE loop'[start[a]] = Started(a)
    OBVIOUS
  <2>1. \A b \in Missing : start[b] = start[a] => b = a
    BY <1>1
  <2>2. (CHOOSE b \in Missing : start[b] = start[a]) = a
    BY <2>1
  <2> QED
    BY <1>1, <1>5, <2>2
<1>7. \A l \in Loops : (\A a \in Missing : start[a] # l) =>
        /\ loop'[l].pc = loop[l].pc /\ loop'[l].address = loop[l].address
        /\ loop'[l].stop = (loop[l].stop \/ (Task(l) /\ loop[l].address \notin listening))
  BY <1>0, <1>1
<1>8. \A l \in Loops : Task(l)' <=>
        \/ \E a \in Missing : start[a] = l
        \/ Task(l) /\ loop[l].address \in listening /\ \A a \in Missing : start[a] # l
  <2> SUFFICES ASSUME NEW l \in Loops
               PROVE  Task(l)' <=> \/ \E a \in Missing : start[a] = l
                                   \/ Task(l) /\ loop[l].address \in listening /\ \A a \in Missing : start[a] # l
    OBVIOUS
  <2>1. CASE \E a \in Missing : start[a] = l
    <3>1. PICK a \in Missing : start[a] = l
      BY <2>1
    <3>2. loop'[l] = Started(a) /\ Started(a).pc = "accept" /\ ~ Started(a).stop
      BY <1>6, <3>1, Begun
    <3> QED
      BY <2>1, <3>2 DEF Task
  <2>2. CASE \A a \in Missing : start[a] # l
    BY <1>7, <2>2 DEF Task
  <2> QED
    BY <2>1, <2>2
<1>9. \A a \in Missing : loop'[start[a]].address = a /\ loop'[start[a]].pc = "accept" /\ ~ loop'[start[a]].stop
  BY <1>6, Begun
<1>10. \A a \in Missing, l \in Loops : Task(l) => loop[l].address # a
  BY DEF Missing
<1>11. ServerTypes'
  <2>1. \A a \in Missing : Started(a) \in LoopStates
    BY <1>4, <1>5 DEF Started, LoopStates
  <2>2. \A l \in Loops : loop'[l] \in LoopStates
    <3> SUFFICES ASSUME NEW l \in Loops PROVE loop'[l] \in LoopStates
      OBVIOUS
    <3>1. CASE \E a \in Missing : start[a] = l
      BY <1>6, <2>1, <3>1
    <3>2. CASE \A a \in Missing : start[a] # l
      <4>1. (loop[l].stop \/ (Task(l) /\ loop[l].address \notin listening)) \in BOOLEAN
        BY <1>0
      <4>2. loop'[l] = [loop[l] EXCEPT !.stop = loop[l].stop \/ (Task(l) /\ loop[l].address \notin listening)]
        BY <1>1, <3>2
      <4>3. \A b \in BOOLEAN : [loop[l] EXCEPT !.stop = b] \in LoopStates
        BY <1>0 DEF LoopStates
      <4> QED
        BY <4>1, <4>2, <4>3
    <3> QED
      BY <3>1, <3>2
  <2>3. conn' \in [Conns -> ConnStates]
    <3>1. \A c \in Conns : (conn[c].deadline \/ Retire(c)) \in BOOLEAN
      OBVIOUS
    <3> QED
      BY <1>2, <1>c, <3>1
  <2>4. DOMAIN loop' = Loops /\ loop' = [l \in Loops |-> loop'[l]]
    BY <1>1
  <2> QED
    BY <1>2, <1>3, <2>2, <2>3, <2>4 DEF SInv, ServerTypes
<1>12. Socketed'
  BY <1>3, <1>4 DEF Socketed
<1>13. Reserved'
  <2> SUFFICES ASSUME NEW a \in Addresses, Open(a)' PROVE a \in reserved
    BY <1>3 DEF Reserved
  <2>1. Open(a)
    <3>1. CASE a \in table \cup staged.addresses \cup retired
      BY <3>1 DEF Open
    <3>2. ASSUME NEW l \in Loops, loop'[l].pc # "free", loop'[l].address = a PROVE Open(a)
      <4>1. CASE \E b \in Missing : start[b] = l
        BY <1>4, <1>5, <1>9, <3>2, <4>1 DEF Open
      <4>2. CASE \A b \in Missing : start[b] # l
        BY <1>7, <3>2, <4>2 DEF Open
      <4> QED
        BY <4>1, <4>2
    <3> QED
      BY <1>3, <3>1, <3>2 DEF Open
  <2> QED
    BY <2>1 DEF SInv, Reserved
<1>14. Draining'
  <2> SUFFICES ASSUME NEW l \in Loops, loop'[l].pc = "drain" PROVE loop'[l].stop
    BY DEF Draining
  <2>1. \A a \in Missing : start[a] # l
    BY <1>9
  <2>2. loop[l].stop
    BY <1>7, <2>1 DEF SInv, Draining
  <2> QED
    BY <1>7, <2>1, <2>2
<1>15. Distinct'
  <2> SUFFICES ASSUME NEW l \in Loops, NEW m \in Loops, Task(l)', Task(m)', loop'[l].address = loop'[m].address
               PROVE  l = m
    BY DEF Distinct
  <2>1. CASE (\E a \in Missing : start[a] = l) /\ (\E a \in Missing : start[a] = m)
    BY <1>9, <2>1
  <2>2. CASE (\E a \in Missing : start[a] = l) /\ (\A a \in Missing : start[a] # m)
    BY <1>7, <1>8, <1>9, <1>10, <2>2
  <2>3. CASE (\A a \in Missing : start[a] # l) /\ (\E a \in Missing : start[a] = m)
    BY <1>7, <1>8, <1>9, <1>10, <2>3
  <2>4. CASE (\A a \in Missing : start[a] # l) /\ (\A a \in Missing : start[a] # m)
    BY <1>7, <1>8, <2>4 DEF SInv, Distinct
  <2> QED
    BY <2>1, <2>2, <2>3, <2>4
<1>16. Listens'
  <2>1. ASSUME NEW a \in listening PROVE \E l \in Loops : Task(l)' /\ loop'[l].address = a
    <3>1. CASE a \in Missing
      BY <1>5, <1>8, <1>9, <3>1
    <3>2. CASE a \notin Missing
      <4>1. PICK l \in Loops : Task(l) /\ loop[l].address = a
        BY <1>4, <3>2 DEF Missing
      <4>2. \A b \in Missing : start[b] # l
        BY <1>5, <4>1 DEF Task
      <4> QED
        BY <1>7, <1>8, <4>1, <4>2
    <3> QED
      BY <3>1, <3>2
  <2>2. ASSUME NEW l \in Loops, Task(l)' PROVE loop'[l].address \in listening
    BY <1>5, <1>7, <1>8, <1>9, <2>2
  <2> QED
    BY <1>3, <2>1, <2>2 DEF Listens
<1>17. ASSUME NEW c \in Conns PROVE Owned(c)' /\ Limited(c)'
  <2>1. Owned(c)
    BY DEF SInv
  <2>2. /\ conn'[c].pc = conn[c].pc /\ conn'[c].loop = conn[c].loop /\ conn'[c].generation = conn[c].generation
        /\ conn'[c].deadline = (conn[c].deadline \/ Retire(c))
    <3>1. (conn[c].deadline \/ Retire(c)) \in BOOLEAN
      OBVIOUS
    <3>2. conn'[c] = [conn[c] EXCEPT !.deadline = conn[c].deadline \/ Retire(c)]
      BY <1>2
    <3> QED
      BY <1>c, <3>1, <3>2
  <2>3. \A l \in Loops : loop[l].pc # "free" => loop'[l].pc # "free"
    BY <1>5, <1>7
  <2>4. Owned(c)'
    BY <2>1, <2>2, <2>3 DEF Owned
  <2>5. Limited(c)'
    BY <1>3, <2>2 DEF Limited, Retire
  <2> QED
    BY <2>4, <2>5
<1> QED
  BY <1>11, <1>12, <1>13, <1>14, <1>15, <1>16, <1>17 DEF SInv

LEMMA ServerStart == ServerInit => SInv
<1> SUFFICES ASSUME ServerInit PROVE SInv
  OBVIOUS
<1>1. ServerTypes
  BY Blanks DEF ServerInit, ServerTypes
<1>2. \A l \in Loops : loop[l].pc = "free"
  BY DEF ServerInit, NoLoop
<1>3. \A c \in Conns : conn[c].pc = "none"
  BY DEF ServerInit, NoConn
<1>4. listening = {} /\ table = {} /\ retired = {} /\ staged.addresses = {}
  BY DEF ServerInit, NoStage
<1> QED
  BY <1>1, <1>2, <1>3, <1>4 DEF SInv, Socketed, Reserved, Open, Draining, Distinct, Listens, Task, Owned, Limited

LEMMA ServerKept == SInv /\ [ServerNext]_serverVars => SInv'
<1> SUFFICES ASSUME SInv, [ServerNext]_serverVars PROVE SInv'
  OBVIOUS
<1>1. CASE UNCHANGED serverVars
  <2>1. UNCHANGED <<generation, listening, drains, table, reserved, staged, retired, act, loop, conn, closed>>
    BY <1>1 DEF serverVars, committed, binds
  <2> QED
    BY <2>1 DEF SInv, ServerTypes, Socketed, Reserved, Open, Draining, Distinct, Listens, Task, Owned, Limited
<1>2. ASSUME NEW addresses \in SUBSET Addresses \ {{}},
             (\E stops \in BOOLEAN : Stage(addresses, stops)) \/ StageFails(addresses)
      PROVE  SInv'
  BY <1>2, StageSteps
<1>3. ASSUME NEW l \in Loops, LoopStep(l) \/ \E c \in Conns : Accept(l, c) PROVE SInv'
  BY <1>3, AcceptSteps, EndSteps, LoopEndsStep DEF LoopStep
<1> QED
  BY <1>1, <1>2, <1>3, AdoptStep, DropSteps, PublishStep, SyncStep, EndSteps, ShutdownStep DEF ServerNext

\* What serve.rs, bind.rs and connection_drain.rs keep through every publication:
\* a bound address has one socket and, once the table is settled, one accept
\* loop; every connection belongs to a loop that still exists; and a connection
\* of an older generation has a deadline where one is configured.
THEOREM ServerHolds == ServerInit /\ [][ServerNext]_serverVars => []ServerSound
<1>1. SInv => ServerSound
  <2> SUFFICES ASSUME SInv PROVE ServerSound
    OBVIOUS
  <2>1. ASSUME NEW a \in listening, act \in {"prune", "idle"}, ~closed
        PROVE  Cardinality({l \in Loops : Task(l) /\ loop[l].address = a}) = 1
    <3>1. PICK l \in Loops : Task(l) /\ loop[l].address = a
      BY <2>1 DEF SInv, Listens
    <3>2. {m \in Loops : Task(m) /\ loop[m].address = a} = {l}
      BY <3>1 DEF SInv, Distinct
    <3> QED
      BY <3>2, FS_Singleton
  <2>2. AddressServed
    BY <2>1 DEF SInv, AddressServed, Socketed, Reserved, Found, Listens
  <2>3. ConnectionsOwned
    BY DEF SInv, ConnectionsOwned, Owned, Limited
  <2> QED
    BY <2>2, <2>3 DEF ServerSound
<1> QED
  BY <1>1, ServerStart, ServerKept, PTL

-----------------------------------------------------------------------------
(* Plugin tasks.  Whatever runs has its handle in the scope of its         *)
(* generation or with the one retire call that has the lock, and its       *)
(* generation stays registered until the host is gone; so a call that ends *)
(* and a host that has joined its jobs leave nothing running.              *)

CallStates == [pc : {"none", "waiting", "grace", "rest", "ended"}, held : SUBSET Tasks]
ScopeStates == [state : {"unborn", "pending", "running", "stopping", "stopped"}, handles : SUBSET Tasks]
PluginTypes ==
  /\ scopes \in [Scopes -> ScopeStates]
  /\ tasks \in [Scopes -> [Tasks -> {"pending", "running", "ended", "cancelled"}]]
  /\ calls \in [Scopes -> [Callers -> CallStates]]
  /\ retirements \in [entries : SUBSET Scopes, jobs : SUBSET Scopes, closed : BOOLEAN]
  /\ holders \in [Scopes -> SUBSET {"store", "connection"}]
  /\ inUse \in Scopes \cup {NoScope}
  /\ candidate \in [pc : {"none", "reading", "prepared"}, scope : Scopes \cup {NoScope}, read : Seq(Nat)]
  /\ candidate.pc # "none" => candidate.scope \in Scopes
  /\ secret \in [Refs -> Nat]

Joins(g, c) == calls[g][c].pc \in {"grace", "rest"}

\* A scope by itself: who has the handles of what runs.
ScopeOk(g) ==
  /\ scopes[g].state \in {"unborn", "pending"} =>
       /\ scopes[g].handles = {} /\ LiveTasks(g) = {}
       /\ \A c \in Callers : calls[g][c].pc \in {"none", "waiting"}
  /\ \A c \in Callers : Joins(g, c) \/ calls[g][c].held = {}
  /\ \A c \in Callers : Joins(g, c) => scopes[g].state = "stopped"
  /\ scopes[g].state = "stopped" => scopes[g].handles = {}
  /\ \A c, d \in Callers : Joins(g, c) /\ Joins(g, d) => c = d
  /\ \A t \in LiveTasks(g) : t \in scopes[g].handles \/ \E c \in Callers : Joins(g, c) /\ t \in calls[g][c].held
  /\ \A c \in Callers : calls[g][c].pc = "ended" => LiveTasks(g) = {}

\* A scope and its books: who is registered, retired, held, in force.
BookOk(g) ==
  /\ scopes[g].state = "unborn" =>
       /\ \A c \in Callers : calls[g][c].pc = "none"
       /\ g \notin retirements.entries /\ g \notin retirements.jobs /\ holders[g] = {} /\ g # inUse
  /\ g \in retirements.jobs => holders[g] = {}
  /\ g \notin retirements.jobs => calls[g]["job"].pc \in {"none", "ended"}
  /\ LiveTasks(g) # {} => g \in retirements.entries \/ host = "gone"
  /\ host = "running" /\ holders[g] # {} => g \in retirements.entries
  /\ host \in {"running", "dropped", "gone"} => calls[g]["host"].pc = "none" /\ calls[g]["app"].pc = "none"
  /\ host = "scopes" => calls[g]["app"].pc = "none" /\ (g \in retirements.entries => calls[g]["host"].pc # "none")
  /\ host \in {"app", "done"} => LiveTasks(g) = {}
  /\ inUse = g /\ host # "gone" => "store" \in holders[g]
  /\ candidate.scope = g /\ candidate.pc = "reading" => scopes[g].state = "unborn"
  /\ candidate.scope = g /\ candidate.pc = "prepared" => g # inUse /\ "store" \in holders[g]

PInv ==
  /\ PluginTypes
  /\ host # "running" => candidate.pc = "none"
  /\ SecretsAgree
  /\ \A g \in Scopes : ScopeOk(g) /\ BookOk(g)

LEMMA Phase ==
  ASSUME NEW k \in CallStates, NEW x \in {"none", "waiting", "grace", "rest", "ended"}
  PROVE  /\ [k EXCEPT !.pc = x] \in CallStates
         /\ [k EXCEPT !.pc = x].pc = x
         /\ [k EXCEPT !.pc = x].held = k.held
  BY DEF CallStates

LEMMA ScopeSame ==
  ASSUME NEW g \in Scopes, ScopeOk(g), scopes'[g] = scopes[g], tasks'[g] = tasks[g], calls'[g] = calls[g]
  PROVE  ScopeOk(g)' /\ LiveTasks(g)' = LiveTasks(g)
<1>1. LiveTasks(g)' = LiveTasks(g)
  BY DEF LiveTasks
<1>2. \A c \in Callers : Joins(g, c)' <=> Joins(g, c)
  BY DEF Joins
<1> QED
  BY <1>1, <1>2 DEF ScopeOk

LEMMA BookSame ==
  ASSUME NEW g \in Scopes, BookOk(g), scopes'[g] = scopes[g], LiveTasks(g)' = LiveTasks(g), calls'[g] = calls[g],
         holders'[g] = holders[g], g \in retirements'.entries <=> g \in retirements.entries,
         g \in retirements'.jobs <=> g \in retirements.jobs, UNCHANGED <<inUse, host, candidate>>
  PROVE  BookOk(g)'
  BY DEF BookOk

\* Steps that change only what one scope runs and who joins it.
LEMMA OneScope ==
  ASSUME PInv, NEW g \in Scopes, PluginTypes', UNCHANGED <<candidate, retirements, inUse, holders, host>>,
         \A h \in Scopes : h # g => scopes'[h] = scopes[h] /\ tasks'[h] = tasks[h] /\ calls'[h] = calls[h],
         ScopeOk(g)', BookOk(g)'
  PROVE  PInv'
<1>1. ASSUME NEW h \in Scopes, h # g PROVE ScopeOk(h)' /\ BookOk(h)'
  <2>1. ScopeOk(h) /\ BookOk(h) /\ scopes'[h] = scopes[h] /\ tasks'[h] = tasks[h] /\ calls'[h] = calls[h]
    BY <1>1 DEF PInv
  <2>2. ScopeOk(h)' /\ LiveTasks(h)' = LiveTasks(h)
    BY <2>1, ScopeSame
  <2> QED
    BY <2>1, <2>2, BookSame
<1>2. SecretsAgree' /\ (host' # "running" => candidate'.pc = "none")
  BY DEF PInv, SecretsAgree
<1> QED
  BY <1>1, <1>2 DEF PInv

LEMMA ActivateStep == ASSUME PInv, NEW g \in Scopes, Activate(g) PROVE PInv'
<1>1. /\ host = "running" /\ holders[g] # {} /\ g # candidate.scope /\ scopes[g].state = "pending"
      /\ scopes' = [scopes EXCEPT ![g] = [state |-> "running", handles |-> Tasks]]
      /\ tasks' = [tasks EXCEPT ![g] = [t \in Tasks |-> "running"]]
      /\ UNCHANGED <<candidate, retirements, inUse, holders, host, secret, calls>>
  BY DEF Activate
<1>2. PluginTypes /\ ScopeOk(g) /\ BookOk(g)
  BY DEF PInv
<1>3. PluginTypes'
  <2>1. scopes' \in [Scopes -> ScopeStates]
    BY <1>1, <1>2 DEF PluginTypes, ScopeStates
  <2>2. tasks' \in [Scopes -> [Tasks -> {"pending", "running", "ended", "cancelled"}]]
    BY <1>1, <1>2 DEF PluginTypes
  <2> QED
    BY <1>1, <1>2, <2>1, <2>2 DEF PluginTypes
<1>4. /\ scopes'[g].state = "running" /\ scopes'[g].handles = Tasks
      /\ \A h \in Scopes : h # g => scopes'[h] = scopes[h] /\ tasks'[h] = tasks[h] /\ calls'[h] = calls[h]
  BY <1>1, <1>2 DEF PluginTypes, ScopeStates
<1>5. ScopeOk(g)'
  BY <1>1, <1>2, <1>4 DEF ScopeOk, LiveTasks, Joins
<1>6. BookOk(g)'
  BY <1>1, <1>2, <1>4 DEF BookOk
<1> QED
  BY <1>1, <1>3, <1>4, <1>5, <1>6, OneScope

LEMMA TaskSteps == ASSUME PInv, NEW g \in Scopes, NEW t \in Tasks, TaskEnds(g, t) \/ TaskCancelled(g, t) PROVE PInv'
<1>1. PICK x \in {"ended", "cancelled"} : tasks' = [tasks EXCEPT ![g][t] = x]
  BY DEF TaskEnds, TaskCancelled
<1>2. UNCHANGED <<scopes, calls, candidate, retirements, inUse, holders, host, secret>>
  BY DEF TaskEnds, TaskCancelled
<1>3. PluginTypes /\ ScopeOk(g) /\ BookOk(g)
  BY DEF PInv
<1>4. PluginTypes'
  BY <1>1, <1>2, <1>3 DEF PluginTypes
<1>5. LiveTasks(g)' \subseteq LiveTasks(g) /\ \A h \in Scopes : h # g => tasks'[h] = tasks[h]
  BY <1>1, <1>3 DEF PluginTypes, LiveTasks
<1>6. ScopeOk(g)'
  BY <1>2, <1>3, <1>5 DEF ScopeOk, Joins
<1>7. BookOk(g)'
  BY <1>2, <1>3, <1>5 DEF BookOk
<1> QED
  BY <1>2, <1>4, <1>5, <1>6, <1>7, OneScope

LEMMA EnterStep == ASSUME PInv, NEW g \in Scopes, NEW c \in Callers, Enter(g, c) PROVE PInv'
<1> DEFINE taken == scopes[g].handles
           pc == IF taken = {} THEN "ended" ELSE "grace"
           now == [pc |-> pc, held |-> taken]
<1>1. /\ calls[g][c].pc = "waiting" /\ ~Locked(g)
      /\ scopes' = [scopes EXCEPT ![g] = [state |-> "stopped", handles |-> {}]]
      /\ calls' = [calls EXCEPT ![g][c] = now]
      /\ UNCHANGED <<candidate, retirements, inUse, holders, host, secret>>
  BY DEF Enter
<1>2. tasks' = [tasks EXCEPT ![g] = [t \in Tasks |-> IF tasks[g][t] = "pending" THEN "cancelled" ELSE tasks[g][t]]]
  BY DEF Enter
<1>3. PluginTypes /\ ScopeOk(g) /\ BookOk(g)
  BY DEF PInv
<1>4. now \in CallStates /\ now.pc = pc /\ now.held = taken /\ taken \in SUBSET Tasks
  BY <1>3 DEF PluginTypes, CallStates, ScopeStates
<1> HIDE DEF now
<1>5. PluginTypes'
  <2>1. scopes' \in [Scopes -> ScopeStates]
    BY <1>1, <1>3 DEF PluginTypes, ScopeStates
  <2>2. tasks' \in [Scopes -> [Tasks -> {"pending", "running", "ended", "cancelled"}]]
    BY <1>2, <1>3 DEF PluginTypes
  <2>3. calls' \in [Scopes -> [Callers -> CallStates]]
    BY <1>1, <1>3, <1>4 DEF PluginTypes
  <2> QED
    BY <1>1, <1>3, <2>1, <2>2, <2>3 DEF PluginTypes
<1>6. /\ scopes'[g].state = "stopped" /\ scopes'[g].handles = {}
      /\ \A h \in Scopes : h # g => scopes'[h] = scopes[h] /\ tasks'[h] = tasks[h] /\ calls'[h] = calls[h]
      /\ calls'[g][c] = now /\ \A d \in Callers : d # c => calls'[g][d] = calls[g][d]
  BY <1>1, <1>2, <1>3 DEF PluginTypes, ScopeStates
<1>7. LiveTasks(g)' = LiveTasks(g)
  BY <1>2, <1>3 DEF PluginTypes, LiveTasks
<1>8. \A d \in Callers : ~ Joins(g, d)
  BY <1>1 DEF Locked, Joins
<1>9. LiveTasks(g) \subseteq taken
  BY <1>3, <1>8 DEF ScopeOk
<1>10. \A d \in Callers : Joins(g, d)' <=> d = c /\ taken # {}
  BY <1>4, <1>6, <1>8 DEF Joins
<1>11. ScopeOk(g)'
  <2>1. \A d \in Callers : Joins(g, d)' \/ calls'[g][d].held = {}
    BY <1>3, <1>4, <1>6, <1>8, <1>10 DEF ScopeOk
  <2>2. \A t \in LiveTasks(g)' : \E d \in Callers : Joins(g, d)' /\ t \in calls'[g][d].held
    BY <1>4, <1>6, <1>7, <1>9, <1>10
  <2>3. \A d \in Callers : calls'[g][d].pc = "ended" => LiveTasks(g)' = {}
    BY <1>3, <1>4, <1>6, <1>7, <1>9 DEF ScopeOk
  <2> QED
    BY <1>6, <1>10, <2>1, <2>2, <2>3 DEF ScopeOk
<1>12. BookOk(g)'
  <2>1. scopes[g].state # "unborn"
    BY <1>1, <1>3 DEF BookOk
  <2>2. ~ (candidate.scope = g /\ candidate.pc = "reading")
    BY <1>3, <2>1 DEF BookOk
  <2>3. \A d \in Callers : calls'[g][d] = calls[g][d] \/ (d = c /\ calls[g][d].pc = "waiting" /\ calls'[g][d].pc # "none")
    BY <1>1, <1>4, <1>6
  <2>4. {"job", "host", "app"} \subseteq Callers
    BY DEF Callers
  <2> QED
    BY <1>1, <1>3, <1>6, <1>7, <2>2, <2>3, <2>4 DEF BookOk
<1> QED
  BY <1>1, <1>5, <1>6, <1>11, <1>12, OneScope

LEMMA GraceStep == ASSUME PInv, NEW g \in Scopes, NEW c \in Callers, GraceExpires(g, c) PROVE PInv'
<1>1. /\ calls[g][c].pc = "grace" /\ calls' = [calls EXCEPT ![g][c].pc = "rest"]
      /\ UNCHANGED <<scopes, tasks, candidate, retirements, inUse, holders, host, secret>>
  BY DEF GraceExpires
<1>2. PluginTypes /\ ScopeOk(g) /\ BookOk(g)
  BY DEF PInv
<1>3. PluginTypes'
  <2>0. calls[g][c] \in CallStates
    BY <1>2 DEF PluginTypes
  <2>1. calls' \in [Scopes -> [Callers -> CallStates]]
    BY <1>1, <1>2, <2>0, Phase DEF PluginTypes
  <2> QED
    BY <1>1, <1>2, <2>1 DEF PluginTypes
<1>4. /\ calls'[g][c].pc = "rest" /\ calls'[g][c].held = calls[g][c].held
      /\ \A d \in Callers : d # c => calls'[g][d] = calls[g][d]
      /\ \A h \in Scopes : h # g => calls'[h] = calls[h]
      /\ LiveTasks(g)' = LiveTasks(g)
  BY <1>1, <1>2 DEF PluginTypes, CallStates, LiveTasks
<1>5. \A d \in Callers : (Joins(g, d)' <=> Joins(g, d)) /\ calls'[g][d].held = calls[g][d].held
  BY <1>1, <1>4 DEF Joins
<1>6. ScopeOk(g)'
  BY <1>1, <1>2, <1>4, <1>5 DEF ScopeOk, Joins
<1>7. BookOk(g)'
  BY <1>1, <1>2, <1>4 DEF BookOk, Callers
<1> QED
  BY <1>1, <1>3, <1>4, <1>6, <1>7, OneScope

LEMMA EndsStep == ASSUME PInv, NEW g \in Scopes, NEW c \in Callers, ShutdownEnds(g, c) PROVE PInv'
<1> DEFINE over == [pc |-> "ended", held |-> {}]
<1>1. /\ Joins(g, c) /\ calls[g][c].held \cap LiveTasks(g) = {} /\ calls' = [calls EXCEPT ![g][c] = over]
      /\ UNCHANGED <<scopes, tasks, candidate, retirements, inUse, holders, host, secret>>
  BY DEF ShutdownEnds, Joined, Joins
<1>2. PluginTypes /\ ScopeOk(g) /\ BookOk(g)
  BY DEF PInv
<1>o. over \in CallStates /\ over.pc = "ended" /\ over.held = {}
  BY DEF CallStates
<1> HIDE DEF over
<1>3. PluginTypes'
  BY <1>1, <1>2, <1>o DEF PluginTypes
<1>4. /\ calls'[g][c] = over
      /\ \A d \in Callers : d # c => calls'[g][d] = calls[g][d]
      /\ \A h \in Scopes : h # g => calls'[h] = calls[h]
      /\ LiveTasks(g)' = LiveTasks(g)
  BY <1>1, <1>2 DEF PluginTypes, LiveTasks
<1>5. scopes[g].state = "stopped" /\ scopes[g].handles = {} /\ \A d \in Callers : Joins(g, d) => d = c
  BY <1>1, <1>2 DEF ScopeOk
<1>6. LiveTasks(g) = {}
  BY <1>1, <1>2, <1>5 DEF ScopeOk
<1>7. \A d \in Callers : ~ Joins(g, d)'
  BY <1>4, <1>5, <1>o DEF Joins
<1>8. ScopeOk(g)'
  BY <1>1, <1>2, <1>4, <1>5, <1>6, <1>7, <1>o DEF ScopeOk, Joins
<1>9. BookOk(g)'
  BY <1>1, <1>2, <1>4, <1>o DEF BookOk, Callers, Joins
<1> QED
  BY <1>1, <1>3, <1>4, <1>8, <1>9, OneScope

\* A call is made that waits for the scope's lock.
LEMMA Waits ==
  ASSUME PInv, NEW g \in Scopes, NEW c \in Callers, calls[g][c].pc \in {"none", "ended"},
         UNCHANGED <<scopes, tasks>>, calls'[g] = [calls[g] EXCEPT ![c].pc = "waiting"]
  PROVE  /\ ScopeOk(g)' /\ LiveTasks(g)' = LiveTasks(g)
         /\ calls'[g] \in [Callers -> CallStates]
         /\ calls'[g][c].pc = "waiting"
         /\ \A d \in Callers : d # c => calls'[g][d] = calls[g][d]
<1>1. ScopeOk(g) /\ calls[g] \in [Callers -> CallStates] /\ calls[g][c] \in CallStates
  BY DEF PInv, PluginTypes
<1>2. /\ calls'[g][c] = [calls[g][c] EXCEPT !.pc = "waiting"]
      /\ \A d \in Callers : d # c => calls'[g][d] = calls[g][d]
  BY <1>1
<1>3. calls'[g][c].pc = "waiting" /\ calls'[g][c].held = calls[g][c].held /\ calls'[g][c] \in CallStates
  <2>1. /\ [calls[g][c] EXCEPT !.pc = "waiting"] \in CallStates
        /\ [calls[g][c] EXCEPT !.pc = "waiting"].pc = "waiting"
        /\ [calls[g][c] EXCEPT !.pc = "waiting"].held = calls[g][c].held
    BY <1>1, Phase
  <2> QED
    BY <1>2, <2>1
<1>4. calls'[g] \in [Callers -> CallStates]
  BY <1>1, <1>3
<1>5. LiveTasks(g)' = LiveTasks(g)
  BY DEF LiveTasks
<1>6. \A d \in Callers : (Joins(g, d)' <=> Joins(g, d)) /\ calls'[g][d].held = calls[g][d].held
  BY <1>2, <1>3 DEF Joins
<1>7. ScopeOk(g)'
  BY <1>1, <1>2, <1>3, <1>5, <1>6 DEF ScopeOk
<1> QED
  BY <1>2, <1>3, <1>4, <1>5, <1>7

\* The last holder of a generation goes, or another one does.
LEMMA Releases ==
  ASSUME PInv, NEW g \in Scopes, NEW who \in holders[g], ReleaseHolder(g, who), UNCHANGED <<scopes, tasks>>
  PROVE  /\ \A h \in Scopes : ScopeOk(h)' /\ LiveTasks(h)' = LiveTasks(h)
         /\ calls' \in [Scopes -> [Callers -> CallStates]]
         /\ holders' = [holders EXCEPT ![g] = @ \ {who}]
         /\ retirements' \in [entries : SUBSET Scopes, jobs : SUBSET Scopes, closed : BOOLEAN]
         /\ \A h \in Scopes : h # g =>
              /\ calls'[h] = calls[h]
              /\ h \in retirements'.entries <=> h \in retirements.entries
              /\ h \in retirements'.jobs <=> h \in retirements.jobs
         /\ \A c \in Callers : c # "job" => calls'[g][c] = calls[g][c]
         /\ g \in retirements'.jobs => holders'[g] = {}
         /\ g \notin retirements'.jobs => calls'[g]["job"].pc \in {"none", "ended"}
         /\ g \in retirements'.entries => g \in retirements.entries
         /\ g \notin retirements'.entries => g \notin retirements.entries \/ (LiveTasks(g) = {} /\ holders'[g] = {})
<1>0. /\ PluginTypes /\ ScopeOk(g) /\ BookOk(g) /\ "job" \in Callers
      /\ retirements \in [entries : SUBSET Scopes, jobs : SUBSET Scopes, closed : BOOLEAN]
      /\ g \notin retirements.jobs /\ calls[g]["job"].pc \in {"none", "ended"}
  BY DEF PInv, PluginTypes, BookOk, Callers
<1>1. holders' = [holders EXCEPT ![g] = @ \ {who}] /\ holders'[g] = holders[g] \ {who}
  BY <1>0 DEF ReleaseHolder, PluginTypes
<1>2. CASE UNCHANGED <<retirements, calls>>
  BY <1>0, <1>1, <1>2, ScopeSame DEF PInv, PluginTypes, BookOk
<1>3. CASE holders[g] = {who} /\ retirements' = Retired(g)
           /\ calls' = IF Retired(g).jobs # retirements.jobs THEN [calls EXCEPT ![g]["job"].pc = "waiting"] ELSE calls
  <2>1. CASE retirements' = retirements
    <3>1. UNCHANGED calls
      BY <1>3, <2>1
    <3> QED
      BY <1>2, <2>1, <3>1
  <2>2. CASE /\ scopes[g].state = "pending" \/ Stopped(g)
             /\ retirements' = [retirements EXCEPT !.entries = @ \ {g}]
    <3>1. /\ retirements'.jobs = retirements.jobs /\ retirements'.entries = retirements.entries \ {g}
          /\ retirements' \in [entries : SUBSET Scopes, jobs : SUBSET Scopes, closed : BOOLEAN]
      BY <1>0, <2>2
    <3>2. UNCHANGED calls
      BY <1>3, <3>1
    <3>3. LiveTasks(g) = {}
      BY <1>0, <2>2 DEF ScopeOk, Stopped, Locked, Joins
    <3>4. \A h \in Scopes : ScopeOk(h)' /\ LiveTasks(h)' = LiveTasks(h)
      BY <3>2, ScopeSame DEF PInv
    <3> QED
      BY <1>0, <1>1, <1>3, <3>1, <3>2, <3>3, <3>4 DEF PluginTypes
  <2>3. CASE retirements' = [retirements EXCEPT !.jobs = @ \cup {g}]
    <3>1. /\ retirements'.jobs = retirements.jobs \cup {g} /\ retirements'.entries = retirements.entries
          /\ retirements' \in [entries : SUBSET Scopes, jobs : SUBSET Scopes, closed : BOOLEAN]
      BY <1>0, <2>3
    <3>2. calls' = [calls EXCEPT ![g]["job"].pc = "waiting"]
      BY <1>0, <1>3, <3>1
    <3>3. calls'[g] = [calls[g] EXCEPT !["job"].pc = "waiting"] /\ \A h \in Scopes : h # g => calls'[h] = calls[h]
      BY <1>0, <3>2 DEF PluginTypes
    <3>4. /\ ScopeOk(g)' /\ LiveTasks(g)' = LiveTasks(g)
          /\ calls'[g] \in [Callers -> CallStates]
          /\ \A d \in Callers : d # "job" => calls'[g][d] = calls[g][d]
      <4>1. calls[g]["job"].pc \in {"none", "ended"} /\ "job" \in Callers
        BY <1>0
      <4>2. calls'[g] = [calls[g] EXCEPT !["job"].pc = "waiting"]
        BY <3>3
      <4> QED
        BY <4>1, <4>2, Waits, Zenon
    <3>5. \A h \in Scopes : ScopeOk(h)' /\ LiveTasks(h)' = LiveTasks(h)
      <4>1. ASSUME NEW h \in Scopes, h # g PROVE ScopeOk(h)' /\ LiveTasks(h)' = LiveTasks(h)
        BY <3>3, <4>1, ScopeSame DEF PInv
      <4> QED
        BY <3>4, <4>1
    <3>6. calls' \in [Scopes -> [Callers -> CallStates]]
      <4>1. DOMAIN calls' = Scopes /\ calls' = [h \in Scopes |-> calls'[h]]
        BY <1>0, <3>2 DEF PluginTypes
      <4>2. \A h \in Scopes : calls'[h] \in [Callers -> CallStates]
        BY <1>0, <3>3, <3>4 DEF PluginTypes
      <4> QED
        BY <4>1, <4>2
    <3> QED
      BY <1>0, <1>1, <1>3, <3>1, <3>3, <3>4, <3>5, <3>6
  <2> QED
    BY <1>3, <2>1, <2>2, <2>3 DEF Retired
<1> QED
  BY <1>2, <1>3 DEF ReleaseHolder

LEMMA ReleaseBooks ==
  ASSUME PInv, NEW g \in Scopes, NEW who \in holders[g], ReleaseHolder(g, who), UNCHANGED <<scopes, tasks, host>>,
         \A h \in Scopes : inUse' = h /\ host # "gone" => "store" \in holders'[h],
         \A h \in Scopes : candidate'.scope = h /\ candidate'.pc = "reading" => scopes[h].state = "unborn",
         \A h \in Scopes : candidate'.scope = h /\ candidate'.pc = "prepared" => h # inUse' /\ "store" \in holders'[h],
         \A h \in Scopes : scopes[h].state = "unborn" => h # inUse'
  PROVE  \A h \in Scopes : BookOk(h)'
<1>0. /\ \A h \in Scopes : LiveTasks(h)' = LiveTasks(h)
      /\ holders' = [holders EXCEPT ![g] = @ \ {who}]
      /\ \A h \in Scopes : h # g =>
           /\ calls'[h] = calls[h]
           /\ h \in retirements'.entries <=> h \in retirements.entries
           /\ h \in retirements'.jobs <=> h \in retirements.jobs
      /\ \A c \in Callers : c # "job" => calls'[g][c] = calls[g][c]
      /\ g \in retirements'.jobs => holders'[g] = {}
      /\ g \notin retirements'.jobs => calls'[g]["job"].pc \in {"none", "ended"}
      /\ g \in retirements'.entries => g \in retirements.entries
      /\ g \notin retirements'.entries => g \notin retirements.entries \/ (LiveTasks(g) = {} /\ holders'[g] = {})
  BY Releases
<1>1. holders'[g] \subseteq holders[g] /\ \A h \in Scopes : h # g => holders'[h] = holders[h]
  BY <1>0 DEF PInv, PluginTypes
<1>2. ASSUME NEW h \in Scopes, h # g PROVE BookOk(h)'
  <2>1. BookOk(h)
    BY DEF PInv
  <2>2. /\ scopes'[h] = scopes[h] /\ LiveTasks(h)' = LiveTasks(h) /\ calls'[h] = calls[h] /\ holders'[h] = holders[h]
        /\ h \in retirements'.entries <=> h \in retirements.entries
        /\ h \in retirements'.jobs <=> h \in retirements.jobs
    BY <1>0, <1>1, <1>2
  <2>3. /\ inUse' = h /\ host # "gone" => "store" \in holders'[h]
        /\ candidate'.scope = h /\ candidate'.pc = "reading" => scopes[h].state = "unborn"
        /\ candidate'.scope = h /\ candidate'.pc = "prepared" => h # inUse' /\ "store" \in holders'[h]
        /\ scopes[h].state = "unborn" => h # inUse'
    OBVIOUS
  <2> QED
    BY <2>1, <2>2, <2>3 DEF BookOk
<1>3. BookOk(g)'
  <2>1. BookOk(g) /\ holders[g] # {}
    BY DEF PInv
  <2>2. scopes[g].state # "unborn"
    BY <2>1 DEF BookOk
  <2>3. calls'[g]["host"] = calls[g]["host"] /\ calls'[g]["app"] = calls[g]["app"]
    BY <1>0 DEF Callers
  <2>4. /\ inUse' = g /\ host # "gone" => "store" \in holders'[g]
        /\ candidate'.scope = g /\ candidate'.pc = "reading" => scopes[g].state = "unborn"
        /\ candidate'.scope = g /\ candidate'.pc = "prepared" => g # inUse' /\ "store" \in holders'[g]
    OBVIOUS
  <2>5. LiveTasks(g)' = LiveTasks(g)
    BY <1>0
  <2>6. LiveTasks(g)' # {} => g \in retirements'.entries \/ host' = "gone"
    BY <1>0, <2>1, <2>5 DEF BookOk
  <2>7. host' = "running" /\ holders'[g] # {} => g \in retirements'.entries
    BY <1>0, <1>1, <2>1 DEF BookOk
  <2>8. host' = "scopes" => calls'[g]["app"].pc = "none" /\ (g \in retirements'.entries => calls'[g]["host"].pc # "none")
    BY <1>0, <2>1, <2>3 DEF BookOk
  <2>9. /\ host' \in {"running", "dropped", "gone"} => calls'[g]["host"].pc = "none" /\ calls'[g]["app"].pc = "none"
        /\ host' \in {"app", "done"} => LiveTasks(g)' = {}
    BY <2>1, <2>3, <2>5 DEF BookOk
  <2>10. /\ g \in retirements'.jobs => holders'[g] = {}
         /\ g \notin retirements'.jobs => calls'[g]["job"].pc \in {"none", "ended"}
    BY <1>0
  <2>11. scopes'[g].state # "unborn"
    BY <2>2
  <2> QED
    BY <2>4, <2>6, <2>7, <2>8, <2>9, <2>10, <2>11 DEF BookOk
<1> QED
  BY <1>2, <1>3

LEMMA NoneTyped ==
  /\ NoCandidate \in [pc : {"none", "reading", "prepared"}, scope : Scopes \cup {NoScope}, read : Seq(Nat)]
  /\ NoCandidate.pc = "none" /\ NoCandidate.read = <<>>
  BY DEF NoCandidate

LEMMA UnpinStep == ASSUME PInv, NEW g \in Scopes, UnpinPlugins(g) PROVE PInv'
<1>1. /\ "connection" \in holders[g] /\ ReleaseHolder(g, "connection")
      /\ UNCHANGED <<secret, candidate, scopes, tasks, inUse, host>>
  BY DEF UnpinPlugins
<1>2. /\ \A h \in Scopes : ScopeOk(h)'
      /\ calls' \in [Scopes -> [Callers -> CallStates]]
      /\ holders' = [holders EXCEPT ![g] = @ \ {"connection"}]
      /\ retirements' \in [entries : SUBSET Scopes, jobs : SUBSET Scopes, closed : BOOLEAN]
  BY <1>1, Releases
<1>3. PluginTypes'
  BY <1>1, <1>2 DEF PInv, PluginTypes
<1>4. \A h \in Scopes : "store" \in holders[h] => "store" \in holders'[h]
  BY <1>2 DEF PInv, PluginTypes
<1>5. \A h \in Scopes : BookOk(h)
  BY DEF PInv
<1>6. /\ \A h \in Scopes : inUse' = h /\ host # "gone" => "store" \in holders'[h]
      /\ \A h \in Scopes : candidate'.scope = h /\ candidate'.pc = "reading" => scopes[h].state = "unborn"
      /\ \A h \in Scopes : candidate'.scope = h /\ candidate'.pc = "prepared" => h # inUse' /\ "store" \in holders'[h]
      /\ \A h \in Scopes : scopes[h].state = "unborn" => h # inUse'
  BY <1>1, <1>4, <1>5 DEF BookOk
<1>7. \A h \in Scopes : BookOk(h)'
  BY <1>1, <1>6, ReleaseBooks
<1> QED
  BY <1>1, <1>2, <1>3, <1>7 DEF PInv, SecretsAgree

LEMMA DiscardStep == ASSUME PInv, DiscardCandidate PROVE PInv'
<1> DEFINE g == candidate.scope
<1>1. /\ candidate.pc = "prepared" /\ candidate' = NoCandidate /\ ReleaseHolder(g, "store")
      /\ UNCHANGED <<secret, scopes, tasks, inUse, host>>
  BY DEF DiscardCandidate
<1>2. g \in Scopes /\ "store" \in holders[g] /\ g # inUse
  BY <1>1 DEF PInv, PluginTypes, BookOk
<1> HIDE DEF g
<1>3. /\ \A h \in Scopes : ScopeOk(h)'
      /\ calls' \in [Scopes -> [Callers -> CallStates]]
      /\ holders' = [holders EXCEPT ![g] = @ \ {"store"}]
      /\ retirements' \in [entries : SUBSET Scopes, jobs : SUBSET Scopes, closed : BOOLEAN]
  BY <1>1, <1>2, Releases
<1>4. PluginTypes'
  BY <1>1, <1>3, NoneTyped DEF PInv, PluginTypes
<1>5. \A h \in Scopes : h # g => holders'[h] = holders[h]
  BY <1>3 DEF PInv, PluginTypes
<1>6. /\ \A h \in Scopes : inUse' = h /\ host # "gone" => "store" \in holders'[h]
      /\ \A h \in Scopes : scopes[h].state = "unborn" => h # inUse'
  BY <1>1, <1>2, <1>5 DEF PInv, BookOk
<1>7. \A h \in Scopes : BookOk(h)'
  BY <1>1, <1>2, <1>6, NoneTyped, ReleaseBooks
<1>8. SecretsAgree' /\ candidate'.pc = "none"
  BY <1>1, NoneTyped DEF SecretsAgree
<1> QED
  BY <1>3, <1>4, <1>7, <1>8 DEF PInv

LEMMA PublishPluginsStep == ASSUME PInv, PublishPlugins PROVE PInv'
<1>1. /\ candidate.pc = "prepared" /\ host = "running" /\ inUse' = candidate.scope /\ candidate' = NoCandidate
      /\ IF inUse = NoScope THEN UNCHANGED <<holders, retirements, calls>> ELSE ReleaseHolder(inUse, "store")
      /\ UNCHANGED <<secret, scopes, tasks, host>>
  BY DEF PublishPlugins
<1>2. /\ candidate.scope \in Scopes /\ "store" \in holders[candidate.scope] /\ candidate.scope # inUse
      /\ scopes[candidate.scope].state # "unborn"
      /\ inUse \in Scopes \cup {NoScope}
  BY <1>1 DEF PInv, PluginTypes, BookOk
<1>3. SecretsAgree' /\ candidate'.pc = "none"
  BY <1>1, NoneTyped DEF SecretsAgree
<1>4. CASE inUse = NoScope
  <2>1. UNCHANGED <<holders, retirements, calls>>
    BY <1>1, <1>4
  <2>2. PluginTypes'
    BY <1>1, <1>2, <2>1, NoneTyped DEF PInv, PluginTypes
  <2>3. ASSUME NEW h \in Scopes PROVE ScopeOk(h)' /\ BookOk(h)'
    <3>1. ScopeOk(h) /\ BookOk(h)
      BY DEF PInv
    <3>2. ScopeOk(h)' /\ LiveTasks(h)' = LiveTasks(h)
      BY <1>1, <2>1, <3>1, ScopeSame
    <3> QED
      BY <1>1, <1>2, <1>3, <2>1, <3>1, <3>2 DEF BookOk
  <2> QED
    BY <1>3, <2>2, <2>3 DEF PInv
<1>5. CASE inUse \in Scopes
  <2>0. NoScope \notin Scopes
    BY PluginsAssumption DEF NoScope, Scopes
  <2>1. ReleaseHolder(inUse, "store") /\ "store" \in holders[inUse]
    BY <1>1, <1>5, <2>0 DEF PInv, BookOk
  <2>2. /\ \A h \in Scopes : ScopeOk(h)'
        /\ calls' \in [Scopes -> [Callers -> CallStates]]
        /\ holders' = [holders EXCEPT ![inUse] = @ \ {"store"}]
        /\ retirements' \in [entries : SUBSET Scopes, jobs : SUBSET Scopes, closed : BOOLEAN]
    BY <1>1, <1>5, <2>1, Releases
  <2>3. PluginTypes'
    BY <1>1, <1>2, <2>2, NoneTyped DEF PInv, PluginTypes
  <2>4. "store" \in holders'[candidate.scope]
    BY <1>2, <2>2 DEF PInv, PluginTypes
  <2>5. /\ \A h \in Scopes : inUse' = h /\ host # "gone" => "store" \in holders'[h]
        /\ \A h \in Scopes : scopes[h].state = "unborn" => h # inUse'
    BY <1>1, <1>2, <2>4
  <2>6. \A h \in Scopes : BookOk(h)'
    BY <1>1, <1>3, <1>5, <2>1, <2>5, ReleaseBooks
  <2> QED
    BY <1>3, <2>2, <2>3, <2>6 DEF PInv
<1> QED
  BY <1>2, <1>4, <1>5

\* Steps of the preparation and of connections, which leave the scopes alone.
LEMMA QuietScopes ==
  ASSUME PInv, UNCHANGED <<scopes, tasks, calls>>
  PROVE  \A h \in Scopes : ScopeOk(h)' /\ LiveTasks(h)' = LiveTasks(h)
<1> SUFFICES ASSUME NEW h \in Scopes PROVE ScopeOk(h)' /\ LiveTasks(h)' = LiveTasks(h)
  OBVIOUS
<1>1. ScopeOk(h) /\ scopes'[h] = scopes[h] /\ tasks'[h] = tasks[h] /\ calls'[h] = calls[h]
  BY DEF PInv
<1> QED
  BY <1>1, ScopeSame

LEMMA StartStep == ASSUME PInv, NEW g \in Scopes, StartPreparation(g) PROVE PInv'
<1> DEFINE new == [pc |-> "reading", scope |-> g, read |-> <<>>]
<1>1. /\ host = "running" /\ scopes[g].state = "unborn" /\ candidate' = new
      /\ UNCHANGED <<secret, scopes, tasks, calls, retirements, inUse, holders, host>>
  BY DEF StartPreparation
<1>2. /\ new \in [pc : {"none", "reading", "prepared"}, scope : Scopes \cup {NoScope}, read : Seq(Nat)]
      /\ new.pc = "reading" /\ new.scope = g /\ new.read = <<>>
  OBVIOUS
<1> HIDE DEF new
<1>3. PluginTypes' /\ SecretsAgree' /\ host' = "running"
  BY <1>1, <1>2 DEF PInv, PluginTypes, SecretsAgree
<1>4. \A h \in Scopes : ScopeOk(h)' /\ LiveTasks(h)' = LiveTasks(h)
  BY <1>1, QuietScopes
<1>5. ASSUME NEW h \in Scopes PROVE BookOk(h)'
  <2>1. BookOk(h)
    BY DEF PInv
  <2> QED
    BY <1>1, <1>2, <1>4, <2>1 DEF BookOk
<1> QED
  BY <1>3, <1>4, <1>5 DEF PInv

LEMMA PinStep == ASSUME PInv, NEW g \in Scopes, PinPlugins(g) PROVE PInv'
<1>1. /\ host = "running" /\ g = inUse /\ holders' = [holders EXCEPT ![g] = @ \cup {"connection"}]
      /\ UNCHANGED <<secret, candidate, scopes, tasks, calls, retirements, inUse, host>>
  BY DEF PinPlugins
<1>2. PluginTypes' /\ SecretsAgree' /\ host' = "running"
  BY <1>1 DEF PInv, PluginTypes, SecretsAgree
<1>3. \A h \in Scopes : ScopeOk(h)' /\ LiveTasks(h)' = LiveTasks(h)
  BY <1>1, QuietScopes
<1>4. "store" \in holders[g] /\ holders'[g] = holders[g] \cup {"connection"} /\ \A h \in Scopes : h # g => holders'[h] = holders[h]
  BY <1>1 DEF PInv, PluginTypes, BookOk
<1>5. ASSUME NEW h \in Scopes PROVE BookOk(h)'
  <2>1. BookOk(h)
    BY DEF PInv
  <2> QED
    BY <1>1, <1>3, <1>4, <2>1 DEF BookOk
<1> QED
  BY <1>2, <1>3, <1>5 DEF PInv

LEMMA RotateStep == ASSUME PInv, NEW r \in Refs, RotateSecret(r) PROVE PInv'
<1>1. /\ secret' = [secret EXCEPT ![r] = @ + 1]
      /\ UNCHANGED <<candidate, scopes, tasks, calls, retirements, inUse, holders, host>>
  BY DEF RotateSecret
<1>2. PluginTypes' /\ SecretsAgree'
  BY <1>1 DEF PInv, PluginTypes, SecretsAgree
<1>3. \A h \in Scopes : ScopeOk(h)' /\ LiveTasks(h)' = LiveTasks(h)
  BY <1>1, QuietScopes
<1>4. \A h \in Scopes : BookOk(h)'
  BY <1>1, <1>3, BookSame DEF PInv
<1> QED
  BY <1>1, <1>2, <1>3, <1>4 DEF PInv

\* SecretDependencies::read.
LEMMA ReadStep == ASSUME PInv, ReadSecret PROVE PInv'
<1> DEFINE n == Len(candidate.read) + 1
           r == SecretReads[n]
           longer == Append(candidate.read, secret[r])
<1>1. /\ candidate.pc = "reading" /\ Len(candidate.read) < Len(SecretReads)
      /\ \/ Consistent(r) /\ candidate' = [candidate EXCEPT !.read = longer]
         \/ candidate' = NoCandidate
      /\ UNCHANGED <<secret, scopes, tasks, calls, retirements, inUse, holders, host>>
  BY DEF ReadSecret
<1>2. candidate.read \in Seq(Nat) /\ secret \in [Refs -> Nat] /\ candidate.scope \in Scopes
  BY <1>1 DEF PInv, PluginTypes
<1>3. secret[r] \in Nat
  <2>1. SecretReads \in Seq({SecretReads[i] : i \in DOMAIN SecretReads})
    BY PluginsAssumption
  <2>2. Len(SecretReads) \in Nat /\ DOMAIN SecretReads = 1..Len(SecretReads) /\ Len(candidate.read) \in Nat
    BY <1>2, <2>1
  <2>3. n \in DOMAIN SecretReads
    BY <1>1, <2>2
  <2>4. r \in Refs
    BY <2>3 DEF Refs
  <2> QED
    BY <1>2, <2>4
<1>4. /\ longer \in Seq(Nat) /\ DOMAIN longer = 1..n /\ DOMAIN candidate.read = 1..(n - 1) /\ n \in Nat
      /\ \A i \in DOMAIN candidate.read : longer[i] = candidate.read[i]
      /\ longer[n] = secret[r]
  BY <1>2, <1>3
<1>5. CASE Consistent(r) /\ candidate' = [candidate EXCEPT !.read = longer]
  <2>1. /\ candidate'.pc = candidate.pc /\ candidate'.scope = candidate.scope /\ candidate'.read = longer
        /\ candidate' \in [pc : {"none", "reading", "prepared"}, scope : Scopes \cup {NoScope}, read : Seq(Nat)]
    BY <1>4, <1>5 DEF PInv, PluginTypes
  <2>2. \A i \in DOMAIN candidate.read : SecretReads[i] = r => longer[i] = secret[r]
    BY <1>4, <1>5 DEF Consistent
  <2>3. \A i \in DOMAIN longer : i \in DOMAIN candidate.read \/ i = n
    BY <1>4
  <2>4. \A i, j \in DOMAIN candidate.read : SecretReads[i] = SecretReads[j] => longer[i] = longer[j]
    BY <1>4 DEF PInv, SecretsAgree
  <2>5. \A i, j \in DOMAIN longer : SecretReads[i] = SecretReads[j] => longer[i] = longer[j]
    <3> HIDE DEF longer, n
    <3> QED
      BY <1>4, <2>2, <2>3, <2>4
  <2>6. SecretsAgree'
    BY <2>1, <2>5 DEF SecretsAgree
  <2>7. PluginTypes'
    BY <1>1, <1>2, <2>1 DEF PInv, PluginTypes
  <2>8. \A h \in Scopes : ScopeOk(h)' /\ LiveTasks(h)' = LiveTasks(h)
    BY <1>1, QuietScopes
  <2>9. ASSUME NEW h \in Scopes PROVE BookOk(h)'
    <3>1. BookOk(h)
      BY DEF PInv
    <3> QED
      BY <1>1, <2>1, <2>8, <3>1 DEF BookOk
  <2> QED
    BY <1>1, <2>1, <2>6, <2>7, <2>8, <2>9 DEF PInv
<1>6. CASE candidate' = NoCandidate
  <2>1. PluginTypes' /\ SecretsAgree' /\ candidate'.pc = "none"
    BY <1>1, <1>6, NoneTyped DEF PInv, PluginTypes, SecretsAgree
  <2>2. \A h \in Scopes : ScopeOk(h)' /\ LiveTasks(h)' = LiveTasks(h)
    BY <1>1, QuietScopes
  <2>3. ASSUME NEW h \in Scopes PROVE BookOk(h)'
    <3>1. BookOk(h)
      BY DEF PInv
    <3> QED
      BY <1>1, <2>1, <2>2, <3>1 DEF BookOk
  <2> QED
    BY <2>1, <2>2, <2>3 DEF PInv
<1> QED
  BY <1>1, <1>5, <1>6

\* PreparedPlugins::tasks and Retirements::register.
LEMMA RegisterStep == ASSUME PInv, Register PROVE PInv'
<1> DEFINE tracked == retirements.entries \ Reaped
           fresh == [state |-> "pending", handles |-> {}]
<1>0. candidate.pc = "reading" /\ candidate.scope \in Scopes
  BY DEF Register, PInv, PluginTypes
<1>g. PICK g \in Scopes : g = candidate.scope
  BY <1>0
<1>1. /\ candidate.pc = "reading"
      /\ UNCHANGED <<secret, tasks, calls, inUse, host>>
  BY DEF Register
<1>2. /\ g \in Scopes /\ scopes[g].state = "unborn" /\ ScopeOk(g) /\ BookOk(g) /\ host = "running"
      /\ retirements \in [entries : SUBSET Scopes, jobs : SUBSET Scopes, closed : BOOLEAN]
  BY <1>1, <1>g DEF PInv, PluginTypes, BookOk
<1>3. \A h \in Scopes : h \in Reaped => h \in retirements.jobs /\ calls[h]["job"].pc = "ended" /\ LiveTasks(h) = {} /\ holders[h] = {}
  <2> SUFFICES ASSUME NEW h \in Scopes, h \in Reaped
               PROVE  h \in retirements.jobs /\ calls[h]["job"].pc = "ended" /\ LiveTasks(h) = {} /\ holders[h] = {}
    OBVIOUS
  <2>1. h \in retirements.jobs /\ calls[h]["job"].pc = "ended" /\ ScopeOk(h) /\ BookOk(h)
    BY DEF Reaped, PInv
  <2> QED
    BY <2>1 DEF ScopeOk, BookOk, Callers
<1>4. CASE candidate' = NoCandidate /\ UNCHANGED <<scopes, holders>>
           /\ (retirements' = retirements \/ retirements' = [retirements EXCEPT !.entries = tracked, !.jobs = @ \ Reaped])
  <2>1. /\ retirements'.entries \subseteq retirements.entries /\ retirements'.jobs \subseteq retirements.jobs
        /\ retirements' \in [entries : SUBSET Scopes, jobs : SUBSET Scopes, closed : BOOLEAN]
        /\ \A h : h \in retirements.entries /\ h \notin retirements'.entries => h \in Reaped
        /\ \A h : h \in retirements.jobs /\ h \notin retirements'.jobs => h \in Reaped
    BY <1>2, <1>4
  <2>2. PluginTypes' /\ SecretsAgree' /\ candidate'.pc = "none"
    BY <1>1, <1>4, <2>1, NoneTyped DEF PInv, PluginTypes, SecretsAgree
  <2>3. \A h \in Scopes : ScopeOk(h)' /\ LiveTasks(h)' = LiveTasks(h)
    BY <1>1, <1>4, QuietScopes
  <2>4. ASSUME NEW h \in Scopes PROVE BookOk(h)'
    <3>1. BookOk(h) /\ (h \in Reaped => h \in retirements.jobs /\ calls[h]["job"].pc = "ended" /\ LiveTasks(h) = {} /\ holders[h] = {})
      BY <1>3 DEF PInv
    <3> HIDE DEF tracked
    <3> QED
      BY <1>1, <1>2, <1>4, <2>1, <2>2, <2>3, <3>1 DEF BookOk
  <2> QED
    BY <2>2, <2>3, <2>4 DEF PInv
<1>5. CASE /\ candidate' = [candidate EXCEPT !.pc = "prepared"]
           /\ retirements' = [retirements EXCEPT !.entries = tracked \cup {g}, !.jobs = @ \ Reaped]
           /\ scopes' = [scopes EXCEPT ![g] = fresh]
           /\ holders' = [holders EXCEPT ![g] = {"store"}]
  <2>1. /\ candidate'.pc = "prepared" /\ candidate'.scope = g /\ candidate'.read = candidate.read
        /\ candidate' \in [pc : {"none", "reading", "prepared"}, scope : Scopes \cup {NoScope}, read : Seq(Nat)]
    BY <1>5, <1>g DEF PInv, PluginTypes
  <2>2. /\ retirements'.entries = tracked \cup {g} /\ retirements'.jobs = retirements.jobs \ Reaped
        /\ retirements' \in [entries : SUBSET Scopes, jobs : SUBSET Scopes, closed : BOOLEAN]
    BY <1>2, <1>5
  <2>3. /\ fresh \in ScopeStates /\ fresh.state = "pending" /\ fresh.handles = {}
    BY DEF ScopeStates
  <2> HIDE DEF fresh
  <2>4. /\ scopes'[g] = fresh /\ (\A h \in Scopes : h # g => scopes'[h] = scopes[h])
        /\ holders'[g] = {"store"} /\ (\A h \in Scopes : h # g => holders'[h] = holders[h])
    BY <1>2, <1>5 DEF PInv, PluginTypes
  <2>5. PluginTypes'
    BY <1>1, <1>2, <1>5, <2>1, <2>2, <2>3 DEF PInv, PluginTypes
  <2>6. SecretsAgree'
    BY <2>1 DEF PInv, SecretsAgree
  <2>7. ASSUME NEW h \in Scopes, h # g PROVE ScopeOk(h)' /\ BookOk(h)'
    <3>1. ScopeOk(h) /\ BookOk(h)
      BY DEF PInv
    <3>2. ScopeOk(h)' /\ LiveTasks(h)' = LiveTasks(h)
      BY <1>1, <2>4, <2>7, <3>1, ScopeSame
    <3>3. h \in Reaped => h \in retirements.jobs /\ calls[h]["job"].pc = "ended" /\ LiveTasks(h) = {} /\ holders[h] = {}
      BY <1>3
    <3>4. /\ h \in retirements'.entries <=> h \in retirements.entries /\ h \notin Reaped
          /\ h \in retirements'.jobs <=> h \in retirements.jobs /\ h \notin Reaped
      BY <2>2, <2>7
    <3>5. candidate'.scope # h
      BY <2>1, <2>7
    <3> QED
      BY <1>1, <1>2, <2>4, <2>7, <3>1, <3>2, <3>3, <3>4, <3>5 DEF BookOk
  <2>8. ScopeOk(g)' /\ BookOk(g)'
    <3>1. LiveTasks(g)' = LiveTasks(g)
      BY <1>1 DEF LiveTasks
    <3>2. ScopeOk(g)'
      BY <1>1, <1>2, <2>3, <2>4, <3>1 DEF ScopeOk, Joins
    <3>3. g \in retirements'.entries /\ g \notin retirements'.jobs
      BY <1>2, <2>2 DEF BookOk
    <3> QED
      BY <1>1, <1>2, <2>1, <2>3, <2>4, <3>1, <3>2, <3>3 DEF BookOk
  <2> QED
    BY <1>1, <1>2, <2>5, <2>6, <2>7, <2>8 DEF PInv
<1> QED
  BY <1>g, <1>4, <1>5 DEF Register

LEMMA HostBeginsStep == ASSUME PInv, HostBegins PROVE PInv'
<1>1. /\ host \in {"running", "dropped"} /\ candidate.pc = "none" /\ host' = "scopes"
      /\ retirements' = [retirements EXCEPT !.closed = TRUE]
      /\ calls' = [g \in Scopes |->
           IF g \in retirements.entries THEN [calls[g] EXCEPT !["host"].pc = "waiting"] ELSE calls[g]]
      /\ UNCHANGED <<secret, candidate, scopes, tasks, inUse, holders>>
  BY DEF HostBegins
<1>2. /\ retirements'.entries = retirements.entries /\ retirements'.jobs = retirements.jobs
      /\ retirements' \in [entries : SUBSET Scopes, jobs : SUBSET Scopes, closed : BOOLEAN]
  BY <1>1 DEF PInv, PluginTypes
<1>3. ASSUME NEW g \in Scopes
      PROVE  /\ ScopeOk(g)' /\ LiveTasks(g)' = LiveTasks(g) /\ calls'[g] \in [Callers -> CallStates]
             /\ g \in retirements.entries => calls'[g]["host"].pc = "waiting"
             /\ \A d \in Callers : d # "host" \/ g \notin retirements.entries => calls'[g][d] = calls[g][d]
  <2>0. ScopeOk(g) /\ BookOk(g) /\ calls[g] \in [Callers -> CallStates] /\ "host" \in Callers
    BY DEF PInv, PluginTypes, Callers
  <2>1. CASE g \in retirements.entries
    <3>1. calls'[g] = [calls[g] EXCEPT !["host"].pc = "waiting"]
      BY <1>1, <2>1
    <3>2. calls[g]["host"].pc \in {"none", "ended"}
      BY <1>1, <2>0 DEF BookOk
    <3>3. UNCHANGED <<scopes, tasks>> /\ "host" \in Callers
      BY <1>1, <2>0
    <3>4. /\ ScopeOk(g)' /\ LiveTasks(g)' = LiveTasks(g) /\ calls'[g] \in [Callers -> CallStates]
          /\ calls'[g]["host"].pc = "waiting"
          /\ \A d \in Callers : d # "host" => calls'[g][d] = calls[g][d]
      BY <3>1, <3>2, <3>3, Waits, Zenon
    <3> QED
      BY <2>1, <3>4
  <2>2. CASE g \notin retirements.entries
    <3>1. calls'[g] = calls[g]
      BY <1>1, <2>2
    <3> QED
      BY <1>1, <2>0, <2>2, <3>1, ScopeSame
  <2> QED
    BY <2>1, <2>2
<1>4. calls' \in [Scopes -> [Callers -> CallStates]]
  <2>1. calls' = [g \in Scopes |-> calls'[g]]
    BY <1>1
  <2> QED
    BY <1>3, <2>1
<1>5. PluginTypes' /\ SecretsAgree'
  BY <1>1, <1>2, <1>4 DEF PInv, PluginTypes, SecretsAgree
<1>6. ASSUME NEW g \in Scopes PROVE BookOk(g)'
  <2>1. BookOk(g) /\ {"job", "host", "app"} = Callers
    BY DEF PInv, Callers
  <2>2. /\ calls'[g]["job"] = calls[g]["job"] /\ calls'[g]["app"] = calls[g]["app"]
        /\ g \in retirements.entries => calls'[g]["host"].pc = "waiting"
        /\ g \notin retirements.entries => \A d \in Callers : calls'[g][d] = calls[g][d]
        /\ LiveTasks(g)' = LiveTasks(g)
    BY <1>3, <2>1
  <2> QED
    BY <1>1, <1>2, <2>1, <2>2 DEF BookOk
<1> QED
  BY <1>1, <1>3, <1>5, <1>6 DEF PInv

\* Every registered scope was shut down, and whatever runs is of a registered
\* scope: nothing runs when Retirements::shutdown has joined its jobs.
LEMMA HostJoinsStep == ASSUME PInv, HostJoinsJobs PROVE PInv'
<1>1. /\ host = "scopes"
      /\ \A g \in Scopes : calls[g]["host"].pc \in {"none", "ended"}
      /\ \A g \in retirements.jobs : calls[g]["job"].pc = "ended"
      /\ retirements' = [retirements EXCEPT !.entries = {}, !.jobs = {}]
      /\ host' = IF inUse = NoScope THEN "done" ELSE "app"
      /\ calls' = IF inUse = NoScope THEN calls ELSE [calls EXCEPT ![inUse]["app"].pc = "waiting"]
      /\ UNCHANGED <<secret, candidate, scopes, tasks, inUse, holders>>
  BY DEF HostJoinsJobs
<1>2. /\ retirements'.entries = {} /\ retirements'.jobs = {}
      /\ retirements' \in [entries : SUBSET Scopes, jobs : SUBSET Scopes, closed : BOOLEAN]
  BY <1>1 DEF PInv, PluginTypes
<1>3. \A g \in Scopes : LiveTasks(g) = {}
  <2> SUFFICES ASSUME NEW g \in Scopes, LiveTasks(g) # {} PROVE FALSE
    OBVIOUS
  <2>1. ScopeOk(g) /\ BookOk(g) /\ "host" \in Callers
    BY DEF PInv, Callers
  <2>2. g \in retirements.entries
    BY <1>1, <2>1 DEF BookOk
  <2>3. calls[g]["host"].pc = "ended"
    BY <1>1, <2>1, <2>2 DEF BookOk
  <2> QED
    BY <2>1, <2>3 DEF ScopeOk
<1>4. \A g \in Scopes : calls[g]["job"].pc \in {"none", "ended"} /\ calls[g]["app"].pc = "none"
  BY <1>1 DEF PInv, BookOk
<1>5. ASSUME NEW g \in Scopes
      PROVE  /\ ScopeOk(g)' /\ LiveTasks(g)' = LiveTasks(g) /\ calls'[g] \in [Callers -> CallStates]
             /\ \A d \in Callers : d # "app" \/ g # inUse => calls'[g][d] = calls[g][d]
  <2>0. ScopeOk(g) /\ calls \in [Scopes -> [Callers -> CallStates]] /\ calls[g] \in [Callers -> CallStates] /\ "app" \in Callers
        /\ NoScope \notin Scopes
    BY PluginsAssumption DEF PInv, PluginTypes, Callers, NoScope, Scopes
  <2>1. CASE g = inUse
    <3>1. calls'[g] = [calls[g] EXCEPT !["app"].pc = "waiting"]
      BY <1>1, <2>0, <2>1
    <3>2. calls[g]["app"].pc \in {"none", "ended"} /\ UNCHANGED <<scopes, tasks>> /\ "app" \in Callers
      BY <1>1, <1>4, <2>0
    <3>3. /\ ScopeOk(g)' /\ LiveTasks(g)' = LiveTasks(g) /\ calls'[g] \in [Callers -> CallStates]
          /\ \A d \in Callers : d # "app" => calls'[g][d] = calls[g][d]
      BY <3>1, <3>2, Waits, Zenon
    <3> QED
      BY <2>1, <3>3
  <2>2. CASE g # inUse
    <3>1. calls'[g] = calls[g]
      BY <1>1, <2>0, <2>2 DEF PInv, PluginTypes
    <3> QED
      BY <1>1, <2>0, <2>2, <3>1, ScopeSame
  <2> QED
    BY <2>1, <2>2
<1>6. calls' \in [Scopes -> [Callers -> CallStates]]
  <2>1. calls' = [g \in Scopes |-> calls'[g]]
    BY <1>1 DEF PInv, PluginTypes
  <2> QED
    BY <1>5, <2>1
<1>7. PluginTypes' /\ SecretsAgree' /\ candidate'.pc = "none"
  BY <1>1, <1>2, <1>6 DEF PInv, PluginTypes, SecretsAgree
<1>8. ASSUME NEW g \in Scopes PROVE BookOk(g)'
  <2>1. BookOk(g) /\ {"job", "host", "app"} = Callers
    BY DEF PInv, Callers
  <2>2. /\ calls'[g]["job"] = calls[g]["job"] /\ calls'[g]["host"] = calls[g]["host"]
        /\ g # inUse => \A d \in Callers : calls'[g][d] = calls[g][d]
        /\ LiveTasks(g)' = {}
    BY <1>3, <1>5, <2>1
  <2>3. host' \in {"app", "done"} /\ calls'[g]["job"].pc \in {"none", "ended"}
    BY <1>1, <1>4, <2>2
  <2>4. scopes'[g].state = "unborn" => g # inUse /\ \A d \in Callers : calls'[g][d].pc = "none"
    BY <1>1, <2>1, <2>2 DEF BookOk
  <2>5. scopes'[g] = scopes[g] /\ holders'[g] = holders[g] /\ inUse' = inUse
    BY <1>1
  <2> QED
    BY <1>1, <1>2, <1>7, <2>1, <2>2, <2>3, <2>4, <2>5 DEF BookOk
<1> QED
  BY <1>5, <1>7, <1>8 DEF PInv

LEMMA HostEndsStep == ASSUME PInv, HostEnds PROVE PInv'
<1>1. /\ host = "app" /\ host' = "done"
      /\ UNCHANGED <<secret, candidate, scopes, tasks, calls, retirements, inUse, holders>>
  BY DEF HostEnds
<1>2. \A h \in Scopes : ScopeOk(h)' /\ LiveTasks(h)' = LiveTasks(h)
  BY <1>1, QuietScopes
<1>3. PluginTypes' /\ SecretsAgree' /\ candidate'.pc = "none"
  BY <1>1 DEF PInv, PluginTypes, SecretsAgree
<1>4. ASSUME NEW h \in Scopes PROVE BookOk(h)'
  <2>1. BookOk(h)
    BY DEF PInv
  <2> QED
    BY <1>1, <1>2, <2>1 DEF BookOk
<1> QED
  BY <1>2, <1>3, <1>4 DEF PInv

\* ShutdownWork::drop: the handles of a call that is dropped go back to the scope.
LEMMA Abandons ==
  ASSUME PInv, NEW g \in Scopes, NEW cs \in SUBSET Callers, tasks'[g] = tasks[g],
         scopes'[g] = Abandoned(g, cs), \A c \in Callers : calls'[g][c] = IF c \in cs THEN Inactive ELSE calls[g][c]
  PROVE  /\ ScopeOk(g)' /\ LiveTasks(g)' = LiveTasks(g) /\ scopes'[g] \in ScopeStates
         /\ scopes'[g].state = "unborn" <=> scopes[g].state = "unborn"
         /\ \A c \in Callers : calls'[g][c] \in CallStates /\ (calls'[g][c].pc = "none" \/ (c \notin cs /\ calls'[g][c] = calls[g][c]))
<1>0. /\ ScopeOk(g) /\ scopes[g] \in ScopeStates /\ \A c \in Callers : calls[g][c] \in CallStates
  BY DEF PInv, PluginTypes
<1>1. Inactive \in CallStates /\ Inactive.pc = "none" /\ Inactive.held = {}
  BY DEF Inactive, CallStates
<1>2. LiveTasks(g)' = LiveTasks(g)
  BY DEF LiveTasks
<1>3. \A c \in Callers : /\ c \in cs => calls'[g][c] = Inactive /\ ~ Joins(g, c)'
                         /\ c \notin cs => calls'[g][c] = calls[g][c] /\ (Joins(g, c)' <=> Joins(g, c))
  BY <1>1 DEF Joins
<1>4. CASE Joining(g, cs) = {}
  <2>1. scopes'[g] = scopes[g] /\ \A c \in cs : ~ Joins(g, c)
    BY <1>4 DEF Abandoned, Joining, Joins
  <2>2. \A c \in Callers : Joins(g, c)' <=> Joins(g, c)
    BY <1>3, <2>1
  <2>3. ScopeOk(g)'
    BY <1>0, <1>1, <1>2, <1>3, <2>1, <2>2 DEF ScopeOk
  <2> QED
    BY <1>0, <1>1, <1>2, <1>3, <2>1, <2>3
<1>5. ASSUME NEW d \in Joining(g, cs)
      PROVE  ScopeOk(g)' /\ scopes'[g] \in ScopeStates /\ scopes'[g].state # "unborn" /\ scopes[g].state # "unborn"
  <2>1. d \in cs /\ d \in Callers /\ Joins(g, d)
    BY <1>5 DEF Joining, Joins
  <2>2. scopes[g].state = "stopped" /\ \A c \in Callers : Joins(g, c) => c = d
    BY <1>0, <2>1 DEF ScopeOk
  <2>3. Joining(g, cs) = {d}
    BY <2>1, <2>2 DEF Joining, Joins
  <2>4. UNION {calls[g][c].held : c \in Joining(g, cs)} = calls[g][d].held
    BY <2>3
  <2>5. scopes'[g] = [scopes[g] EXCEPT !.state = "stopping", !.handles = calls[g][d].held]
    BY <2>3, <2>4 DEF Abandoned
  <2>6. calls[g][d].held \in SUBSET Tasks
    BY <1>0, <2>1 DEF CallStates
  <2>7. scopes'[g].state = "stopping" /\ scopes'[g].handles = calls[g][d].held /\ scopes'[g] \in ScopeStates
    BY <1>0, <2>5, <2>6 DEF ScopeStates
  <2>8. \A c \in Callers : ~ Joins(g, c)'
    BY <1>3, <2>1, <2>2
  <2>9. \A t \in LiveTasks(g) : t \in calls[g][d].held
    <3>1. scopes[g].handles = {}
      BY <1>0, <2>2 DEF ScopeOk
    <3> QED
      BY <1>0, <2>2, <3>1 DEF ScopeOk
  <2>10. \A c \in Callers : calls'[g][c].held = {}
    BY <1>0, <1>1, <1>3, <2>1, <2>2 DEF ScopeOk
  <2>11. \A c \in Callers : calls'[g][c].pc = "ended" => LiveTasks(g)' = {}
    BY <1>0, <1>1, <1>2, <1>3 DEF ScopeOk
  <2>12. ScopeOk(g)'
    BY <1>2, <2>7, <2>8, <2>9, <2>10, <2>11 DEF ScopeOk
  <2> QED
    BY <2>2, <2>7, <2>12
<1>6. \A c \in Callers : calls'[g][c] \in CallStates /\ (calls'[g][c].pc = "none" \/ (c \notin cs /\ calls'[g][c] = calls[g][c]))
  BY <1>0, <1>1, <1>3
<1> QED
  BY <1>2, <1>4, <1>5, <1>6

LEMMA CancelledStep == ASSUME PInv, HostCancelled PROVE PInv'
<1> DEFINE cs == {"host", "app"}
<1>1. /\ host \in {"scopes", "app"} /\ host' = "dropped"
      /\ scopes' = [g \in Scopes |-> Abandoned(g, cs)]
      /\ calls' = [g \in Scopes |-> [c \in Callers |-> IF c \in cs THEN Inactive ELSE calls[g][c]]]
      /\ UNCHANGED <<secret, candidate, tasks, retirements, inUse, holders>>
  BY DEF HostCancelled, AbandonCalls
<1>2. cs \in SUBSET Callers
  BY DEF Callers
<1>3. ASSUME NEW g \in Scopes
      PROVE  /\ ScopeOk(g)' /\ LiveTasks(g)' = LiveTasks(g) /\ scopes'[g] \in ScopeStates
             /\ scopes'[g].state = "unborn" <=> scopes[g].state = "unborn"
             /\ \A c \in Callers : calls'[g][c] \in CallStates /\ (calls'[g][c].pc = "none" \/ (c \notin cs /\ calls'[g][c] = calls[g][c]))
  <2>1. tasks'[g] = tasks[g] /\ scopes'[g] = Abandoned(g, cs) /\ \A c \in Callers : calls'[g][c] = IF c \in cs THEN Inactive ELSE calls[g][c]
    BY <1>1
  <2> HIDE DEF cs
  <2> QED
    BY <1>2, <2>1, Abandons
<1>4. scopes' \in [Scopes -> ScopeStates] /\ calls' \in [Scopes -> [Callers -> CallStates]]
  <2>1. /\ scopes' = [g \in Scopes |-> scopes'[g]]
        /\ calls' = [g \in Scopes |-> [c \in Callers |-> calls'[g][c]]]
    BY <1>1
  <2> QED
    BY <1>3, <2>1
<1>5. PluginTypes' /\ SecretsAgree' /\ candidate'.pc = "none"
  BY <1>1, <1>4 DEF PInv, PluginTypes, SecretsAgree
<1>6. ASSUME NEW g \in Scopes PROVE BookOk(g)'
  <2>1. BookOk(g) /\ {"job", "host", "app"} = Callers
    BY DEF PInv, Callers
  <2>2. /\ calls'[g]["host"].pc = "none" /\ calls'[g]["app"].pc = "none"
        /\ calls'[g]["job"].pc = "none" \/ calls'[g]["job"] = calls[g]["job"]
        /\ \A c \in Callers : calls[g][c].pc = "none" => calls'[g][c].pc = "none"
        /\ LiveTasks(g)' = LiveTasks(g)
        /\ scopes'[g].state = "unborn" <=> scopes[g].state = "unborn"
    BY <1>3, <2>1
  <2> QED
    BY <1>1, <1>5, <2>1, <2>2 DEF BookOk
<1> QED
  BY <1>3, <1>5, <1>6 DEF PInv

LEMMA DroppedStep == ASSUME PInv, HostDropped PROVE PInv'
<1>1. /\ host \in {"running", "dropped"} /\ candidate.pc = "none" /\ host' = "gone"
      /\ scopes' = [g \in Scopes |-> Abandoned(g, {"job"})]
      /\ calls' = [g \in Scopes |-> [c \in Callers |-> Inactive]]
      /\ retirements' = [retirements EXCEPT !.entries = {}, !.jobs = {}]
      /\ holders' = [g \in Scopes |-> {}]
      /\ UNCHANGED <<secret, candidate, tasks, inUse>>
  BY DEF HostDropped
<1>2. /\ retirements'.entries = {} /\ retirements'.jobs = {}
      /\ retirements' \in [entries : SUBSET Scopes, jobs : SUBSET Scopes, closed : BOOLEAN]
  BY <1>1 DEF PInv, PluginTypes
<1>3. ASSUME NEW g \in Scopes
      PROVE  /\ ScopeOk(g)' /\ LiveTasks(g)' = LiveTasks(g) /\ scopes'[g] \in ScopeStates
             /\ scopes'[g].state = "unborn" <=> scopes[g].state = "unborn"
             /\ \A c \in Callers : calls'[g][c] \in CallStates /\ calls'[g][c].pc = "none"
  <2>1. calls[g]["host"].pc = "none" /\ calls[g]["app"].pc = "none"
    BY <1>1 DEF PInv, BookOk
  <2>2. Joining(g, {"job"}) = Joining(g, Callers)
    BY <2>1 DEF Joining, Callers
  <2>3. Abandoned(g, {"job"}) = Abandoned(g, Callers)
    BY <2>2 DEF Abandoned
  <2>4. tasks'[g] = tasks[g] /\ scopes'[g] = Abandoned(g, Callers) /\ \A c \in Callers : calls'[g][c] = IF c \in Callers THEN Inactive ELSE calls[g][c]
    BY <1>1, <2>3
  <2>5. /\ ScopeOk(g)' /\ LiveTasks(g)' = LiveTasks(g) /\ scopes'[g] \in ScopeStates
        /\ scopes'[g].state = "unborn" <=> scopes[g].state = "unborn"
        /\ \A c \in Callers : calls'[g][c] \in CallStates /\ (calls'[g][c].pc = "none" \/ (c \notin Callers /\ calls'[g][c] = calls[g][c]))
    BY <2>4, Abandons
  <2> QED
    BY <2>5
<1>4. scopes' \in [Scopes -> ScopeStates] /\ calls' \in [Scopes -> [Callers -> CallStates]]
  <2>1. /\ scopes' = [g \in Scopes |-> scopes'[g]]
        /\ calls' = [g \in Scopes |-> [c \in Callers |-> calls'[g][c]]]
    BY <1>1
  <2> QED
    BY <1>3, <2>1
<1>5. PluginTypes' /\ SecretsAgree' /\ candidate'.pc = "none"
  BY <1>1, <1>2, <1>4 DEF PInv, PluginTypes, SecretsAgree
<1>6. ASSUME NEW g \in Scopes PROVE BookOk(g)'
  <2>1. BookOk(g) /\ {"job", "host", "app"} = Callers /\ holders'[g] = {}
    BY <1>1 DEF PInv, Callers
  <2>2. scopes'[g].state = "unborn" => g # inUse
    BY <1>3, <2>1 DEF BookOk
  <2>3. \A c \in Callers : calls'[g][c].pc = "none"
    BY <1>3
  <2>4. calls'[g]["job"].pc = "none" /\ calls'[g]["host"].pc = "none" /\ calls'[g]["app"].pc = "none"
    BY <2>1, <2>3
  <2> QED
    BY <1>1, <1>2, <1>5, <2>1, <2>2, <2>3, <2>4 DEF BookOk
<1> QED
  BY <1>1, <1>3, <1>5, <1>6 DEF PInv

LEMMA PluginsStart == PluginInit => PInv
<1> SUFFICES ASSUME PluginInit PROVE PInv
  OBVIOUS
<1>1. Inactive \in CallStates /\ Inactive.pc = "none" /\ Inactive.held = {}
  BY DEF Inactive, CallStates
<1>2. /\ [state |-> "unborn", handles |-> {}] \in ScopeStates
      /\ [entries |-> {}, jobs |-> {}, closed |-> FALSE] \in [entries : SUBSET Scopes, jobs : SUBSET Scopes, closed : BOOLEAN]
  BY DEF ScopeStates
<1>3. PluginTypes /\ SecretsAgree /\ host = "running" /\ candidate.pc = "none"
  BY <1>1, <1>2, NoneTyped DEF PluginInit, PluginTypes, SecretsAgree
<1>4. ASSUME NEW g \in Scopes PROVE ScopeOk(g) /\ BookOk(g)
  <2>1. /\ scopes[g].state = "unborn" /\ scopes[g].handles = {} /\ LiveTasks(g) = {}
        /\ \A c \in Callers : calls[g][c] = Inactive
        /\ holders[g] = {} /\ g # inUse
        /\ retirements.entries = {} /\ retirements.jobs = {}
    BY PluginsAssumption DEF PluginInit, LiveTasks, NoScope, Scopes
  <2>2. calls[g]["job"].pc = "none" /\ calls[g]["host"].pc = "none" /\ calls[g]["app"].pc = "none"
    BY <1>1, <2>1 DEF Callers
  <2>3. ScopeOk(g)
    BY <1>1, <2>1 DEF ScopeOk, Joins
  <2>4. BookOk(g)
    BY <1>1, <1>3, <2>1, <2>2 DEF BookOk
  <2> QED
    BY <2>3, <2>4
<1> QED
  BY <1>3, <1>4 DEF PInv

LEMMA PluginsKept == PInv /\ [PluginNext]_pluginVars => PInv'
<1> SUFFICES ASSUME PInv, [PluginNext]_pluginVars PROVE PInv'
  OBVIOUS
<1>1. CASE UNCHANGED pluginVars
  <2>1. UNCHANGED <<secret, candidate, scopes, tasks, calls, retirements, inUse, holders, host>>
    BY <1>1 DEF pluginVars
  <2>2. PluginTypes' /\ SecretsAgree' /\ (host' # "running" => candidate'.pc = "none")
    BY <2>1 DEF PInv, PluginTypes, SecretsAgree
  <2>3. \A h \in Scopes : ScopeOk(h)' /\ LiveTasks(h)' = LiveTasks(h)
    BY <2>1, QuietScopes
  <2>4. \A h \in Scopes : BookOk(h)'
    BY <2>1, <2>3, BookSame DEF PInv
  <2> QED
    BY <2>2, <2>3, <2>4 DEF PInv
<1>2. ASSUME NEW g \in Scopes, ScopeNext(g) PROVE PInv'
  BY <1>2, ActivateStep, StartStep, PinStep, UnpinStep, TaskSteps, EnterStep, GraceStep, EndsStep DEF ScopeNext
<1> QED
  BY <1>1, <1>2, RotateStep, ReadStep, RegisterStep, PublishPluginsStep, DiscardStep, HostBeginsStep, HostJoinsStep,
     HostEndsStep, CancelledStep, DroppedStep DEF PluginNext

\* A running task of a plugin can always be ended by someone, a shutdown of the
\* process that returned left none running, and no preparation saw two values of
\* one secret (plugin_tasks.rs, plugin_retirement.rs, task.rs, secrets.rs).
THEOREM TasksOwned == PluginInit /\ [][PluginNext]_pluginVars => []PluginsSound
<1>1. PInv => PluginsSound
  <2> SUFFICES ASSUME PInv PROVE PluginsSound
    OBVIOUS
  <2>1. ASSUME NEW g \in Scopes, NEW t \in LiveTasks(g)
        PROVE  t \in aborted[g] \cup scopes[g].handles \cup UNION {calls[g][c].held : c \in Joining(g, Callers)}
    <3>1. t \in scopes[g].handles \/ \E c \in Callers : Joins(g, c) /\ t \in calls[g][c].held
      BY <2>1 DEF PInv, ScopeOk
    <3>2. \A c \in Callers : Joins(g, c) => c \in Joining(g, Callers)
      BY DEF Joins, Joining
    <3> QED
      BY <3>1, <3>2
  <2>2. ASSUME host = "done", NEW g \in Scopes PROVE LiveTasks(g) = {}
    BY <2>2 DEF PInv, BookOk
  <2>3. NoTaskLeft
    BY <2>1, <2>2 DEF NoTaskLeft
  <2> QED
    BY <2>3 DEF PInv, PluginsSound
<1> QED
  BY <1>1, PluginsStart, PluginsKept, PTL

-----------------------------------------------------------------------------
(* The blocking budget.  The invariant adds to the accounts that only      *)
(* finitely many jobs were ever asked for, and that the limits in the      *)
(* budget are those in force except while the mutex is held by a           *)
(* publication, which remembers them.                                      *)

Phases == {"none", "refused", "queued", "running", "over"}

BlockingTypeOK ==
    /\ budget \in [limits : BlockingLimits, jobs : Nat, memory : Nat, running : Nat,
                   closed : BOOLEAN, admitted : Nat,
                   refused : [closed : Nat, jobs : Nat, memory : Nat],
                   completed : Nat, panicked : Nat, abandoned : Nat]
    /\ reservations \in [Jobs -> [phase : Phases, memory : Nat]]
    /\ inForce \in BlockingLimits
    /\ change \in [pc : {"none"}] \cup [pc : {"prepared"}, limits : BlockingLimits]
                  \cup [pc : {"publishing"}, limits : BlockingLimits, previous : BlockingLimits]

LimitsHeld ==
    /\ Unlocked => budget.limits = inForce
    /\ ~Unlocked => change.previous = inForce /\ budget.limits = change.limits

AskedFinitely == IsFiniteSet(AskedJobs) /\ IsFiniteSet(ChargedBytes)

Live == {"queued", "running"}
BudgetInv == BlockingTypeOK /\ LimitsHeld /\ AskedFinitely /\ BudgetAccounts

-----------------------------------------------------------------------------
(* What a change of one reservation does to the sets that are counted.     *)

LEMMA LimitsTyped == \A l \in BlockingLimits : l.jobs \in Nat /\ l.memory \in Nat
  BY BlockingAssumption

\* The bytes of one job are as many as it declared.
LEMMA BytesOfOne ==
  ASSUME NEW j, NEW m \in Nat
  PROVE  IsFiniteSet({j} \X (1..m)) /\ Cardinality({j} \X (1..m)) = m
  <1>1. IsFiniteSet({j}) /\ Cardinality({j}) = 1
    BY FS_Singleton
  <1>2. IsFiniteSet(1..m) /\ Cardinality(1..m) = m
    <2>1. IsFiniteSet(1..m) /\ Cardinality(1..m) = IF 1 > m THEN 0 ELSE m - 1 + 1
      BY FS_Interval
    <2> QED  BY <2>1
  <1>3. Cardinality({j} \X (1..m)) = Cardinality({j}) * Cardinality(1..m) /\ IsFiniteSet({j} \X (1..m))
    BY <1>1, <1>2, FS_Product
  <1> QED  BY <1>1, <1>2, <1>3

\* Disjoint sets count separately.
LEMMA DisjointUnion ==
  ASSUME NEW S, NEW T, IsFiniteSet(S), IsFiniteSet(T), S \cap T = {}
  PROVE  IsFiniteSet(S \cup T) /\ Cardinality(S \cup T) = Cardinality(S) + Cardinality(T)
  <1>1. Cardinality(S) \in Nat /\ Cardinality(T) \in Nat
    BY FS_CardinalityType
  <1>2. Cardinality(S \cap T) = 0
    BY FS_EmptySet
  <1>3. IsFiniteSet(S \cup T) /\ Cardinality(S \cup T) = Cardinality(S) + Cardinality(T) - Cardinality(S \cap T)
    BY FS_Union
  <1> QED  BY <1>1, <1>2, <1>3

LEMMA ContainedDifference ==
  ASSUME NEW S, NEW T, IsFiniteSet(S), T \subseteq S
  PROVE  IsFiniteSet(S \ T) /\ Cardinality(S \ T) = Cardinality(S) - Cardinality(T)
  <1>1. S \cap T = T
    OBVIOUS
  <1> QED  BY <1>1, FS_Difference

LEMMA InBytes ==
  ASSUME NEW x
  PROVE  x \in ChargedBytes <=> \E j \in Charged(Live) : x \in {j} \X (1..reservations[j].memory)
  BY DEF ChargedBytes, Live

LEMMA ChargedFinite ==
  ASSUME AskedFinitely, NEW P, "none" \notin P
  PROVE  /\ IsFiniteSet(Charged(P)) /\ Cardinality(Charged(P)) \in Nat
  <1>1. Charged(P) \in SUBSET AskedJobs
    BY DEF Charged, AskedJobs
  <1> QED  BY <1>1, FS_Subset, FS_CardinalityType DEF AskedFinitely

-----------------------------------------------------------------------------
LEMMA BudgetStarts == BlockingInit => BudgetInv
  <1> SUFFICES ASSUME BlockingInit PROVE BudgetInv
    OBVIOUS
  <1>1. BlockingTypeOK
    <2>1. PICK l \in BlockingLimits :
         budget = [limits |-> l, jobs |-> 0, memory |-> 0, running |-> 0, closed |-> FALSE,
                   admitted |-> 0, refused |-> [closed |-> 0, jobs |-> 0, memory |-> 0],
                   completed |-> 0, panicked |-> 0, abandoned |-> 0]
      BY DEF BlockingInit
    <2> QED  BY <2>1 DEF BlockingTypeOK, BlockingInit, NoChange, Phases
  <1>2. LimitsHeld
    BY DEF LimitsHeld, Unlocked, BlockingInit, NoChange
  <1>3. AskedJobs = {} /\ Charged({"queued", "running"}) = {} /\ Charged({"running"}) = {}
    BY DEF AskedJobs, Charged, BlockingInit
  <1>4. ChargedBytes = {}
    BY <1>3 DEF ChargedBytes
  <1>5. AskedFinitely
    BY <1>3, <1>4, FS_EmptySet DEF AskedFinitely
  <1>6. BudgetAccounts
    BY <1>3, <1>4, FS_EmptySet DEF BudgetAccounts, Refusals, BlockingInit
  <1> QED  BY <1>1, <1>2, <1>5, <1>6 DEF BudgetInv

\* A job refused is asked for, and that is all.
LEMMA RefuseSets ==
  ASSUME BlockingTypeOK, AskedFinitely, NEW j \in Jobs, reservations[j].phase = "none",
         reservations' = [reservations EXCEPT ![j].phase = "refused"]
  PROVE  /\ reservations' \in [Jobs -> [phase : Phases, memory : Nat]]
         /\ AskedFinitely'
         /\ Charged(Live)' = Charged(Live) /\ Charged({"running"})' = Charged({"running"})
         /\ ChargedBytes' = ChargedBytes
         /\ Cardinality(AskedJobs') = Cardinality(AskedJobs) + 1
  <1>1. reservations' \in [Jobs -> [phase : Phases, memory : Nat]]
    BY DEF BlockingTypeOK, Phases
  <1>2. Charged(Live)' = Charged(Live) /\ Charged({"running"})' = Charged({"running"})
    BY DEF Charged, Live, BlockingTypeOK
  <1>3. \A k \in Charged(Live) : reservations'[k].memory = reservations[k].memory
    BY DEF Charged, Live, BlockingTypeOK
  <1>4. ChargedBytes' = ChargedBytes
    BY <1>2, <1>3 DEF ChargedBytes, Live
  <1>5. AskedJobs' = AskedJobs \cup {j} /\ j \notin AskedJobs
    BY DEF AskedJobs, BlockingTypeOK
  <1>6. IsFiniteSet(AskedJobs') /\ Cardinality(AskedJobs') = Cardinality(AskedJobs) + 1
    BY <1>5, FS_AddElement DEF AskedFinitely
  <1> QED  BY <1>1, <1>2, <1>4, <1>6 DEF AskedFinitely

\* A job admitted adds itself and the bytes it declared.
LEMMA AdmitSets ==
  ASSUME BlockingTypeOK, AskedFinitely, NEW j \in Jobs, NEW m \in Nat, reservations[j].phase = "none",
         reservations' = [reservations EXCEPT ![j] = [phase |-> "queued", memory |-> m]]
  PROVE  /\ reservations' \in [Jobs -> [phase : Phases, memory : Nat]]
         /\ AskedFinitely'
         /\ Cardinality(Charged(Live)') = Cardinality(Charged(Live)) + 1
         /\ Charged({"running"})' = Charged({"running"})
         /\ Cardinality(ChargedBytes') = Cardinality(ChargedBytes) + m
         /\ Cardinality(AskedJobs') = Cardinality(AskedJobs) + 1
  <1>1. reservations' \in [Jobs -> [phase : Phases, memory : Nat]]
    BY DEF BlockingTypeOK, Phases
  <1>2. Charged(Live)' = Charged(Live) \cup {j} /\ j \notin Charged(Live)
    BY DEF Charged, Live, BlockingTypeOK
  <1>3. Charged({"running"})' = Charged({"running"})
    BY DEF Charged, BlockingTypeOK
  <1>4. \A k \in Charged(Live) : reservations'[k].memory = reservations[k].memory
    BY DEF Charged, Live, BlockingTypeOK
  <1>5. reservations'[j].memory = m
    BY DEF BlockingTypeOK
  <1>6. ChargedBytes' = ChargedBytes \cup ({j} \X (1..m))
    BY <1>2, <1>4, <1>5 DEF ChargedBytes, Live
  <1>7. ChargedBytes \cap ({j} \X (1..m)) = {}
    BY <1>2 DEF ChargedBytes, Live
  <1>8. IsFiniteSet(ChargedBytes') /\ Cardinality(ChargedBytes') = Cardinality(ChargedBytes) + m
    <2> DEFINE own == {j} \X (1..m)
    <2>1. IsFiniteSet(own) /\ Cardinality(own) = m
      BY BytesOfOne
    <2>2. ChargedBytes' = ChargedBytes \cup own /\ ChargedBytes \cap own = {}
      BY <1>6, <1>7
    <2> HIDE DEF own
    <2> QED  BY <2>1, <2>2, DisjointUnion DEF AskedFinitely
  <1>9. AskedJobs' = AskedJobs \cup {j} /\ j \notin AskedJobs
    BY DEF AskedJobs, BlockingTypeOK
  <1>10. IsFiniteSet(AskedJobs') /\ Cardinality(AskedJobs') = Cardinality(AskedJobs) + 1
    BY <1>9, FS_AddElement DEF AskedFinitely
  <1>11. IsFiniteSet(Charged(Live))
    BY ChargedFinite DEF Live
  <1>12. Cardinality(Charged(Live)') = Cardinality(Charged(Live)) + 1
    BY <1>2, <1>11, FS_AddElement
  <1> QED  BY <1>1, <1>3, <1>8, <1>10, <1>12 DEF AskedFinitely

\* A job that starts is one more running.
LEMMA StartSets ==
  ASSUME BlockingTypeOK, AskedFinitely, NEW j \in Jobs, reservations[j].phase = "queued",
         reservations' = [reservations EXCEPT ![j].phase = "running"]
  PROVE  /\ reservations' \in [Jobs -> [phase : Phases, memory : Nat]]
         /\ AskedFinitely'
         /\ Charged(Live)' = Charged(Live)
         /\ Cardinality(Charged({"running"})') = Cardinality(Charged({"running"})) + 1
         /\ ChargedBytes' = ChargedBytes
         /\ AskedJobs' = AskedJobs
  <1>1. reservations' \in [Jobs -> [phase : Phases, memory : Nat]]
    BY DEF BlockingTypeOK, Phases
  <1>2. Charged(Live)' = Charged(Live)
    BY DEF Charged, Live, BlockingTypeOK
  <1>3. Charged({"running"})' = Charged({"running"}) \cup {j} /\ j \notin Charged({"running"})
    BY DEF Charged, BlockingTypeOK
  <1>4. \A k \in Charged(Live) : reservations'[k].memory = reservations[k].memory
    BY DEF Charged, Live, BlockingTypeOK
  <1>5. ChargedBytes' = ChargedBytes
    BY <1>2, <1>4 DEF ChargedBytes, Live
  <1>6. AskedJobs' = AskedJobs
    BY DEF AskedJobs, BlockingTypeOK
  <1>7. IsFiniteSet(Charged({"running"}))
    BY ChargedFinite
  <1>8. Cardinality(Charged({"running"})') = Cardinality(Charged({"running"})) + 1
    BY <1>3, <1>7, FS_AddElement
  <1> QED  BY <1>1, <1>2, <1>5, <1>6, <1>8 DEF AskedFinitely

\* A job that is over takes itself and its bytes away.
LEMMA DropSets ==
  ASSUME BlockingTypeOK, AskedFinitely, NEW j \in Jobs, reservations[j].phase \in Live,
         reservations' = [reservations EXCEPT ![j].phase = "over"]
  PROVE  /\ reservations' \in [Jobs -> [phase : Phases, memory : Nat]]
         /\ AskedFinitely'
         /\ Cardinality(Charged(Live)) \in Nat \ {0}
         /\ Cardinality(Charged(Live)') = Cardinality(Charged(Live)) - 1
         /\ reservations[j].phase = "running" =>
              /\ Cardinality(Charged({"running"})) \in Nat \ {0}
              /\ Cardinality(Charged({"running"})') = Cardinality(Charged({"running"})) - 1
         /\ reservations[j].phase = "queued" => Charged({"running"})' = Charged({"running"})
         /\ Cardinality(ChargedBytes') \in Nat
         /\ Cardinality(ChargedBytes') = Cardinality(ChargedBytes) - reservations[j].memory
         /\ AskedJobs' = AskedJobs
  <1>1. reservations' \in [Jobs -> [phase : Phases, memory : Nat]]
    BY DEF BlockingTypeOK, Phases
  <1>2. Charged(Live)' = Charged(Live) \ {j} /\ j \in Charged(Live)
    BY DEF Charged, Live, BlockingTypeOK
  <1>3. Charged({"running"})' = Charged({"running"}) \ {j}
    BY DEF Charged, BlockingTypeOK
  <1>4. \A k \in Charged(Live) : reservations'[k].memory = reservations[k].memory
    BY DEF Charged, Live, BlockingTypeOK
  <1>5. reservations[j].memory \in Nat
    BY DEF BlockingTypeOK
  <1> DEFINE own == {j} \X (1..reservations[j].memory)
  <1>6. ChargedBytes' = ChargedBytes \ own
    BY <1>2, <1>4 DEF ChargedBytes, Live
  <1>7. own \subseteq ChargedBytes
    BY <1>2 DEF ChargedBytes, Live
  <1>8. Cardinality(own) = reservations[j].memory
    BY <1>5, BytesOfOne
  <1>9. IsFiniteSet(ChargedBytes') /\ Cardinality(ChargedBytes') = Cardinality(ChargedBytes) - reservations[j].memory
    <2> HIDE DEF own
    <2> QED  BY <1>6, <1>7, <1>8, ContainedDifference DEF AskedFinitely
  <1>10. Cardinality(ChargedBytes') \in Nat
    BY <1>9, FS_CardinalityType
  <1>11. AskedJobs' = AskedJobs
    BY DEF AskedJobs, BlockingTypeOK, Live
  <1>12. IsFiniteSet(Charged(Live)) /\ Cardinality(Charged(Live)) \in Nat
    BY ChargedFinite DEF Live
  <1>13. Cardinality(Charged(Live)') = Cardinality(Charged(Live)) - 1
    BY <1>2, <1>12, FS_RemoveElement
  <1>14. Cardinality(Charged(Live)) # 0
    BY <1>2, <1>12, FS_EmptySet
  <1>15. IsFiniteSet(Charged({"running"})) /\ Cardinality(Charged({"running"})) \in Nat
    BY ChargedFinite
  <1>16. CASE reservations[j].phase = "running"
    <2>1. j \in Charged({"running"})
      BY <1>16 DEF Charged
    <2>2. Cardinality(Charged({"running"})') = Cardinality(Charged({"running"})) - 1
      BY <1>3, <1>15, <2>1, FS_RemoveElement
    <2>3. Cardinality(Charged({"running"})) # 0
      BY <1>15, <2>1, FS_EmptySet
    <2> QED
      BY <1>16, <1>1, <1>9, <1>10, <1>11, <1>12, <1>13, <1>14, <1>15, <2>2, <2>3 DEF AskedFinitely
  <1>17. CASE reservations[j].phase = "queued"
    <2>1. Charged({"running"})' = Charged({"running"})
      BY <1>3, <1>17 DEF Charged
    <2> QED
      BY <1>17, <1>1, <1>9, <1>10, <1>11, <1>12, <1>13, <1>14, <2>1 DEF AskedFinitely
  <1> QED  BY <1>16, <1>17 DEF Live

-----------------------------------------------------------------------------
(* One step, action by action.                                             *)

LEMMA CountersTyped ==
  ASSUME BlockingTypeOK
  PROVE  /\ budget.limits \in BlockingLimits /\ budget.closed \in BOOLEAN
         /\ budget.jobs \in Nat /\ budget.memory \in Nat /\ budget.running \in Nat
         /\ budget.admitted \in Nat /\ budget.completed \in Nat
         /\ budget.panicked \in Nat /\ budget.abandoned \in Nat
         /\ budget.refused.closed \in Nat /\ budget.refused.jobs \in Nat
         /\ budget.refused.memory \in Nat
  BY DEF BlockingTypeOK

\* The limits are those in force as long as neither changes and nobody publishes.
LEMMA LimitsStay ==
  ASSUME LimitsHeld, budget'.limits = budget.limits, UNCHANGED <<change, inForce>>
  PROVE  LimitsHeld'
  BY DEF LimitsHeld, Unlocked

LEMMA ReserveInv ==
  ASSUME BudgetInv, NEW j \in Jobs, NEW m \in MemoryBytes, ReserveBlocking(j, m)
  PROVE  BudgetInv'
  <1> USE DEF BudgetInv
  <1>1. m \in Nat
    BY BlockingAssumption
  <1>2. CASE Refusal(m) # "none"
    <2>1. reservations' = [reservations EXCEPT ![j].phase = "refused"] /\ reservations[j].phase = "none"
      BY <1>2 DEF ReserveBlocking
    <2>2. budget' = [budget EXCEPT !.refused[Refusal(m)] = @ + 1]
      BY <1>2 DEF ReserveBlocking
    <2>3. Refusal(m) \in {"closed", "jobs", "memory"}
      BY <1>2 DEF Refusal
    <2> DEFINE c == budget.refused.closed
               b == budget.refused.jobs
               y == budget.refused.memory
    <2>4. /\ c \in Nat /\ b \in Nat /\ y \in Nat
          /\ c + 1 \in Nat /\ b + 1 \in Nat /\ y + 1 \in Nat
      BY CountersTyped
    <2>5. PICK u \in [closed : Nat, jobs : Nat, memory : Nat] :
            /\ budget' = [budget EXCEPT !.refused = u]
            /\ u.closed + u.jobs + u.memory = Refusals + 1
      <3>1. CASE Refusal(m) = "closed"
        <4>1. budget' = [budget EXCEPT !.refused = [closed |-> c + 1, jobs |-> b, memory |-> y]]
          BY <2>2, <3>1 DEF BlockingTypeOK
        <4>2. [closed |-> c + 1, jobs |-> b, memory |-> y] \in [closed : Nat, jobs : Nat, memory : Nat]
          BY <2>4
        <4>3. LET u == [closed |-> c + 1, jobs |-> b, memory |-> y] IN u.closed + u.jobs + u.memory = Refusals + 1
          BY <2>4 DEF Refusals
        <4> QED  BY <4>1, <4>2, <4>3
      <3>2. CASE Refusal(m) = "jobs"
        <4>1. budget' = [budget EXCEPT !.refused = [closed |-> c, jobs |-> b + 1, memory |-> y]]
          BY <2>2, <3>2 DEF BlockingTypeOK
        <4>2. [closed |-> c, jobs |-> b + 1, memory |-> y] \in [closed : Nat, jobs : Nat, memory : Nat]
          BY <2>4
        <4>3. LET u == [closed |-> c, jobs |-> b + 1, memory |-> y] IN u.closed + u.jobs + u.memory = Refusals + 1
          BY <2>4 DEF Refusals
        <4> QED  BY <4>1, <4>2, <4>3
      <3>3. CASE Refusal(m) = "memory"
        <4>1. budget' = [budget EXCEPT !.refused = [closed |-> c, jobs |-> b, memory |-> y + 1]]
          BY <2>2, <3>3 DEF BlockingTypeOK
        <4>2. [closed |-> c, jobs |-> b, memory |-> y + 1] \in [closed : Nat, jobs : Nat, memory : Nat]
          BY <2>4
        <4>3. LET u == [closed |-> c, jobs |-> b, memory |-> y + 1] IN u.closed + u.jobs + u.memory = Refusals + 1
          BY <2>4 DEF Refusals
        <4> QED  BY <4>1, <4>2, <4>3
      <3> QED  BY <2>3, <3>1, <3>2, <3>3
    <2>6. /\ reservations' \in [Jobs -> [phase : Phases, memory : Nat]]
          /\ AskedFinitely'
          /\ Charged(Live)' = Charged(Live) /\ Charged({"running"})' = Charged({"running"})
          /\ ChargedBytes' = ChargedBytes
          /\ Cardinality(AskedJobs') = Cardinality(AskedJobs) + 1
      BY <2>1, RefuseSets
    <2>7. BlockingTypeOK'
      BY <2>5, <2>6 DEF BlockingTypeOK, ReserveBlocking
    <2>8. LimitsHeld'
      BY <2>5, LimitsStay DEF ReserveBlocking, BlockingTypeOK
    <2>9. /\ budget'.jobs = budget.jobs /\ budget'.running = budget.running
          /\ budget'.memory = budget.memory /\ budget'.admitted = budget.admitted
          /\ budget'.completed = budget.completed /\ budget'.panicked = budget.panicked
          /\ budget'.abandoned = budget.abandoned
          /\ Refusals' = Refusals + 1
      BY <2>5 DEF Refusals, BlockingTypeOK
    <2>10. Refusals \in Nat
      BY CountersTyped DEF Refusals
    <2>11. BudgetAccounts'
      BY <2>6, <2>9, <2>10, CountersTyped DEF BudgetAccounts, Live
    <2> QED  BY <2>6, <2>7, <2>8, <2>11
  <1>3. CASE Refusal(m) = "none"
    <2>1. /\ reservations' = [reservations EXCEPT ![j] = [phase |-> "queued", memory |-> m]]
          /\ reservations[j].phase = "none"
          /\ budget' = [budget EXCEPT !.jobs = @ + 1, !.memory = @ + m, !.admitted = @ + 1]
      BY <1>3 DEF ReserveBlocking
    <2>2. /\ budget.jobs + 1 \in Nat /\ budget.memory + m \in Nat /\ budget.admitted + 1 \in Nat
      BY <1>1, CountersTyped
    <2>3. /\ reservations' \in [Jobs -> [phase : Phases, memory : Nat]]
          /\ AskedFinitely'
          /\ Cardinality(Charged(Live)') = Cardinality(Charged(Live)) + 1
          /\ Charged({"running"})' = Charged({"running"})
          /\ Cardinality(ChargedBytes') = Cardinality(ChargedBytes) + m
          /\ Cardinality(AskedJobs') = Cardinality(AskedJobs) + 1
      BY <1>1, <2>1, AdmitSets
    <2>4. BlockingTypeOK'
      BY <2>1, <2>2, <2>3 DEF BlockingTypeOK, ReserveBlocking
    <2>5. LimitsHeld'
      BY <2>1, LimitsStay DEF ReserveBlocking, BlockingTypeOK
    <2>6. /\ budget'.jobs = budget.jobs + 1 /\ budget'.running = budget.running
          /\ budget'.memory = budget.memory + m /\ budget'.admitted = budget.admitted + 1
          /\ budget'.completed = budget.completed /\ budget'.panicked = budget.panicked
          /\ budget'.abandoned = budget.abandoned /\ Refusals' = Refusals
      BY <2>1 DEF Refusals, BlockingTypeOK
    <2>7. Refusals \in Nat
      BY CountersTyped DEF Refusals
    <2>8. BudgetAccounts'
      BY <2>3, <2>6, <2>7, CountersTyped DEF BudgetAccounts, Live
    <2> QED  BY <2>3, <2>4, <2>5, <2>8
  <1> QED  BY <1>2, <1>3

LEMMA StartInv ==
  ASSUME BudgetInv, NEW j \in Jobs, StartBlocking(j)
  PROVE  BudgetInv'
  <1> USE DEF BudgetInv
  <1>1. /\ reservations' = [reservations EXCEPT ![j].phase = "running"]
        /\ reservations[j].phase = "queued"
        /\ budget' = [budget EXCEPT !.running = @ + 1]
    BY DEF StartBlocking
  <1>2. budget.running + 1 \in Nat
    BY CountersTyped
  <1>3. /\ reservations' \in [Jobs -> [phase : Phases, memory : Nat]]
        /\ AskedFinitely'
        /\ Charged(Live)' = Charged(Live)
        /\ Cardinality(Charged({"running"})') = Cardinality(Charged({"running"})) + 1
        /\ ChargedBytes' = ChargedBytes
        /\ AskedJobs' = AskedJobs
    BY <1>1, StartSets
  <1>4. BlockingTypeOK'
    BY <1>1, <1>2, <1>3 DEF BlockingTypeOK, StartBlocking
  <1>5. LimitsHeld'
    BY <1>1, LimitsStay DEF StartBlocking, BlockingTypeOK
  <1>6. /\ budget'.jobs = budget.jobs /\ budget'.running = budget.running + 1
        /\ budget'.memory = budget.memory /\ budget'.admitted = budget.admitted
        /\ budget'.completed = budget.completed /\ budget'.panicked = budget.panicked
        /\ budget'.abandoned = budget.abandoned /\ Refusals' = Refusals
    BY <1>1 DEF Refusals, BlockingTypeOK
  <1>7. BudgetAccounts'
    BY <1>3, <1>6 DEF BudgetAccounts, Live
  <1> QED  BY <1>3, <1>4, <1>5, <1>7

LEMMA DropInv ==
  ASSUME BudgetInv, NEW j \in Jobs, NEW returned \in BOOLEAN, DropReservation(j, returned)
  PROVE  BudgetInv'
  <1> USE DEF BudgetInv
  <1> DEFINE jobs == budget.jobs - 1
             memory == budget.memory - reservations[j].memory
             running == budget.running - 1
             completed == budget.completed + 1
             panicked == budget.panicked + 1
             abandoned == budget.abandoned + 1
  <1>1. /\ reservations' = [reservations EXCEPT ![j].phase = "over"]
        /\ reservations[j].phase \in Live
        /\ returned => reservations[j].phase = "running"
        /\ budget' = Settle(j, returned)
        /\ UNCHANGED <<change, inForce>>
    BY DEF DropReservation, Live
  <1>2. /\ reservations' \in [Jobs -> [phase : Phases, memory : Nat]]
        /\ AskedFinitely'
        /\ Cardinality(Charged(Live)) \in Nat \ {0}
        /\ Cardinality(Charged(Live)') = Cardinality(Charged(Live)) - 1
        /\ reservations[j].phase = "running" =>
             /\ Cardinality(Charged({"running"})) \in Nat \ {0}
             /\ Cardinality(Charged({"running"})') = Cardinality(Charged({"running"})) - 1
        /\ reservations[j].phase = "queued" => Charged({"running"})' = Charged({"running"})
        /\ Cardinality(ChargedBytes') \in Nat
        /\ Cardinality(ChargedBytes') = Cardinality(ChargedBytes) - reservations[j].memory
        /\ AskedJobs' = AskedJobs
    BY <1>1, DropSets
  <1>3. /\ jobs \in Nat /\ memory \in Nat /\ completed \in Nat /\ panicked \in Nat /\ abandoned \in Nat
        /\ reservations[j].phase = "running" => running \in Nat
    BY <1>2, CountersTyped DEF BudgetAccounts, Live
  <1>4. /\ reservations[j].phase = "queued" =>
             budget' = [budget EXCEPT !.jobs = jobs, !.memory = memory, !.abandoned = abandoned]
        /\ reservations[j].phase = "running" =>
             \/ budget' = [budget EXCEPT !.jobs = jobs, !.memory = memory, !.running = running,
                                         !.completed = completed]
             \/ budget' = [budget EXCEPT !.jobs = jobs, !.memory = memory, !.running = running,
                                         !.panicked = panicked]
    BY <1>1 DEF Settle, BlockingTypeOK
  <1>5. /\ jobs = Cardinality(Charged(Live)')
        /\ memory = Cardinality(ChargedBytes')
        /\ reservations[j].phase = "running" => running = Cardinality(Charged({"running"})')
        /\ reservations[j].phase = "queued" => budget.running = Cardinality(Charged({"running"})')
    BY <1>2 DEF BudgetAccounts, Live
  <1>6. /\ budget.admitted = jobs + budget.completed + budget.panicked + abandoned
        /\ budget.admitted = jobs + completed + budget.panicked + budget.abandoned
        /\ budget.admitted = jobs + budget.completed + panicked + budget.abandoned
    <2>1. budget.admitted = budget.jobs + budget.completed + budget.panicked + budget.abandoned
      BY DEF BudgetAccounts
    <2>2. /\ budget.jobs \in Nat /\ budget.completed \in Nat /\ budget.panicked \in Nat
          /\ budget.abandoned \in Nat /\ budget.admitted \in Nat
      BY CountersTyped
    <2>3. \A t, a, b, c, d \in Nat : t = a + b + c + d =>
            /\ t = (a - 1) + b + c + (d + 1)
            /\ t = (a - 1) + (b + 1) + c + d
            /\ t = (a - 1) + b + (c + 1) + d
      OBVIOUS
    <2> QED  BY <2>1, <2>2, <2>3
  <1> HIDE DEF jobs, memory, running, completed, panicked, abandoned
  <1>7. CASE reservations[j].phase = "queued"
    <2>1. budget' = [budget EXCEPT !.jobs = jobs, !.memory = memory, !.abandoned = abandoned]
      BY <1>4, <1>7
    <2>2. BlockingTypeOK'
      BY <1>1, <1>2, <1>3, <2>1 DEF BlockingTypeOK
    <2>3. LimitsHeld'
      BY <1>1, <2>1, LimitsStay DEF BlockingTypeOK
    <2>4. BudgetAccounts'
      BY <1>2, <1>5, <1>6, <1>7, <2>1 DEF BudgetAccounts, Refusals, Live, BlockingTypeOK
    <2> QED  BY <1>2, <2>2, <2>3, <2>4
  <1>8. ASSUME reservations[j].phase = "running",
               budget' = [budget EXCEPT !.jobs = jobs, !.memory = memory, !.running = running,
                                        !.completed = completed]
        PROVE  BudgetInv'
    <2>2. BlockingTypeOK'
      BY <1>1, <1>2, <1>3, <1>8 DEF BlockingTypeOK
    <2>3. LimitsHeld'
      BY <1>1, <1>8, LimitsStay DEF BlockingTypeOK
    <2>4. BudgetAccounts'
      BY <1>2, <1>5, <1>6, <1>8 DEF BudgetAccounts, Refusals, Live, BlockingTypeOK
    <2> QED  BY <1>2, <2>2, <2>3, <2>4
  <1>9. ASSUME reservations[j].phase = "running",
               budget' = [budget EXCEPT !.jobs = jobs, !.memory = memory, !.running = running,
                                        !.panicked = panicked]
        PROVE  BudgetInv'
    <2>2. BlockingTypeOK'
      BY <1>1, <1>2, <1>3, <1>9 DEF BlockingTypeOK
    <2>3. LimitsHeld'
      BY <1>1, <1>9, LimitsStay DEF BlockingTypeOK
    <2>4. BudgetAccounts'
      BY <1>2, <1>5, <1>6, <1>9 DEF BudgetAccounts, Refusals, Live, BlockingTypeOK
    <2> QED  BY <1>2, <2>2, <2>3, <2>4
  <1> QED  BY <1>1, <1>4, <1>7, <1>8, <1>9 DEF Live

\* What is charged does not move when only limits, or the flag, do.
LEMMA LimitsOnly ==
  ASSUME BudgetInv, UNCHANGED reservations,
         \/ UNCHANGED budget
         \/ \E l \in BlockingLimits : budget' = [budget EXCEPT !.limits = l]
         \/ budget' = [budget EXCEPT !.closed = TRUE]
  PROVE  AskedFinitely' /\ BudgetAccounts'
  <1>1. /\ AskedJobs' = AskedJobs /\ ChargedBytes' = ChargedBytes
        /\ Charged({"queued", "running"})' = Charged({"queued", "running"})
        /\ Charged({"running"})' = Charged({"running"})
    BY DEF AskedJobs, ChargedBytes, Charged
  <1>2. /\ budget'.jobs = budget.jobs /\ budget'.running = budget.running
        /\ budget'.memory = budget.memory /\ budget'.admitted = budget.admitted
        /\ budget'.completed = budget.completed /\ budget'.panicked = budget.panicked
        /\ budget'.abandoned = budget.abandoned /\ budget'.refused = budget.refused
    BY DEF BudgetInv, BlockingTypeOK
  <1> QED  BY <1>1, <1>2 DEF BudgetInv, AskedFinitely, BudgetAccounts, Refusals

LEMMA BudgetSteps == BudgetInv /\ [BlockingNext]_blockingVars => BudgetInv'
  <1> SUFFICES ASSUME BudgetInv, [BlockingNext]_blockingVars PROVE BudgetInv'
    OBVIOUS
  <1> USE DEF BudgetInv
  <1>1. ASSUME NEW l \in BlockingLimits, PrepareLimits(l) PROVE BudgetInv'
    <2>1. AskedFinitely' /\ BudgetAccounts'
      BY <1>1, LimitsOnly DEF PrepareLimits
    <2>2. BlockingTypeOK' /\ LimitsHeld'
      BY <1>1 DEF PrepareLimits, BlockingTypeOK, LimitsHeld, Unlocked
    <2> QED  BY <2>1, <2>2
  <1>2. ASSUME NEW l \in BlockingLimits, Reconfigure(l) PROVE BudgetInv'
    <2>1. AskedFinitely' /\ BudgetAccounts'
      BY <1>2, LimitsOnly DEF Reconfigure
    <2>2. BlockingTypeOK' /\ LimitsHeld'
      BY <1>2 DEF Reconfigure, BlockingTypeOK, LimitsHeld, Unlocked
    <2> QED  BY <2>1, <2>2
  <1>3. CASE BeginPublication
    <2>1. change.limits \in BlockingLimits /\ budget.limits \in BlockingLimits
      BY <1>3 DEF BeginPublication, BlockingTypeOK
    <2>2. AskedFinitely' /\ BudgetAccounts'
      BY <1>3, <2>1, LimitsOnly DEF BeginPublication
    <2>3. BlockingTypeOK' /\ LimitsHeld'
      BY <1>3, <2>1 DEF BeginPublication, BlockingTypeOK, LimitsHeld, Unlocked
    <2> QED  BY <2>2, <2>3
  <1>4. ASSUME NEW kept \in BOOLEAN, EndPublication(kept) PROVE BudgetInv'
    <2>1. change.limits \in BlockingLimits /\ change.previous \in BlockingLimits
      BY <1>4 DEF EndPublication, BlockingTypeOK
    <2>2. AskedFinitely' /\ BudgetAccounts'
      BY <1>4, <2>1, LimitsOnly DEF EndPublication, RolledBack
    <2>3. BlockingTypeOK' /\ LimitsHeld'
      <3>1. change' = [pc |-> "none"] /\ UNCHANGED reservations /\ change.pc = "publishing"
        BY <1>4 DEF EndPublication, NoChange
      <3>2. CASE kept
        <4>1. UNCHANGED budget /\ inForce' = change.limits
          BY <1>4, <3>2 DEF EndPublication
        <4>2. budget.limits = change.limits
          BY <3>1 DEF LimitsHeld, Unlocked
        <4> QED  BY <2>1, <3>1, <4>1, <4>2 DEF BlockingTypeOK, LimitsHeld, Unlocked
      <3>3. CASE ~kept
        <4>1. budget' = [budget EXCEPT !.limits = change.previous] /\ UNCHANGED inForce
          BY <1>4, <3>3 DEF EndPublication, RolledBack
        <4> QED  BY <2>1, <3>1, <4>1 DEF BlockingTypeOK, LimitsHeld, Unlocked
      <3> QED  BY <3>2, <3>3
    <2> QED  BY <2>2, <2>3
  <1>5. CASE DropChange
    <2>1. AskedFinitely' /\ BudgetAccounts'
      BY <1>5, LimitsOnly DEF DropChange
    <2>2. BlockingTypeOK' /\ LimitsHeld'
      BY <1>5 DEF DropChange, BlockingTypeOK, LimitsHeld, Unlocked, NoChange
    <2> QED  BY <2>1, <2>2
  <1>6. CASE CloseBudget
    <2>1. AskedFinitely' /\ BudgetAccounts'
      BY <1>6, LimitsOnly DEF CloseBudget
    <2>2. BlockingTypeOK' /\ LimitsHeld'
      BY <1>6 DEF CloseBudget, BlockingTypeOK, LimitsHeld, Unlocked
    <2> QED  BY <2>1, <2>2
  <1>7. CASE UNCHANGED blockingVars
    <2>1. AskedFinitely' /\ BudgetAccounts'
      BY <1>7, LimitsOnly DEF blockingVars
    <2>2. BlockingTypeOK' /\ LimitsHeld'
      BY <1>7 DEF blockingVars, BlockingTypeOK, LimitsHeld, Unlocked
    <2> QED  BY <2>1, <2>2
  <1> QED
    BY <1>1, <1>2, <1>3, <1>4, <1>5, <1>6, <1>7, ReserveInv, StartInv, DropInv DEF BlockingNext

-----------------------------------------------------------------------------
LEMMA BlockingInvariant == BlockingSpec => []BudgetInv
  BY BudgetStarts, BudgetSteps, PTL DEF BlockingSpec

\* What Executor::reserve, Reservation::start and Reservation::drop count is, in every order of
\* them and through every change of limits, exactly what closures still exist: no subtraction of
\* Reservation::drop can wrap, and no job is counted twice or not at all.
THEOREM BudgetExact == BlockingSpec => []BudgetAccounts
  BY BlockingInvariant, PTL DEF BudgetInv

\* Executor::reserve admits nothing beyond the limits of the generation in force, nor after
\* Budget::close, whatever publications begin, fail or are dropped around it.
THEOREM AdmissionWithinLimits == BlockingSpec => AdmitsWithinBudget
  <1>1. BudgetInv /\ [BlockingNext]_blockingVars =>
          [budget'.admitted > budget.admitted =>
             /\ ~budget.closed
             /\ budget'.jobs <= inForce.jobs /\ budget'.memory <= inForce.memory]_blockingVars
    <2> SUFFICES ASSUME BudgetInv, BlockingNext, budget'.admitted > budget.admitted
                 PROVE  /\ ~budget.closed
                        /\ budget'.jobs <= inForce.jobs /\ budget'.memory <= inForce.memory
      BY DEF blockingVars
    <2> USE DEF BudgetInv
    <2>1. ASSUME NEW j \in Jobs, NEW m \in MemoryBytes, ReserveBlocking(j, m)
          PROVE  /\ ~budget.closed
                 /\ budget'.jobs <= inForce.jobs /\ budget'.memory <= inForce.memory
      <3>1. Refusal(m) = "none"
        <4>1. CASE Refusal(m) # "none"
          <5>1. budget'.admitted = budget.admitted
            BY <2>1, <4>1 DEF ReserveBlocking, BlockingTypeOK
          <5> QED  BY <5>1, CountersTyped
        <4> QED  BY <4>1
      <3>2. /\ ~budget.closed /\ ~(budget.jobs >= budget.limits.jobs)
            /\ ~(budget.memory + m > budget.limits.memory)
        BY <3>1 DEF Refusal
      <3>3. budget.limits = inForce
        BY <2>1 DEF ReserveBlocking, LimitsHeld
      <3>4. budget'.jobs = budget.jobs + 1 /\ budget'.memory = budget.memory + m
        BY <2>1, <3>1 DEF ReserveBlocking, BlockingTypeOK
      <3>5. m \in Nat /\ inForce.jobs \in Nat /\ inForce.memory \in Nat
        BY BlockingAssumption, LimitsTyped DEF BlockingTypeOK
      <3> QED  BY <3>2, <3>3, <3>4, <3>5, CountersTyped
    <2>2. CASE \/ \E j \in Jobs : StartBlocking(j) \/ \E returned \in BOOLEAN : DropReservation(j, returned)
               \/ \E l \in BlockingLimits : PrepareLimits(l) \/ Reconfigure(l)
               \/ BeginPublication \/ DropChange \/ CloseBudget
               \/ \E kept \in BOOLEAN : EndPublication(kept)
      <3>1. budget'.admitted = budget.admitted
        BY <2>2 DEF StartBlocking, DropReservation, Settle, PrepareLimits, Reconfigure, BeginPublication,
                    DropChange, CloseBudget, EndPublication, RolledBack, BlockingTypeOK
      <3> QED  BY <3>1, CountersTyped
    <2> QED  BY <2>1, <2>2 DEF BlockingNext
  <1> QED  BY <1>1, BlockingInvariant, PTL DEF BlockingSpec, AdmitsWithinBudget
=============================================================================
