----------------------------- MODULE Upstreams -----------------------------
(***************************************************************************)
(* One upstream across reloads: the state registry (registry.rs), what a   *)
(* candidate binds from it (upstream.rs, collect_bindings of plan.rs), and *)
(* the supervisor's workers (supervisor.rs, resolve.rs, worker.rs).        *)
(*                                                                         *)
(* The endpoint set and the connection pool are shared objects: a reload   *)
(* that is compatible reuses them, any other replaces them, and requests,  *)
(* candidates and workers that began earlier keep what they hold.  A spec  *)
(* is abstracted to what decides between the two:                          *)
(*   targets  endpoint identities and targets                              *)
(*   wire     protocol and TLS policy                                      *)
(*   health   the active check, NoCheck when there is none                 *)
(*   limit    pool sizes and lifetimes                                     *)
(*   lookup   how often, how long and in which family names are looked up  *)
(*                                                                         *)
(* As AppHost's reload_execution guarantees, one candidate is prepared at  *)
(* a time, and the activation that follows a publication ends before the   *)
(* next one is prepared.  The selector is bound like the endpoint set, and *)
(* the contents of the pool are not state of this module.                  *)
(***************************************************************************)
EXTENDS Integers, Sequences

CONSTANTS Targets,     \* endpoint lists an upstream may be given
          Names,       \* those written as names
          Wires,       \* protocol and TLS policy
          Secured,     \* those with TLS
          Checks,      \* active health checks
          NoCheck,     \* no active health check
          Limits,      \* pool limits
          Lookups,     \* lookup policies
          Offered,     \* the specs operators write, a subset of Specs
          Materials,   \* identities of the authority and key files
          Addresses,   \* what a name may resolve to
          Objects,     \* identities of endpoint sets and pools, 1..n
          MaxGen       \* bound on publications

Specs == [targets : Targets, wire : Wires, health : Checks \cup {NoCheck},
          limit : Limits, lookup : Lookups]

ASSUME UpstreamsAssumption ==
  /\ Offered \subseteq Specs
  /\ Names \subseteq Targets
  /\ Secured \subseteq Wires
  /\ NoCheck \notin Checks
  /\ 0 \notin Materials /\ 0 \notin Addresses
  /\ Objects \subseteq Nat \ {0}
  \* more than can be referred to while a candidate is prepared
  /\ \A a, b, c, d, e \in Objects \cup {0} : Objects \ {a, b, c, d, e} # {}
  /\ MaxGen \in Nat

VARIABLES generation,  \* number of the current generation
          serving,     \* the current generation's UpstreamRuntime
          registry,    \* StateRegistry: the upstream's set and pool
          addresses,   \* of each endpoint set: what its name resolved to
          limits,      \* of each pool: the limits and lookup policy in force
          cand,        \* the candidate that is being prepared
          act,         \* how far activation is
          closed,      \* Supervisor.closed
          resolver,    \* Supervisor.resolvers: the upstream's entry
          probe,       \* Supervisor.workers: the upstream's entry
          request,     \* a request that holds some generation's runtime
          dns,         \* what the name resolves to
          files        \* the TLS material on disk

bound == <<generation, serving, registry, limits>>
workers == <<resolver, probe>>
world == <<dns, files>>
vars == <<bound, addresses, cand, act, closed, workers, request, world>>

\* A reference: the object, and what it was built with.
NoSet == [id |-> 0, compat |-> <<>>, active |-> NoCheck]
NoPool == [id |-> 0, compat |-> <<>>, material |-> 0]
NoPolicy == <<>>
NoSpec == [targets |-> "none"]  \* the plan has no such upstream
NoRuntime == [spec |-> NoSpec, material |-> 0, set |-> NoSet, pool |-> NoPool]
NoCand == [ready |-> FALSE, runtime |-> NoRuntime]
NoWorker == [on |-> FALSE]
NoRequest == [pc |-> "none", runtime |-> NoRuntime, answer |-> 0]

Init ==
  /\ generation = 0
  /\ serving = NoRuntime
  /\ registry = [set |-> NoSet, pool |-> NoPool]
  /\ addresses = [o \in Objects |-> 0]
  /\ limits = [o \in Objects |-> NoPolicy]
  /\ cand = NoCand
  /\ act = "idle"
  /\ closed = FALSE
  /\ resolver = NoWorker
  /\ probe = NoWorker
  /\ request = NoRequest
  /\ dns \in Addresses
  /\ files \in Materials

-----------------------------------------------------------------------------
(* Preparation: a private copy of the registry, bound to the new plan.     *)

\* Every Arc<UpstreamRuntime> somebody holds.
Runtimes ==
  {serving, request.runtime, cand.runtime}
    \cup {w.runtime : w \in {v \in {resolver, probe} : v.on}}

\* The last Arc to go frees the object.
Kept(values, used, none) == [o \in Objects |-> IF o \in used THEN values[o] ELSE none]
KeptSets(values, runtimes) == Kept(values, {r.set.id : r \in runtimes}, 0)
KeptPools(values, runtimes) == Kept(values, {r.pool.id : r \in runtimes}, NoPolicy)
Frees ==
  /\ addresses' = KeptSets(addresses, Runtimes')
  /\ limits' = KeptPools(limits, Runtimes')

\* An identity nobody refers to.
Fresh(used) == CHOOSE o \in Objects \ used : \A p \in Objects \ used : o <= p
FreshSet == Fresh({registry.set.id} \cup {r.set.id : r \in Runtimes})
FreshPool == Fresh({registry.pool.id} \cup {r.pool.id : r \in Runtimes})

\* What ConnectionPool::adopt takes from a plan.
Policy(spec) == <<spec.limit, spec.lookup>>

\* collect_bindings: what must not change for an object to be reused.
Transport(spec) == <<spec.targets, spec.wire>>

\* prepare adds the identity of the loaded material to the pool's.
PoolCompatUnloaded(spec, material) ==  \* mutant: the loaded material is left out
  Append(Transport(spec), 0)

PoolCompat(spec, material) == Append(Transport(spec), material)

\* StateRegistry::bind, of the candidate's private copy.
BindSet(spec) ==
  IF registry.set.compat = Transport(spec) THEN registry.set
  ELSE [id |-> FreshSet, compat |-> Transport(spec), active |-> spec.health]

BindPoolResized(spec, material) ==  \* mutant: another limit makes another pool
  IF /\ registry.pool.compat = PoolCompat(spec, material)
     /\ limits[registry.pool.id] = Policy(spec)
  THEN registry.pool
  ELSE [id |-> FreshPool, compat |-> PoolCompat(spec, material), material |-> material]

BindPool(spec, material) ==
  IF registry.pool.compat = PoolCompat(spec, material) THEN registry.pool
  ELSE [id |-> FreshPool, compat |-> PoolCompat(spec, material), material |-> material]

\* An address is known from the start; a name has to be looked up.
Written(spec) == IF spec.targets \in Names THEN 0 ELSE CHOOSE a \in Addresses : TRUE

\* A kept pool holds the previous numbers until publication.
StagedLimitsAdopted(pool, spec) ==  \* mutant: preparation already adopts
  [limits EXCEPT ![pool.id] = Policy(spec)]

StagedLimits(pool, spec) ==
  IF pool = registry.pool THEN limits ELSE [limits EXCEPT ![pool.id] = Policy(spec)]

\* StateRegistry::stage, UpstreamRuntimes::prepare and retain.
Stage(spec) ==
  LET material == IF spec.wire \in Secured THEN files ELSE 0
      set == BindSet(spec)
      pool == BindPool(spec, material)
  IN /\ ~cand.ready
     /\ act = "idle"
     /\ ~closed
     /\ cand' = [ready |-> TRUE, runtime |-> [spec |-> spec, material |-> material,
                                             set |-> set, pool |-> pool]]
     /\ addresses' = IF set = registry.set THEN addresses
                     ELSE [addresses EXCEPT ![set.id] = Written(spec)]
     /\ limits' = StagedLimits(pool, spec)
     /\ UNCHANGED <<generation, serving, registry, act, closed, workers, request, world>>

\* The new plan has no such upstream: retain forgets what it had.
StageWithout ==
  /\ ~cand.ready
  /\ act = "idle"
  /\ ~closed
  /\ cand' = [ready |-> TRUE, runtime |-> NoRuntime]
  /\ UNCHANGED <<bound, addresses, act, closed, workers, request, world>>

\* A later part of prepare fails, or the store refuses to commit.
Discard ==
  /\ cand.ready
  /\ cand' = NoCand
  /\ UNCHANGED <<generation, serving, registry, act, closed, workers, request, world>>
  /\ Frees

-----------------------------------------------------------------------------
(* Publication, under the store's write lock and the registry's.           *)

AdoptedNew(r) ==  \* mutant: a kept pool keeps its numbers
  limits

Adopted(r) ==
  IF r.pool = NoPool THEN limits ELSE [limits EXCEPT ![r.pool.id] = Policy(r.spec)]

\* adopt_policies and StatePublication::publish, which replaces the whole
\* registry: the retain that activation repeats has nothing left to forget.
Publish ==
  LET r == cand.runtime
  IN /\ cand.ready
     /\ ~closed
     /\ generation < MaxGen
     /\ generation' = generation + 1
     /\ serving' = r
     /\ registry' = [set |-> r.set, pool |-> r.pool]
     /\ cand' = NoCand
     /\ act' = "census"
     /\ UNCHANGED <<closed, workers, request, world>>
     /\ addresses' = KeptSets(addresses, Runtimes')
     /\ limits' = KeptPools(Adopted(r), Runtimes')

-----------------------------------------------------------------------------
(* Activation: Supervisor::reconcile, part by part.                        *)

\* Census::follow.
Follow ==
  /\ act = "census"
  /\ act' = "resolvers"
  /\ UNCHANGED <<bound, addresses, cand, closed, workers, request, world>>

\* Started, kept because its identity is the same, or stopped and joined.  A
\* supervised task does not finish by itself.
Reconciled(worker, wanted, identity) ==
  CASE ~wanted -> NoWorker
    [] wanted /\ worker.on /\ worker.identity = identity -> worker
    [] OTHER -> [on |-> TRUE, identity |-> identity, runtime |-> serving,
                 pc |-> "working", answer |-> 0]

WantsNames == serving.spec # NoSpec /\ serving.spec.targets \in Names
WantsProbes == serving.spec # NoSpec /\ serving.spec.health # NoCheck

\* resolve::worker_identity and supervisor::worker_identity.
ResolverIdentity == <<serving.spec.targets, serving.spec.lookup>>
ProbeIdentityBlind ==  \* mutant: the TLS policy and material are left out
  <<serving.spec.targets, serving.spec.health>>
ProbeIdentity ==
  <<serving.spec.targets, serving.spec.health, serving.spec.wire, serving.material>>

ReconcileResolvers ==
  /\ act = "resolvers"
  /\ act' = "probes"
  /\ resolver' = Reconciled(resolver, WantsNames, IF WantsNames THEN ResolverIdentity ELSE <<>>)
  /\ UNCHANGED <<generation, serving, registry, cand, closed, probe, request, world>>
  /\ Frees

ReconcileProbes ==
  /\ act = "probes"
  /\ act' = "idle"
  /\ probe' = Reconciled(probe, WantsProbes, IF WantsProbes THEN ProbeIdentity ELSE <<>>)
  /\ UNCHANGED <<generation, serving, registry, cand, closed, resolver, request, world>>
  /\ Frees

\* Supervisor::shutdown, after the store was sealed and every reload has ended.
Shutdown ==
  /\ act = "idle"
  /\ ~cand.ready
  /\ ~closed
  /\ closed' = TRUE
  /\ resolver' = NoWorker
  /\ probe' = NoWorker
  /\ UNCHANGED <<generation, serving, registry, cand, act, request, world>>
  /\ Frees

-----------------------------------------------------------------------------
(* The resolver: look up, record, sleep.  Its task is restarted by         *)
(* supervise after a panic.                                                *)

ResolverGoes(from, to, answer) ==
  /\ resolver.on
  /\ resolver.pc \in from
  /\ resolver' = [resolver EXCEPT !.pc = to, !.answer = answer]
  /\ UNCHANGED <<bound, cand, act, closed, probe, request, world>>

Answers == ResolverGoes({"working"}, "answered", dns) /\ UNCHANGED addresses
NoAnswer == ResolverGoes({"working"}, "asleep", 0) /\ UNCHANGED addresses
Panics == ResolverGoes({"working", "answered"}, "backoff", 0) /\ UNCHANGED addresses
WakesNever == FALSE /\ UNCHANGED vars  \* mutant: the round is run once
Wakes == ResolverGoes({"asleep", "backoff"}, "working", 0) /\ UNCHANGED addresses

Records ==
  /\ ResolverGoes({"answered"}, "asleep", 0)
  /\ addresses' = [addresses EXCEPT ![resolver.runtime.set.id] = resolver.answer]

-----------------------------------------------------------------------------
(* A request of the current generation that finds no address looks the     *)
(* name up itself (addresses_for).  It may be answered after its           *)
(* generation is gone, and after the resolver has recorded a newer answer. *)

RequestGoes(from, to) ==
  /\ request.pc = from
  /\ request' = to
  /\ UNCHANGED <<generation, serving, registry, cand, act, closed, workers, world>>

Arrives ==
  /\ serving.spec # NoSpec
  /\ addresses[serving.set.id] = 0
  /\ RequestGoes("none", [pc |-> "lookup", runtime |-> serving, answer |-> 0])
  /\ UNCHANGED <<addresses, limits>>

LooksUp ==
  /\ RequestGoes("lookup", [request EXCEPT !.pc = "answered", !.answer = dns])
  /\ UNCHANGED <<addresses, limits>>

FoundOnDemand ==
  /\ RequestGoes("answered", NoRequest)
  /\ addresses' = KeptSets([addresses EXCEPT ![request.runtime.set.id] = request.answer],
                           Runtimes')
  /\ limits' = KeptPools(limits, Runtimes')

\* No answer, or the client went away.
GivesUp == \E from \in {"lookup", "answered"} : RequestGoes(from, NoRequest) /\ Frees

-----------------------------------------------------------------------------
(* The world.                                                              *)

NameMoves ==
  /\ dns' \in Addresses \ {dns}
  /\ UNCHANGED <<bound, addresses, cand, act, closed, workers, request, files>>

FilesReplaced ==
  /\ files' \in Materials \ {files}
  /\ UNCHANGED <<bound, addresses, cand, act, closed, workers, request, dns>>

Next ==
  \/ \E spec \in Offered : Stage(spec)
  \/ StageWithout \/ Discard \/ Publish
  \/ Follow \/ ReconcileResolvers \/ ReconcileProbes \/ Shutdown
  \/ Answers \/ NoAnswer \/ Panics \/ Wakes \/ Records
  \/ Arrives \/ LooksUp \/ FoundOnDemand \/ GivesUp
  \/ NameMoves \/ FilesReplaced

Spec == Init /\ [][Next]_vars

\* Activation and the resolver's task are polled, timers fire, and a resolver
\* asked again and again neither fails nor panics every time.
Fairness ==
  /\ WF_vars(Follow) /\ WF_vars(ReconcileResolvers) /\ WF_vars(ReconcileProbes)
  /\ WF_vars(Wakes) /\ SF_vars(Answers) /\ SF_vars(Records)

FairSpec == Spec /\ Fairness

-----------------------------------------------------------------------------
(* Properties.                                                             *)

\* When activation has ended, the upstream is probed exactly if the plan has a
\* check, by a worker that reports into the endpoint set requests choose from
\* and uses the transport they use; a resolver runs exactly if it has names,
\* and looks up those in the plan's way; and a closed supervisor has no worker.
WorkersMatchPlan ==
  /\ closed => ~probe.on /\ ~resolver.on
  /\ act = "idle" /\ ~closed =>
       /\ probe.on = WantsProbes
       /\ probe.on => /\ probe.runtime.set = serving.set
                      /\ probe.runtime.pool = serving.pool
                      /\ probe.runtime.spec.health = serving.spec.health
       /\ resolver.on = WantsNames
       /\ resolver.on => /\ resolver.runtime.spec.targets = serving.spec.targets
                         /\ resolver.runtime.spec.lookup = serving.spec.lookup

\* Every request, candidate and worker reaches its backends through a pool of
\* exactly the protocol, TLS policy and material its own generation was
\* prepared with, whatever was reused, rotated or replaced meanwhile.  The pool
\* in use has the limits and the lookup policy of the plan in use: those of a
\* candidate that was only prepared are never in force, and a kept pool takes
\* the new ones.
OwnTransport ==
  /\ \A r \in Runtimes : r.spec # NoSpec =>
       /\ r.set.compat = Transport(r.spec)
       /\ SubSeq(r.pool.compat, 1, 2) = Transport(r.spec)
       /\ r.pool.material = r.material
  /\ serving.spec # NoSpec => limits[serving.pool.id] = Policy(serving.spec)

\* A publication that changes neither the transport nor the material keeps the
\* endpoint set and the pool, and with them verdicts and connections,
\* whatever was prepared and discarded in between.
CompatibleKept ==
  [][/\ generation' # generation
     /\ serving.spec # NoSpec /\ serving'.spec # NoSpec
     /\ Transport(serving'.spec) = Transport(serving.spec)
     => /\ serving'.set = serving.set
        /\ serving'.material = serving.material => serving'.pool = serving.pool]_vars

\* The endpoint set a resolver works on ends up with what the name resolves
\* to, through failed lookups, panics and answers of requests that come late.
ResolverConverges ==
  \A a \in Addresses :
    <>[](resolver.on /\ dns = a) =>
      <>[](resolver.on /\ addresses[resolver.runtime.set.id] = a)

\* "Keep one upstream's names resolved until asked to stop" (resolve.rs): the
\* endpoint set of the generation in use ends up with what its name resolves
\* to.  It need not: resolve::worker_identity has the endpoints and not the
\* protocol or the TLS policy, so a reload that changes those makes a new set
\* and keeps the resolver of the old one.
NamesFollowed ==
  \A a \in Addresses :
    <>[](dns = a /\ WantsNames /\ ~closed) => <>[](WantsNames /\ addresses[serving.set.id] = a)

\* Requests, candidates and workers all follow the plan they belong to.
PlanFollowed == WorkersMatchPlan /\ OwnTransport
=============================================================================
