-------------------------------- MODULE Pool --------------------------------
(***************************************************************************)
(* One endpoint of an HTTP/1.1 connection pool (pool/mod.rs, admission.rs, *)
(* lease.rs, dial.rs).  A caller waits for a permit, takes an idle         *)
(* connection or dials, and decides on its return whether the connection   *)
(* is parked.  A reload resizes the pool, the resolver retires addresses,  *)
(* and the pool drains when its last owner drops it.                       *)
(*                                                                         *)
(* A connection is the address it reached and whether it may be used       *)
(* again: a closed peer, a passed lifetime, a passed idle time and a       *)
(* failed exchange all come to `fit' = FALSE.  The semaphore is tokio's:   *)
(* first come first served, a released permit is handed to the head of the *)
(* queue, which may be cancelled before it notices.                        *)
(***************************************************************************)
EXTENDS Integers, Sequences, FiniteSets, Collections

CONSTANTS PoolCallers,    \* requests that check a connection out
          PoolConfigs,    \* [max, idle, waiters, parks] a reload may give
          PoolFirst,      \* the configuration the pool is made with
          PoolAnswers,    \* sets of addresses the name may resolve to
          PoolUpdates     \* bound on reloads and new answers

ASSUME PoolAssumption ==
  /\ PoolFirst \in PoolConfigs
  /\ \A c \in PoolConfigs : c.max \in Nat \ {0} /\ c.idle \in Nat /\ c.waiters \in Nat
  /\ PoolUpdates \in Nat

VARIABLES slot,      \* EndpointPool, with the policy of its Admission
          policy,    \* ConnectionPool.policy
          borrower,  \* of each caller: where checkout or its lease is
          owner,     \* who holds the endpoints lock: "none", "retire" or "drain"
          held,      \* Endpoint.addresses
          updates    \* reloads and answers so far

poolVars == <<slot, policy, borrower, owner, held, updates>>

NoConn == [at |-> "none", fit |-> FALSE]
Anywhere == {"any"}  \* EndpointPool.live before the first update
Returned == [pc |-> "away", conn |-> NoConn, order |-> {}]

\* The slot is made by the first checkout that needs it.
Unmade == [made |-> FALSE]
EndpointPool(config) ==
  [made |-> TRUE, config |-> config, allocated |-> config.max, free |-> config.max,
   queue |-> <<>>, closed |-> FALSE, idle |-> <<>>, live |-> Anywhere, waiting |-> 0]

PoolInit ==
  /\ slot = Unmade
  /\ policy = PoolFirst
  /\ borrower = [c \in PoolCallers |-> Returned]
  /\ owner = "none"
  /\ held = {}
  /\ updates = 0

CallersAt(pcs) == {c \in PoolCallers : borrower[c].pc \in pcs}
CallerMoves(c, pc) == borrower' = [borrower EXCEPT ![c].pc = pc]
PoolRest == UNCHANGED <<policy, owner, held, updates>>

-----------------------------------------------------------------------------
(* The semaphore and the permits over it.                                  *)

Smaller(a, b) == IF a < b THEN a ELSE b

\* n permits arrive: the queue's head gets each one first.
Granted(s, n) == {s.queue[i] : i \in 1..Smaller(n, Len(s.queue))}
AddPermits(s, n) ==
  LET given == Smaller(n, Len(s.queue))
  IN [s EXCEPT !.queue = SubSeq(@, given + 1, Len(@)), !.free = @ + (n - given)]
GrantTo(callers, b) == [c \in PoolCallers |-> IF c \in callers THEN [b[c] EXCEPT !.pc = "granted"] ELSE b[c]]

\* Acquire::poll for the first time.
Joins(s, c) ==
  IF s.free > 0 THEN [s EXCEPT !.free = @ - 1] ELSE [s EXCEPT !.queue = Append(@, c)]
JoinsAt(s) == IF s.free > 0 THEN "granted" ELSE "queued"

InDebt == slot.allocated > slot.config.max

\* Permit::drop, under the policy lock: a shrink that could not take a permit
\* is paid by whoever lets one go.
DropPermit(c) ==
  \/ /\ InDebt
     /\ slot' = [slot EXCEPT !.allocated = @ - 1]
     /\ borrower' = [borrower EXCEPT ![c] = Returned]
  \/ /\ ~InDebt
     /\ slot' = AddPermits(slot, 1)
     /\ borrower' = [GrantTo(Granted(slot, 1), borrower) EXCEPT ![c] = Returned]

-----------------------------------------------------------------------------
(* ConnectionPool::checkout.                                               *)

\* A checkout borrows the pool, so that none overlaps its drain.  One beyond
\* max_waiters is answered QueueFull and leaves nothing behind.
Checkout(c) ==
  LET s == IF slot.made THEN slot ELSE EndpointPool(policy)
  IN /\ borrower[c].pc = "away"
     /\ owner = "none"
     /\ ~(slot.made /\ slot.closed)
     /\ s.waiting + 1 <= s.config.waiters
     /\ slot' = [Joins(s, c) EXCEPT !.waiting = @ + 1]
     /\ CallerMoves(c, JoinsAt(s))
     /\ PoolRest

\* Admission::acquire: an assigned permit is first offered to the debt.
Repays(c) ==
  /\ borrower[c].pc = "granted"
  /\ InDebt
  /\ slot' = Joins([slot EXCEPT !.allocated = @ - 1], c)
  /\ CallerMoves(c, JoinsAt(slot))
  /\ PoolRest

Approve(c) ==
  /\ borrower[c].pc = "granted"
  /\ ~InDebt
  /\ slot' = [slot EXCEPT !.waiting = @ - 1]
  /\ CallerMoves(c, "pick")
  /\ PoolRest

\* The queue timeout, or the client goes away: also after the semaphore
\* assigned a permit that acquire has not looked at yet.
Without(queue, c) == Retain(queue, {i \in DOMAIN queue : queue[i] # c})
AbandonsForgetful(c) ==  \* mutant: an assigned permit goes with its caller
  /\ borrower[c].pc \in {"queued", "granted"}
  /\ slot' = [slot EXCEPT !.queue = Without(slot.queue, c), !.waiting = @ - 1]
  /\ CallerMoves(c, "away")
  /\ PoolRest

Abandons(c) ==
  \/ /\ borrower[c].pc = "queued"
     /\ slot' = [slot EXCEPT !.queue = Without(slot.queue, c), !.waiting = @ - 1]
     /\ borrower' = [borrower EXCEPT ![c] = Returned]
     /\ PoolRest
  \/ /\ borrower[c].pc = "granted"
     /\ slot' = [AddPermits(slot, 1) EXCEPT !.waiting = @ - 1]
     /\ borrower' = [GrantTo(Granted(slot, 1), borrower) EXCEPT ![c] = Returned]
     /\ PoolRest

\* One round of the loop over idle connections.
Reuse(c) ==
  /\ borrower[c].pc = "pick"
  /\ slot.idle # <<>>
  /\ slot' = [slot EXCEPT !.idle = Tail(@)]
  /\ borrower' = [borrower EXCEPT ![c] = IF Head(slot.idle).fit
                                         THEN [@ EXCEPT !.pc = "leased", !.conn = Head(slot.idle)]
                                         ELSE @]
  /\ PoolRest

\* dial_inner takes the addresses once; addresses_for looks a name up that has
\* none yet.
StartDial(c) ==
  /\ borrower[c].pc = "pick"
  /\ slot.idle = <<>>
  /\ held' \in IF held = {} THEN PoolAnswers ELSE {held}
  /\ borrower' = [borrower EXCEPT ![c].pc = "dialing", ![c].order = held']
  /\ UNCHANGED <<slot, policy, owner, updates>>

Connect(c, a) ==
  /\ borrower[c].pc = "dialing"
  /\ a \in borrower[c].order
  /\ borrower' = [borrower EXCEPT ![c] = [pc |-> "leased", conn |-> [at |-> a, fit |-> TRUE],
                                          order |-> {}]]
  /\ UNCHANGED slot /\ PoolRest

\* Every address failed, the connect budget is spent, or the caller is
\* cancelled: the permit is dropped with the call.
DialFails(c) ==
  /\ borrower[c].pc = "dialing"
  /\ DropPermit(c)
  /\ PoolRest

-----------------------------------------------------------------------------
(* The lease.                                                              *)

\* send fails, poison is called, or the peer closes.
Spoils(c) ==
  /\ borrower[c].pc = "leased"
  /\ borrower' = [borrower EXCEPT ![c].conn.fit = FALSE]
  /\ UNCHANGED slot /\ PoolRest

\* Exclusive::drop holds the policy, the addresses and the idle queue at once.
ParksAddressless(conn) ==  \* mutant: the address is not looked at again
  /\ conn.fit /\ slot.config.parks /\ ~InDebt
  /\ ~slot.closed
  /\ Len(slot.idle) < slot.config.idle

Parks(conn) ==
  /\ conn.fit /\ slot.config.parks /\ ~InDebt
  /\ slot.live = Anywhere \/ conn.at \in slot.live
  /\ ~slot.closed
  /\ Len(slot.idle) < slot.config.idle

Return(c) ==
  /\ borrower[c].pc = "leased"
  /\ slot' = IF Parks(borrower[c].conn)
             THEN [slot EXCEPT !.idle = Append(@, borrower[c].conn)] ELSE slot
  /\ borrower' = [borrower EXCEPT ![c] = [Returned EXCEPT !.pc = "parked"]]
  /\ PoolRest

\* The permit goes after the connection.
ReleaseNever(c) ==  \* mutant: the permit outlives its lease
  FALSE /\ UNCHANGED poolVars

Release(c) ==
  /\ borrower[c].pc = "parked"
  /\ DropPermit(c)
  /\ PoolRest

\* A parked connection is closed by its peer, or stays too long.
Expires(i) ==
  /\ slot.made
  /\ i \in DOMAIN slot.idle /\ slot.idle[i].fit
  /\ slot' = [slot EXCEPT !.idle[i].fit = FALSE]
  /\ UNCHANGED borrower /\ PoolRest

-----------------------------------------------------------------------------
(* Reload, resolution and drain, one at a time under the endpoints lock.   *)

\* Admission::adopt: what a shrink may not take stays as debt.
Resized(config) ==
  LET taken == Smaller(slot.allocated - config.max, slot.free)
  IN IF config.max > slot.allocated
     THEN [AddPermits(slot, config.max - slot.allocated) EXCEPT !.config = config,
                                                                !.allocated = config.max]
     ELSE [slot EXCEPT !.config = config, !.allocated = @ - taken, !.free = @ - taken]

\* ConnectionPool::adopt keeps what the new limits leave room for.
KeepIdle(config, s) ==
  LET active == s.allocated - s.free
  IN Smaller(config.idle, IF config.max > active THEN config.max - active ELSE 0)

Adopt(config) ==
  /\ owner = "none"
  /\ updates < PoolUpdates
  /\ updates' = updates + 1
  /\ policy' = config
  /\ IF slot.made
     THEN LET s == Resized(config)
              usable == Retain(s.idle, {i \in DOMAIN s.idle : s.idle[i].fit /\ config.parks})
          IN /\ slot' = [s EXCEPT !.idle = SubSeq(usable, 1, Smaller(Len(usable), KeepIdle(config, s)))]
             /\ borrower' = IF config.max > slot.allocated
                            THEN GrantTo(Granted(slot, config.max - slot.allocated), borrower)
                            ELSE borrower
     ELSE UNCHANGED <<slot, borrower>>
  /\ UNCHANGED <<owner, held>>

\* The resolver records an answer that differs, and retires what it no longer
\* names: first the list, which leases read, then the idle connections.
NewAnswer(answer) ==
  /\ owner = "none"
  /\ updates < PoolUpdates
  /\ updates' = updates + 1
  /\ answer # held
  /\ held' = answer
  /\ owner' = "record"
  /\ UNCHANGED <<slot, policy, borrower>>

Retire ==
  /\ owner = "record"
  /\ owner' = IF slot.made THEN "retire" ELSE "none"
  /\ slot' = IF slot.made THEN [slot EXCEPT !.live = held] ELSE slot
  /\ UNCHANGED <<policy, borrower, held, updates>>

Sweep ==
  /\ owner = "retire"
  /\ owner' = "none"
  /\ slot' = [slot EXCEPT !.idle = Retain(slot.idle, {i \in DOMAIN slot.idle : slot.idle[i].at \in slot.live})]
  /\ UNCHANGED <<policy, borrower, held, updates>>

\* Drop of the pool: leases outlive it, checkouts do not.
Drain ==
  /\ owner = "none"
  /\ slot.made /\ ~slot.closed
  /\ CallersAt({"queued", "granted", "pick", "dialing"}) = {}
  /\ owner' = "drain"
  /\ slot' = [slot EXCEPT !.closed = TRUE]
  /\ UNCHANGED <<policy, borrower, held, updates>>

Drained ==
  /\ owner = "drain"
  /\ owner' = "gone"
  /\ slot' = [slot EXCEPT !.idle = <<>>]
  /\ UNCHANGED <<policy, borrower, held, updates>>

-----------------------------------------------------------------------------
Serves(c) ==
  \/ Repays(c) \/ Approve(c) \/ Reuse(c) \/ StartDial(c)
  \/ \E a \in UNION PoolAnswers : Connect(c, a)
  \/ DialFails(c) \/ Return(c) \/ Release(c)

PoolNext ==
  \/ \E c \in PoolCallers : Checkout(c) \/ Serves(c) \/ Abandons(c) \/ Spoils(c)
  \/ slot.made /\ \E i \in 1..Len(slot.idle) : Expires(i)
  \/ \E config \in PoolConfigs : Adopt(config)
  \/ \E answer \in PoolAnswers : NewAnswer(answer)
  \/ Retire \/ Sweep \/ Drain \/ Drained

PoolSpec == PoolInit /\ [][PoolNext]_poolVars

\* Exchanges and dials end, and the resolver finishes what it began; nobody
\* has to check out, give up or close a connection.
PoolFairness ==
  /\ \A c \in PoolCallers : WF_poolVars(Serves(c))
  /\ WF_poolVars(Retire) /\ WF_poolVars(Sweep)

-----------------------------------------------------------------------------
Holders == CallersAt({"pick", "dialing", "leased", "parked"})
Sockets == Len(slot.idle) + Cardinality(CallersAt({"dialing", "leased"}))

\* Whatever the order of reloads, returns and cancelled waits, every permit is
\* somewhere, a permit is free only when nobody queues, and the endpoint never
\* has more sockets, idle ones included, than its permits stand for.
PoolBounded ==
  slot.made =>
    /\ slot.free + Cardinality(Holders) + Cardinality(CallersAt({"granted"})) = slot.allocated
    /\ slot.free > 0 => slot.queue = <<>>
    /\ slot.allocated >= slot.config.max
    /\ Sockets <= slot.allocated
    /\ Len(slot.idle) <= slot.config.idle
    /\ slot.waiting = Cardinality(CallersAt({"queued", "granted"}))

\* Once the resolver or the drain has passed, no parked connection reaches an
\* address it took away, although a lease of one may be returned at any moment.
PoolParksLive ==
  slot.made =>
    /\ owner = "none" /\ slot.live # Anywhere => \A i \in DOMAIN slot.idle : slot.idle[i].at \in slot.live
    /\ owner = "gone" => slot.idle = <<>>

\* A queued caller is given a permit, through every resize and cancelled wait.
PoolServesWaiters ==
  \A c \in PoolCallers : borrower[c].pc = "queued" ~> borrower[c].pc # "queued"

\* What a lease, a resize, a retirement and a drain may not undo between them:
\* permits and sockets are accounted for, and nothing dead is parked.
PoolSound == PoolBounded /\ PoolParksLive

=============================================================================
