------------------------------- MODULE Server -------------------------------
(***************************************************************************)
(* Sockets, accept loops and connections across generations: BindTable     *)
(* (gatel-http/src/bind.rs), Server and its accept loops (serve.rs), and   *)
(* the retirement of an old generation's connections (connection_drain.rs).*)
(*                                                                         *)
(* A socket is open as long as somebody holds its Arc: the table, a staged *)
(* candidate, the publication that is retiring it, or an accept loop, also *)
(* while the loop drains.  The reservation index is weak.  The operating   *)
(* system refuses to bind an address that is open.                         *)
(*                                                                         *)
(* An activation follows each publication before the next candidate is     *)
(* staged, as AppHost's reload_execution guarantees.                       *)
(***************************************************************************)
EXTENDS Integers, FiniteSets

CONSTANTS Addresses,   \* listening addresses
          Loops,       \* accept loops alive at once
          Conns,       \* connections alive at once
          MaxGen       \* bound on publications

ASSUME ServerAssumption == MaxGen \in Nat

VARIABLES generation,  \* number of the current generation
          listening,   \* its listeners' addresses
          drains,      \* whether it sets reload_drain
          foreign,     \* addresses some other process holds
          table,       \* Bindings.sockets
          reserved,    \* Bindings.reserved
          staged,      \* the candidate: its sockets and its settings
          retired,     \* sockets the latest publication replaced
          act,         \* activation: idle, finish, sync, prune
          loop,        \* accept loops
          conn,        \* connections
          closed       \* Server.closed

binds == <<table, reserved, staged, retired>>
committed == <<generation, listening, drains>>
serverVars == <<committed, foreign, binds, act, loop, conn, closed>>

NoStage == [addresses |-> {}, drains |-> FALSE, on |-> FALSE]
NoLoop == [address |-> "none", pc |-> "free", stop |-> FALSE]
NoConn == [pc |-> "none", loop |-> "none", generation |-> 0, deadline |-> FALSE]

ServerInit ==
  /\ generation = 0
  /\ listening = {}
  /\ drains = FALSE
  /\ foreign \in SUBSET Addresses
  /\ table = {}
  /\ reserved = {}
  /\ staged = NoStage
  /\ retired = {}
  /\ act = "idle"
  /\ loop = [l \in Loops |-> NoLoop]
  /\ conn = [c \in Conns |-> NoConn]
  /\ closed = FALSE

\* Server.tasks: the loops sync and shutdown still have to stop.
Task(l) == loop[l].pc # "free" /\ ~loop[l].stop

Open(a) ==
  \/ a \in table \cup staged.addresses \cup retired
  \/ \E l \in Loops : loop[l].pc # "free" /\ loop[l].address = a

-----------------------------------------------------------------------------
(* BindTable::stage, under its mutex.                                       *)

\* gather: an address is found in the table or through its reservation.
Found(a) == a \in table \/ (a \in reserved /\ Open(a))

Bindable(a) == ~Open(a) /\ a \notin foreign

LiveSockets == {a \in reserved : Open(a)}

Stage(addresses, drain) ==
  /\ act = "idle"
  /\ ~staged.on
  /\ generation < MaxGen
  /\ \A a \in addresses : Found(a) \/ Bindable(a)
  /\ staged' = [addresses |-> addresses, drains |-> drain, on |-> TRUE]
  /\ reserved' = LiveSockets \cup addresses
  /\ UNCHANGED <<committed, foreign, table, retired, act, loop, conn, closed>>

\* One address cannot be bound: the sockets opened so far are closed again.
StageFails(addresses) ==
  /\ act = "idle"
  /\ ~staged.on
  /\ \E a \in addresses : ~Found(a) /\ ~Bindable(a)
  /\ \E opened \in SUBSET {a \in addresses : Found(a) \/ Bindable(a)} :
       reserved' = LiveSockets \cup opened
  /\ UNCHANGED <<committed, foreign, table, staged, retired, act, loop, conn, closed>>

\* BindTable::adopt: an embedder hands over a listener it has bound.
Adopt(a) ==
  /\ ~closed
  /\ ~Found(a)
  /\ Bindable(a)
  /\ table' = table \cup {a}
  /\ reserved' = reserved \cup {a}
  /\ UNCHANGED <<committed, foreign, staged, retired, act, loop, conn, closed>>

\* A later part of the preparation, or a stale check, drops the candidate.
Discard ==
  /\ staged.on
  /\ staged' = NoStage
  /\ UNCHANGED <<committed, foreign, table, reserved, retired, act, loop, conn, closed>>

\* BindPublication::publish, with the generation.
Publish ==
  /\ staged.on
  /\ generation' = generation + 1
  /\ listening' = staged.addresses
  /\ drains' = staged.drains
  /\ retired' = table
  /\ table' = staged.addresses
  /\ staged' = NoStage
  /\ act' = "finish"
  /\ UNCHANGED <<foreign, reserved, loop, conn, closed>>

\* finish_publication.
FinishByAddress ==  \* mutant: the replaced sockets are closed by their address
  /\ act = "finish"
  /\ table' = table \ retired
  /\ retired' = {}
  /\ act' = "sync"
  /\ UNCHANGED <<committed, foreign, reserved, staged, loop, conn, closed>>

Finish ==
  /\ act = "finish"
  /\ retired' = {}
  /\ act' = "sync"
  /\ UNCHANGED <<committed, foreign, table, reserved, staged, loop, conn, closed>>

-----------------------------------------------------------------------------
(* Server::sync, from activation.                                           *)

\* retire_before: every generation below, not only the one replaced.
RetirePrevious(c) ==  \* mutant: only the generation just replaced
  conn[c].pc = "serving" /\ drains /\ conn[c].generation = generation - 1

Retire(c) == conn[c].pc = "serving" /\ drains /\ conn[c].generation < generation

Started(address) == [address |-> address, pc |-> "accept", stop |-> FALSE]

MissingAnywhere ==  \* mutant: a loop that is being stopped counts
  {a \in listening \cap table : \A l \in Loops : loop[l].pc # "free" => loop[l].address # a}

Missing == {a \in listening \cap table : \A l \in Loops : Task(l) => loop[l].address # a}

\* Under the tasks lock: retire, start what is missing, stop what is obsolete.
\* start gives each address without a loop the loop spawned for it.
Sync ==
  /\ act = "sync"
  /\ ~closed
  /\ \E start \in [Missing -> {l \in Loops : loop[l].pc = "free"}] :
       /\ \A a, b \in Missing : start[a] = start[b] => a = b
       /\ loop' = [l \in Loops |->
            IF \E a \in Missing : start[a] = l
            THEN Started(CHOOSE a \in Missing : start[a] = l)
            ELSE [loop[l] EXCEPT !.stop = @ \/ (Task(l) /\ loop[l].address \notin listening)]]
  /\ conn' = [c \in Conns |-> [conn[c] EXCEPT !.deadline = @ \/ Retire(c)]]
  /\ act' = "prune"
  /\ UNCHANGED <<committed, foreign, binds, closed>>

\* binds.retain, after the tasks lock is gone.
PruneReserved ==  \* mutant: the reservations go with the sockets
  /\ act = "prune"
  /\ table' = table \cap listening
  /\ reserved' = reserved \cap listening
  /\ act' = "idle"
  /\ UNCHANGED <<committed, foreign, staged, retired, loop, conn, closed>>

Prune ==
  /\ act = "prune"
  /\ table' = table \cap listening
  /\ act' = "idle"
  /\ UNCHANGED <<committed, foreign, reserved, staged, retired, loop, conn, closed>>

-----------------------------------------------------------------------------
(* accept_loop.                                                             *)

\* Both selects are biased: a stop that has arrived goes first.  A listener
\* that accepted waits for a slot and accepts nothing else meanwhile.
Accept(l, c) ==
  /\ loop[l].pc = "accept"
  /\ ~loop[l].stop
  /\ conn[c].pc = "none"
  /\ loop' = [loop EXCEPT ![l].pc = "admit"]
  /\ conn' = [conn EXCEPT ![c] = [NoConn EXCEPT !.pc = "accepted", !.loop = l]]
  /\ UNCHANGED <<committed, foreign, binds, act, closed>>

\* The slot is there (module Admission).
AdmitAccepted(l) ==
  /\ loop[l].pc = "admit"
  /\ ~loop[l].stop
  /\ loop' = [loop EXCEPT ![l].pc = "pin"]
  /\ UNCHANGED <<committed, foreign, binds, act, conn, closed>>

\* Pin the current generation and its signal in one critical section with
\* retire_before; drop the connection if the generation has no such listener.
Pin(l, c) ==
  /\ loop[l].pc = "pin"
  /\ conn[c].pc = "accepted" /\ conn[c].loop = l
  /\ loop' = [loop EXCEPT ![l].pc = "accept"]
  /\ conn' = [conn EXCEPT ![c] =
       IF loop[l].address \in listening
       THEN [@ EXCEPT !.pc = "serving", !.generation = generation]
       ELSE NoConn]
  /\ UNCHANGED <<committed, foreign, binds, act, closed>>

\* stop.changed: a connection that has no slot yet is dropped.
Stop(l) ==
  /\ loop[l].pc \in {"accept", "admit"}
  /\ loop[l].stop
  /\ loop' = [loop EXCEPT ![l].pc = "drain"]
  /\ conn' = [c \in Conns |->
       IF conn[c].pc = "accepted" /\ conn[c].loop = l THEN NoConn ELSE conn[c]]
  /\ UNCHANGED <<committed, foreign, binds, act, closed>>

\* A connection ends, by itself or asked to by a stop or a deadline.
Ends(c) ==
  /\ conn[c].pc = "serving"
  /\ conn' = [conn EXCEPT ![c] = NoConn]
  /\ UNCHANGED <<committed, foreign, binds, act, loop, closed>>

\* timeout_at(deadline): its generation's drain is over.
ExpiresWhileDraining(c) ==  \* mutant: a later generation takes the deadline back
  /\ conn[c].deadline
  /\ drains
  /\ conn' = [conn EXCEPT ![c] = NoConn]
  /\ UNCHANGED <<committed, foreign, binds, act, loop, closed>>

Expires(c) ==
  /\ conn[c].deadline
  /\ conn' = [conn EXCEPT ![c] = NoConn]
  /\ UNCHANGED <<committed, foreign, binds, act, loop, closed>>

\* The grace period is over: abort_all.
GraceOnlyIdle(l) ==  \* mutant: the grace period is not enforced
  /\ loop[l].pc = "drain"
  /\ \A c \in Conns : conn[c].loop # l
  /\ UNCHANGED serverVars

Grace(l) ==
  /\ loop[l].pc = "drain"
  /\ conn' = [c \in Conns |-> IF conn[c].loop = l THEN NoConn ELSE conn[c]]
  /\ conn' # conn
  /\ UNCHANGED <<committed, foreign, binds, act, loop, closed>>

\* All connections joined: the loop returns and drops its listener.
LoopEndsEarly(l) ==  \* mutant: the loop does not join what it served
  /\ loop[l].pc = "drain"
  /\ loop' = [loop EXCEPT ![l] = NoLoop]
  /\ UNCHANGED <<committed, foreign, binds, act, conn, closed>>

LoopEnds(l) ==
  /\ loop[l].pc = "drain"
  /\ \A c \in Conns : conn[c].loop # l
  /\ loop' = [loop EXCEPT ![l] = NoLoop]
  /\ UNCHANGED <<committed, foreign, binds, act, conn, closed>>

-----------------------------------------------------------------------------
(* Server::shutdown, once nothing is staged or activating (AppHost).        *)

Shutdown ==
  /\ ~closed
  /\ act = "idle"
  /\ ~staged.on
  /\ closed' = TRUE
  /\ loop' = [l \in Loops |->
       IF loop[l].pc = "free" THEN NoLoop ELSE [loop[l] EXCEPT !.stop = TRUE]]
  /\ UNCHANGED <<committed, foreign, binds, act, conn>>

\* Every loop was awaited; App then calls binds.retain([]).
ReleaseBinds ==
  /\ closed
  /\ \A l \in Loops : loop[l].pc = "free"
  /\ table' = {}
  /\ UNCHANGED <<committed, foreign, reserved, staged, retired, act, loop, conn, closed>>

-----------------------------------------------------------------------------
LoopStep(l) == AdmitAccepted(l) \/ Stop(l) \/ Grace(l) \/ LoopEnds(l) \/ \E c \in Conns : Pin(l, c)

ServerNext ==
  \/ ~closed /\ \E addresses \in SUBSET Addresses \ {{}} :
       (\E drain \in BOOLEAN : Stage(addresses, drain)) \/ StageFails(addresses)
  \/ \E a \in Addresses : Adopt(a)
  \/ Discard \/ Publish \/ Finish \/ Sync \/ Prune
  \/ \E l \in Loops : LoopStep(l) \/ \E c \in Conns : Accept(l, c)
  \/ \E c \in Conns : Ends(c) \/ Expires(c)
  \/ Shutdown \/ ReleaseBinds

\* Timers fire and the runtime polls what is ready; a peer need never close.
ServerFairness ==
  /\ WF_serverVars(Finish) /\ WF_serverVars(Sync) /\ WF_serverVars(Prune) /\ WF_serverVars(ReleaseBinds)
  /\ \A l \in Loops : WF_serverVars(LoopStep(l))
  /\ \A c \in Conns : WF_serverVars(Expires(c))

-----------------------------------------------------------------------------
(* Properties.                                                              *)

\* An address the current generation listens on is never without its socket,
\* whatever socket the process has open staging finds (an address given up and
\* taken back while its old loop still drains is not bound a second time), and
\* after an activation exactly one loop that is not being stopped accepts for
\* each address, and none for any other.
AddressServed ==
  /\ ~closed => listening \subseteq table
  /\ \A a \in Addresses : Open(a) => Found(a)
  /\ act \in {"prune", "idle"} /\ ~closed =>
       /\ \A a \in listening : Cardinality({l \in Loops : Task(l) /\ loop[l].address = a}) = 1
       /\ \A l \in Loops : Task(l) => loop[l].address \in listening

\* A connection's accept loop is there as long as the connection is, so that
\* Server::shutdown, which awaits the loops, awaits every connection; and once
\* a generation with reload_drain is activated, no connection of any earlier
\* one is without a deadline, also one accepted around the switch.
ConnectionsOwned ==
  /\ \A c \in Conns : conn[c].pc # "none" =>
       conn[c].loop \in Loops /\ loop[conn[c].loop].pc # "free"
  /\ drains /\ act \in {"prune", "idle"} /\ ~closed =>
       \A c \in Conns :
         conn[c].pc = "serving" /\ conn[c].generation < generation => conn[c].deadline

\* Shutdown lets go of every socket and every connection, whatever peers do,
\* and a connection of a generation that drains is over one day.
ServerDrains ==
  /\ closed ~> (table = {} /\ (\A l \in Loops : loop[l].pc = "free") /\ \A c \in Conns : conn[c] = NoConn)
  /\ \A c \in Conns : conn[c].deadline ~> ~conn[c].deadline

\* Through every order of staging, publication, activation, discarded candidates
\* and shutdown: the sockets and loops are those of the plan, and every
\* connection has somebody who will end it.
ServerSound == AddressServed /\ ConnectionsOwned
=============================================================================
