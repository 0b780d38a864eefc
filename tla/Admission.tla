----------------------------- MODULE Admission -----------------------------
(***************************************************************************)
(* Connection admission (gatel-http/src/connection_admission.rs): one      *)
(* semaphore for the process, resized by every activation, from which      *)
(* every accept loop reserves a slot before it serves a connection.        *)
(*                                                                         *)
(* The semaphore has a lock of its own, apart from the capacity mutex, so  *)
(* between taking a permit and looking at the capacity anything may        *)
(* happen; a permit forgotten there is a slot lost for good.               *)
(***************************************************************************)
EXTENDS Integers

CONSTANTS MaxCapacity,  \* bound on max_connections (u32)
          MaxWaiters    \* bound on accept loops reserving at once

ASSUME AdmissionAssumption == MaxCapacity \in Nat /\ MaxWaiters \in Nat \ {0}

VARIABLES available,    \* permits in the semaphore
          allocated,    \* Capacity.allocated
          wanted,       \* Capacity.wanted
          waiting,      \* acquire calls awaiting the semaphore
          grabbed,      \* acquire calls between the semaphore and the mutex
          held          \* live Permits

vars == <<available, allocated, wanted, waiting, grabbed, held>>

Init ==
  /\ available = 0
  /\ allocated = 0
  /\ wanted = 0
  /\ waiting = 0
  /\ grabbed = 0
  /\ held = 0

Least(m, n) == IF m < n THEN m ELSE n

\* resize: add the difference, or forget what is idle; the rest is forgotten
\* by whoever next lets go of a slot or takes one.
Resize(n) ==
  /\ wanted' = n
  /\ IF n > allocated
     THEN /\ available' = available + (n - allocated)
          /\ allocated' = n
     ELSE LET removed == Least(available, allocated - n)
          IN /\ available' = available - removed
             /\ allocated' = allocated - removed
  /\ UNCHANGED <<waiting, grabbed, held>>

\* An accept loop calls acquire; its select may drop the call while it waits.
Reserve ==
  /\ waiting + grabbed < MaxWaiters
  /\ waiting' = waiting + 1
  /\ UNCHANGED <<available, allocated, wanted, grabbed, held>>

Abandon ==
  /\ waiting > 0
  /\ waiting' = waiting - 1
  /\ UNCHANGED <<available, allocated, wanted, grabbed, held>>

\* acquire_owned.
Grab ==
  /\ waiting > 0
  /\ available > 0
  /\ available' = available - 1
  /\ waiting' = waiting - 1
  /\ grabbed' = grabbed + 1
  /\ UNCHANGED <<allocated, wanted, held>>

\* Under the mutex: a shrink left too many slots, so give this one up and
\* wait again.
ShrinkTwice ==  \* mutant: an idle permit is forgotten along with this one
  /\ grabbed > 0
  /\ allocated > wanted
  /\ allocated' = allocated - 1
  /\ available' = available - 1
  /\ grabbed' = grabbed - 1
  /\ waiting' = waiting + 1
  /\ UNCHANGED <<wanted, held>>

Shrink ==
  /\ grabbed > 0
  /\ allocated > wanted
  /\ allocated' = allocated - 1
  /\ grabbed' = grabbed - 1
  /\ waiting' = waiting + 1
  /\ UNCHANGED <<available, wanted, held>>

AdmitAnyway ==  \* mutant: the capacity is not looked at again
  /\ grabbed > 0
  /\ grabbed' = grabbed - 1
  /\ held' = held + 1
  /\ UNCHANGED <<available, allocated, wanted, waiting>>

Admit ==
  /\ grabbed > 0
  /\ allocated <= wanted
  /\ grabbed' = grabbed - 1
  /\ held' = held + 1
  /\ UNCHANGED <<available, allocated, wanted, waiting>>

\* Permit::drop.
ReleaseForgets ==  \* mutant: an exact fit is taken for too many
  /\ held > 0
  /\ held' = held - 1
  /\ IF allocated >= wanted
     THEN allocated' = allocated - 1 /\ UNCHANGED available
     ELSE available' = available + 1 /\ UNCHANGED allocated
  /\ UNCHANGED <<wanted, waiting, grabbed>>

Release ==
  /\ held > 0
  /\ held' = held - 1
  /\ IF allocated > wanted
     THEN allocated' = allocated - 1 /\ UNCHANGED available
     ELSE available' = available + 1 /\ UNCHANGED allocated
  /\ UNCHANGED <<wanted, waiting, grabbed>>

Next ==
  \/ \E n \in 0..MaxCapacity : Resize(n)
  \/ Reserve \/ Abandon \/ Grab \/ Shrink \/ Admit \/ Release

Spec == Init /\ [][Next]_vars

-----------------------------------------------------------------------------
(* Properties.                                                             *)

\* The type of the counters: none of the unsigned subtractions wraps.
TypeOK ==
  /\ available \in 0..MaxCapacity
  /\ allocated \in 0..MaxCapacity
  /\ wanted \in 0..MaxCapacity
  /\ waiting \in 0..MaxWaiters
  /\ grabbed \in 0..MaxWaiters
  /\ held \in 0..MaxCapacity

\* Every permit is accounted for.
Accounted == available + grabbed + held = allocated

\* Capacity that was promised exists.
NeverShort == allocated >= wanted

\* Capacity that was withdrawn is not lying idle.
ShrinksFirst == allocated > wanted => available = 0

\* No slot is lost: whenever fewer connections are open or being admitted
\* than the limit allows, the semaphore has a permit for the next one.
NoStrandedCapacity == held + grabbed < wanted => available > 0

\* No connection is admitted beyond the limit in force when it is admitted,
\* however acquisitions and resizes interleave.
NeverOverAdmits == [][held' > held => held' <= wanted]_vars
=============================================================================
