--------------------------- MODULE ServingHistory ---------------------------
(***************************************************************************)
(* What gatel's configuration store promises, whatever its frontends and   *)
(* its concurrent candidates do: operators' intent is only ever extended,  *)
(* publications are numbered one by one and serve something that was       *)
(* observed, no publication takes a source back to an older observation,   *)
(* and a sealed store neither observes nor publishes.                      *)
(***************************************************************************)
EXTENDS Snapshots

VARIABLES sealed,      \* publication is fenced for good
          generation,  \* number of publications
          served,      \* the sources the published build was compiled from
          observed     \* the newest admitted observation of every source

history == <<sealed, generation, served, observed>>

Init ==
  /\ sealed = FALSE
  /\ generation = 0
  /\ served = EmptySnapshot
  /\ observed = EmptySnapshot

Extend ==
  /\ ~ sealed
  /\ observed' \in Snapshot
  /\ ContentSuccessor(observed, observed')
  /\ UNCHANGED <<sealed, generation, served>>

Publish ==
  /\ ~ sealed
  /\ generation' = generation + 1
  /\ served' \in Snapshot
  /\ ContentSuccessor(served', observed)
  /\ ContentSuccessor(served, served')
  /\ UNCHANGED <<sealed, observed>>

Seal ==
  /\ sealed' = TRUE
  /\ UNCHANGED <<generation, served, observed>>

Next == Extend \/ Publish \/ Seal

Spec == Init /\ [][Next]_history
=============================================================================
