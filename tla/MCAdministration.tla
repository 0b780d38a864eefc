-------------------------- MODULE MCAdministration --------------------------
(***************************************************************************)
(* Model-checking instance of what an administrator is told: the host's    *)
(* reload receipts and progress (AppHost) and what the journal and the     *)
(* checkpoint remember of them (Durability).  A behaviour is one of one of *)
(* them.                                                                   *)
(***************************************************************************)
EXTENDS AppHost, Durability, TLC

VARIABLE component  \* whose behaviour this is

administrationVars == <<component, vars, durableVars>>

\* Reload tasks run the same code.
TaskSymmetry == Permutations(Tasks)

AdministrationInit == component \in {"host", "files"} /\ Init /\ DurableInit

AdministrationNext ==
  /\ UNCHANGED component
  /\ \/ component = "host" /\ Next /\ UNCHANGED durableVars
     \/ component = "files" /\ DurableNext /\ UNCHANGED vars

AdministrationSpec == AdministrationInit /\ [][AdministrationNext]_administrationVars
=============================================================================
