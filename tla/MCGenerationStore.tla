------------------------- MODULE MCGenerationStore -------------------------
(* Model-checking instance of GenerationStore.                             *)
EXTENDS GenerationStore, TLC

CONSTANTS file, admin, rogue, c1, c2

\* A content is the tree it parses to and a mark that does not change it (a
\* comment, say): two contents may compile to the same plan.
MCContents == {"empty", "site", "site2", "broken"}
MCTrees == {"t-empty", "t-site", "t-broken"}

Honest ==
  {[content |-> "empty", nodes |-> "t-empty"],
   [content |-> "site", nodes |-> "t-site"],
   [content |-> "site2", nodes |-> "t-site"],
   [content |-> "broken", nodes |-> "t-broken"]}

\* Enough for a publication and a rejection.
Reads == {i \in Honest : i.content \in {"site", "broken"}}
\* Enough to count sources.
OneRead == {i \in Honest : i.content = "site"}
\* A frontend that once hands in another tree under a known fingerprint.
Careless == Reads \cup {[content |-> "site", nodes |-> "t-empty"]}

\* A plan is what each source declares; a broken tree has none.
MCCompile(snap) ==
  IF \E s \in Sources : snap[s].nodes = "t-broken"
    THEN Invalid ELSE [sites |-> {s \in Sources : snap[s].nodes = "t-site"}]
MCPlans == {[sites |-> d] : d \in SUBSET Sources}

Perms == Permutations(Callers)
\* Sound where every source may do what any other may.
FullPerms == Permutations(Callers) \cup Permutations(Sources)
=============================================================================
