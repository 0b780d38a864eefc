----------------------------- MODULE Snapshots -----------------------------
(***************************************************************************)
(* The input of a configuration transaction (gatel-model/src/snapshot.rs,  *)
(* snapshot_history.rs): what every source declared at one moment.         *)
(*                                                                         *)
(* A snapshot is a total function over Sources.  A source that a Rust      *)
(* Snapshot (or RevVector) does not mention is Absent, revision 0: every   *)
(* frontend numbers its revisions from 1.  Content fingerprints and node   *)
(* trees are opaque values; only their equality matters here.              *)
(***************************************************************************)
EXTENDS Integers, FiniteSets

CONSTANTS Sources,   \* source identities (SourceId)
          Contents,  \* content fingerprints
          Trees,     \* node trees
          MaxRev,    \* the largest revision (u64::MAX in the code)
          None       \* the content and the tree of an absent source

ASSUME SnapshotsAssumption ==
  /\ MaxRev \in Nat \ {0}
  /\ None \notin Contents
  /\ None \notin Trees

Absent == [rev |-> 0, content |-> None, nodes |-> None]

SourceSnapshot == [rev : 1..MaxRev, content : Contents, nodes : Trees]

Snapshot == [Sources -> SourceSnapshot \cup {Absent}]

RevVector == [Sources -> 0..MaxRev]

EmptySnapshot == [s \in Sources |-> Absent]

\* What a trusted frontend hands in: a fingerprint and the tree it read.
Inputs == [content : Contents, nodes : Trees]

-----------------------------------------------------------------------------
Revs(snap) == [s \in Sources |-> snap[s].rev]

Present(snap) == {s \in Sources : snap[s] # Absent}

\* a <= b, source by source.
AtMost(a, b) == \A s \in Sources : a[s] <= b[s]

MergeLast(a, b) ==  \* mutant: the late observation wins
  [s \in Sources |-> IF b[s] > 0 THEN b[s] ELSE a[s]]

MergeMax(a, b) == [s \in Sources |-> IF b[s] > a[s] THEN b[s] ELSE a[s]]

(***************************************************************************)
(* SourceSnapshot::observe: the same fingerprint keeps its revision and    *)
(* must carry the same tree; a new fingerprint takes the next revision,    *)
(* which the counter may no longer have.                                   *)
(***************************************************************************)
CanObserveUnbounded(previous, input) ==  \* mutant: no RevisionExhausted
  previous.content = input.content => previous.nodes = input.nodes

CanObserve(previous, input) ==
  IF previous.content = input.content
    THEN previous.nodes = input.nodes
    ELSE previous.rev < MaxRev

Observe(previous, input) ==
  [rev     |-> IF previous.content = input.content
                 THEN previous.rev ELSE previous.rev + 1,
   content |-> input.content,
   nodes   |-> input.nodes]

(***************************************************************************)
(* Snapshot::validate_successor: no source is forgotten, no revision goes  *)
(* back, and an equal revision is the same observation.                    *)
(***************************************************************************)
ValidSuccessor(old, new) ==
  \A s \in Present(old) :
    /\ new[s].rev >= old[s].rev
    /\ new[s].rev = old[s].rev => new[s] = old[s]

\* The same rule, telling observations apart by fingerprint only: what the
\* store checks when it admits a candidate.
ContentSuccessor(old, new) ==
  \A s \in Sources :
    /\ old[s].rev <= new[s].rev
    /\ old[s].rev = new[s].rev => old[s].content = new[s].content

\* file_sources::newest: the host's admitted observation is authoritative
\* unless the frontend's own cache is strictly ahead of it.
Newest(cached, admitted) ==
  IF cached.rev > admitted.rev THEN cached ELSE admitted
=============================================================================
