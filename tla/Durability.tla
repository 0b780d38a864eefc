---------------------------- MODULE Durability ----------------------------
(***************************************************************************)
(* What survives a crash of the configuration host: the append-only intent *)
(* log (intent.log), the checkpoint that replaces itself by rename         *)
(* (checkpoint.bin), and the processes that open the directory one after   *)
(* the other: a checkpoint session (`gatel run --checkpoint-journal`), a   *)
(* journal host that writes intents and decisions, and the read-only tools.*)
(*                                                                         *)
(* The exclusive writer lock lets one process at a time past Store::open,  *)
(* so there is one process record; a second opener is refused and changes  *)
(* nothing.  A configuration is abstracted to the newest edit it holds of  *)
(* each source; a checksum is abstracted to the content it is taken over.  *)
(*                                                                         *)
(* The disk is external.  A killed process leaves what it wrote visible.   *)
(* A power loss keeps what was synced and, of the rest, any part: records  *)
(* of the log from the end, and a rename whose directory was not synced.   *)
(*                                                                         *)
(* The journal host is external too: the repository holds the transaction  *)
(* protocol and no host that drives it yet.  It is modelled as the         *)
(* comments of begin and finish require: it confirms an intent only after  *)
(* applying it, and starts from the checkpoint and the applied intents.    *)
(***************************************************************************)
EXTENDS Integers, SequencesExt

CONSTANTS
  MaxEdits,   \* edits submitted over the whole behaviour
  MaxBoots,   \* processes that open the directory for writing
  MaxLog      \* records the log can hold (MAX_LOG)

ASSUME DurabilityBounds ==
  MaxEdits \in Nat /\ MaxBoots \in Nat /\ MaxLog \in Nat \ {0}

VARIABLES
  log,      \* complete records of intent.log
  synced,   \* how many of them were written when the file was last synced
  flushed,  \* nothing was written to the file since
  tail,     \* what follows the last complete record
  ckpt,     \* checkpoint.bin as a process reads it
  durable,  \* checkpoint.bin as the synced directory names it
  proc,     \* the process that holds the writer lock
  edits,    \* edits submitted so far
  boots,    \* writable opens so far
  acked,    \* the newest content a save ever confirmed
  settled   \* the records whose append ever returned success

disk == <<log, synced, flushed, tail>>
durableVars == <<log, synced, flushed, tail, ckpt, durable, proc, edits, boots, acked, settled>>

Sources == {"file", "admin"}
Content == [Sources -> 0..MaxEdits]
Nothing == [s \in Sources |-> 0]
Covers(new, old) == \A s \in Sources : new[s] >= old[s]
Newer(a, b) == [s \in Sources |-> IF a[s] >= b[s] THEN a[s] ELSE b[s]]

Rec(kind, edit) == [kind |-> kind, edit |-> edit]
Binding == Rec("binding", 0)
Record == {Binding} \cup [kind : {"intent"}, edit : 1..MaxEdits]
                    \cup [kind : {"applied", "rejected"}, edit : {0}]

-----------------------------------------------------------------------------
(* The log as a transaction state.                                         *)

\* State: the latest intent has no decision.
Pending(l) == Len(l) > 1 /\ Last(l).kind = "intent"

\* State::applied: the position of the last confirmed intent, 0 when none.
AppliedAt(l) ==
  LET at == {i \in 1..Len(l) - 1 : l[i + 1].kind = "applied"}
  IN  IF at = {} THEN 0 ELSE CHOOSE i \in at : \A j \in at : j <= i

\* State::accept and the binding replay: what a valid log looks like.
Legal(l) ==
  \A i \in 1..Len(l) :
    IF i = 1 THEN l[i] = Binding
             ELSE l[i] # Binding /\ (l[i].kind = "intent" <=> l[i - 1].kind # "intent")

-----------------------------------------------------------------------------
(* The checkpoint and its reader.                                          *)

NoCkpt == [serving |-> Nothing, observed |-> Nothing, prefix |-> <<>>, boot |-> 0]

\* checkpoint::decode against the log.
Decodes(c, l) ==
  /\ Legal(l)
  /\ l # <<>>
  /\ IsPrefix(c.prefix, l)
  /\ c.prefix # <<>>
  /\ ~ Pending(c.prefix)
  /\ Covers(c.observed, c.serving)

\* load_checkpoint: no file at all is not an error.
Loads(c, l) == c = NoCkpt \/ Decodes(c, l)

DispositionTrusting ==  \* mutant: applied intents beyond the checkpoint are not looked for
  IF tail # "none" THEN "incomplete_tail"
  ELSE IF Pending(log) THEN "unknown_outcome"
  ELSE IF ckpt # NoCkpt THEN "current"
  ELSE IF Len(log) > 1 THEN "missing_checkpoint" ELSE "uninitialized"

\* inspect_recovery.
Disposition ==
  IF tail # "none" THEN "incomplete_tail"
  ELSE IF Pending(log) THEN "unknown_outcome"
  ELSE IF ckpt = NoCkpt THEN IF Len(log) > 1 THEN "missing_checkpoint" ELSE "uninitialized"
  ELSE IF AppliedAt(log) > Len(ckpt.prefix) THEN "applied_after"
  ELSE IF Len(log) > Len(ckpt.prefix) THEN "rejected_after" ELSE "current"

-----------------------------------------------------------------------------
(* The process.                                                            *)

Closed == [role |-> "closed", pc |-> "idle", serving |-> Nothing, observed |-> Nothing,
           activated |-> FALSE, sealed |-> FALSE, moved |-> FALSE, outcome |-> "none",
           pending |-> FALSE, failed |-> FALSE, poisoned |-> FALSE]

DurableTypeOK ==
  /\ log \in Seq(Record) /\ Len(log) <= MaxLog
  /\ synced \in 0..Len(log)
  /\ flushed \in BOOLEAN
  /\ tail \in {"none", "short", "damaged"}
  /\ \A c \in {ckpt, durable} :
       /\ c.serving \in Content /\ c.observed \in Content
       /\ c.prefix \in Seq(Record) /\ c.boot \in 0..MaxBoots
  /\ proc.role \in {"closed", "session", "journal", "inspect"}
  /\ proc.pc \in {"idle", "opened", "append", "attempted", "recovered", "staged", "renamed"}
  /\ proc.serving \in Content /\ proc.observed \in Content
  /\ proc.outcome \in {"none", "stale", "rejected", "done"}
  /\ \A f \in {proc.activated, proc.sealed, proc.moved, proc.pending,
               proc.failed, proc.poisoned} : f \in BOOLEAN
  /\ edits \in 0..MaxEdits /\ boots \in 0..MaxBoots
  /\ acked.serving \in Content /\ acked.observed \in Content
  /\ settled \in Seq(Record)

DurableInit ==
  /\ log = <<>> /\ synced = 0 /\ flushed = TRUE /\ tail = "none"
  /\ ckpt = NoCkpt /\ durable = NoCkpt
  /\ proc = Closed
  /\ edits = 0 /\ boots = 0
  /\ acked = [serving |-> Nothing, observed |-> Nothing]
  /\ settled = <<>>

OpenUnsynced(role) ==  \* mutant: the files found on disk are not synced
  /\ proc = Closed
  /\ boots < MaxBoots
  /\ tail # "damaged" /\ (log = <<>> => tail = "none")
  /\ proc' = [Closed EXCEPT !.role = role, !.pc = "opened"]
  /\ boots' = boots + 1
  /\ UNCHANGED <<log, synced, flushed, tail, ckpt, durable, edits, acked, settled>>

\* Store::open_mode(create): the lock, the replay, then both files and the
\* directory are synced.  A damaged log is an error, and so is an incomplete
\* record where the binding should be.
Open(role) ==
  /\ proc = Closed
  /\ boots < MaxBoots
  /\ tail # "damaged" /\ (log = <<>> => tail = "none")
  /\ proc' = [Closed EXCEPT !.role = role, !.pc = "opened"]
  /\ synced' = Len(log) /\ flushed' = TRUE
  /\ durable' = ckpt
  /\ boots' = boots + 1
  /\ UNCHANGED <<log, tail, ckpt, edits, acked, settled>>

\* Journal::open_existing: the read-only tools create and sync nothing.
OpenExisting ==
  /\ proc = Closed
  /\ log # <<>> /\ tail # "damaged"
  /\ Loads(ckpt, log)
  /\ proc' = [Closed EXCEPT !.role = "inspect"]
  /\ UNCHANGED <<disk, ckpt, durable, edits, boots, acked, settled>>

\* The process ends, by itself or killed, and the lock with it: what was
\* written stays visible.
Exit ==
  /\ proc # Closed
  /\ proc' = Closed
  /\ UNCHANGED <<disk, ckpt, durable, edits, boots, acked, settled>>

\* CheckpointWriter::open, once the binding is there: anything to reconcile
\* is refused.  A checkpoint found is to be recovered before any write.
OpenSession ==
  /\ proc.role = "session" /\ proc.pc = "opened" /\ log # <<>>
  /\ proc' = IF Loads(ckpt, log) /\ Disposition \in {"uninitialized", "current"}
               THEN [proc EXCEPT !.pc = "idle", !.pending = ckpt # NoCkpt]
               ELSE Closed
  /\ UNCHANGED <<disk, ckpt, durable, edits, boots, acked, settled>>

\* The journal host (external) starts from the checkpoint and the last intent
\* the log confirms; an intent without a decision it leaves undecided.
OpenJournal ==
  /\ proc.role = "journal" /\ proc.pc = "opened" /\ log # <<>>
  /\ LET at == AppliedAt(log)
         content == IF at > Len(ckpt.prefix)
                      THEN [ckpt.observed EXCEPT !["admin"] = log[at].edit]
                      ELSE ckpt.serving
     IN  proc' = IF Loads(ckpt, log)
                   THEN [proc EXCEPT !.pc = "idle", !.serving = content,
                                     !.observed = Newer(content, ckpt.observed)]
                   ELSE Closed
  /\ UNCHANGED <<disk, ckpt, durable, edits, boots, acked, settled>>

-----------------------------------------------------------------------------
(* Appending.                                                              *)

\* append_with: the checks, then the handle is poisoned and the bytes are
\* written: all of the record, or a part of it before an error or a kill.  An
\* open whose binding cannot be written fails.
CanAppend == ~ proc.poisoned /\ tail = "none" /\ Len(log) < MaxLog

Write(record) ==
  /\ CanAppend
  /\ flushed' = FALSE
  /\ \/ /\ log' = Append(log, record) /\ UNCHANGED tail
        /\ proc' = [proc EXCEPT !.poisoned = TRUE, !.pc = "append"]
     \/ /\ tail' = "short" /\ UNCHANGED log
        /\ proc' = IF log = <<>> THEN Closed
                                 ELSE [proc EXCEPT !.poisoned = TRUE, !.pc = "idle"]
  /\ UNCHANGED <<synced, ckpt, durable, boots, acked, settled>>

\* binding::open_mode on an empty log.
Bind ==
  /\ proc.role \in {"session", "journal"} /\ proc.pc = "opened" /\ log = <<>>
  /\ Write(Binding)
  /\ UNCHANGED edits

\* sync_all after the write: only now is the record acknowledged.
SyncLogLater ==  \* mutant: the append answers before the file is synced
  /\ proc.pc = "append"
  /\ settled' = log
  /\ proc' = [proc EXCEPT !.poisoned = FALSE, !.pc = IF Len(log) = 1 THEN "opened" ELSE "idle"]
  /\ UNCHANGED <<disk, ckpt, durable, edits, boots, acked>>

SyncLog ==
  /\ proc.pc = "append"
  /\ synced' = Len(log) /\ flushed' = TRUE
  /\ settled' = log
  /\ proc' = [proc EXCEPT !.poisoned = FALSE, !.pc = IF Len(log) = 1 THEN "opened" ELSE "idle"]
  /\ UNCHANGED <<log, tail, ckpt, durable, edits, boots, acked>>

\* The sync failed: the handle stays poisoned, an open fails with it.
SyncLogFails ==
  /\ proc.pc = "append"
  /\ proc' = IF Len(log) = 1 THEN Closed ELSE [proc EXCEPT !.pc = "idle"]
  /\ UNCHANGED <<disk, ckpt, durable, edits, boots, acked, settled>>

Journaling == proc.role = "journal" /\ proc.pc = "idle"

BeginGreedy ==  \* mutant: no room is kept for the decision
  /\ Journaling /\ ~ Pending(log) /\ edits < MaxEdits
  /\ Write(Rec("intent", edits + 1))
  /\ edits' = edits + 1

\* Journal::begin.
Begin ==
  /\ Journaling /\ ~ Pending(log) /\ edits < MaxEdits
  /\ Len(log) + 2 <= MaxLog
  /\ Write(Rec("intent", edits + 1))
  /\ edits' = edits + 1

\* The journal host applies the undecided intent, or only observes it, before
\* it decides.
ApplyIntent(published) ==
  /\ Journaling /\ Pending(log) /\ ~ proc.poisoned
  /\ proc.observed["admin"] < Last(log).edit
  /\ LET seen == [proc.observed EXCEPT !["admin"] = Last(log).edit]
     IN  proc' = [proc EXCEPT !.observed = seen,
                              !.serving = IF published THEN seen ELSE @]
  /\ UNCHANGED <<disk, ckpt, durable, edits, boots, acked, settled>>

\* Journal::finish.
FinishIntent(kind) ==
  /\ Journaling /\ Pending(log)
  /\ (kind = "applied") = (proc.serving["admin"] = Last(log).edit)
  /\ Write(Rec(kind, 0))
  /\ UNCHANGED edits

\* discard_incomplete_tail: truncated and synced, or poisoned.
Discard ==
  /\ Journaling /\ ~ proc.poisoned /\ tail = "short"
  /\ \/ /\ tail' = "none" /\ synced' = Len(log) /\ flushed' = TRUE
        /\ UNCHANGED <<log, proc>>
     \/ /\ proc' = [proc EXCEPT !.poisoned = TRUE]
        /\ UNCHANGED disk
  /\ UNCHANGED <<ckpt, durable, edits, boots, acked, settled>>

-----------------------------------------------------------------------------
(* The checkpoint session's configuration writes.                          *)

InSession == proc.role = "session" /\ proc.pc = "idle"

\* recover_checkpoint_if: reserve_recovery, then recover_if restores the
\* observed content and publishes the serving one, unless preparing it fails.
Recover ==
  /\ InSession /\ proc.pending /\ ~ proc.failed /\ ~ proc.sealed
  /\ proc.serving = Nothing
  /\ \E published \in BOOLEAN :
       proc' = [proc EXCEPT !.observed = ckpt.observed,
                            !.serving = IF published THEN ckpt.serving ELSE @,
                            !.pc = IF published THEN "recovered" ELSE "idle"]
  /\ UNCHANGED <<disk, ckpt, durable, edits, boots, acked, settled>>

\* confirm_recovery, or require_reconciliation.
Confirm ==
  /\ proc.pc = "recovered" /\ (proc.activated \/ proc.sealed)
  /\ proc' = IF proc.activated /\ ~ proc.sealed /\ ~ proc.failed
               THEN [proc EXCEPT !.pc = "idle", !.pending = FALSE]
               ELSE [proc EXCEPT !.pc = "idle", !.failed = TRUE]
  /\ UNCHANGED <<disk, ckpt, durable, edits, boots, acked, settled>>

\* ensure_ready, which bind starts with.
ReadyAnyway == ~ proc.failed  \* mutant: a pending recovery is not looked at

Ready == ~ proc.failed /\ ~ proc.pending

\* reload_frontend_checkpoint_if, reload_checkpoint_if and SourceWriter: an
\* edit of one source.  It is refused, rejected or without effect on the
\* plan (only observed), or published.  The admin API starts after startup.
Attempt(source) ==
  /\ InSession /\ Ready /\ ~ proc.sealed
  /\ source = "admin" => proc.serving # Nothing
  /\ edits < MaxEdits
  /\ \/ /\ \E outcome \in {"stale", "rejected"} :
             proc' = [proc EXCEPT !.outcome = outcome, !.moved = FALSE, !.pc = "attempted"]
        /\ UNCHANGED edits
     \/ /\ edits' = edits + 1
        /\ LET seen == [proc.observed EXCEPT ![source] = edits + 1]
               saw == [proc EXCEPT !.observed = seen, !.moved = TRUE, !.pc = "attempted"]
           IN  \/ \E outcome \in {"stale", "rejected", "done"} :
                    /\ outcome = "done" => proc.serving # Nothing
                    /\ proc' = [saw EXCEPT !.outcome = outcome]
               \/ proc' = [saw EXCEPT !.outcome = "done", !.serving = seen,
                                      !.activated = FALSE]
  /\ UNCHANGED <<disk, ckpt, durable, boots, acked, settled>>

\* Activation of the published generation; a sealed store is not activated.
Activate ==
  /\ proc.pc \in {"attempted", "recovered"}
  /\ proc.serving # Nothing /\ ~ proc.activated /\ ~ proc.sealed
  /\ proc' = [proc EXCEPT !.activated = TRUE]
  /\ UNCHANGED <<disk, ckpt, durable, edits, boots, acked, settled>>

\* The task panics before its completion runs.
PanicInAttempt ==
  /\ proc.pc \in {"attempted", "recovered"}
  /\ proc' = [proc EXCEPT !.pc = "idle"]
  /\ UNCHANGED <<disk, ckpt, durable, edits, boots, acked, settled>>

SealBeforeSave ==
  /\ proc.role = "session" /\ proc.pc # "opened" /\ ~ proc.sealed
  /\ proc' = [proc EXCEPT !.sealed = TRUE]
  /\ UNCHANGED <<disk, ckpt, durable, edits, boots, acked, settled>>

\* persist_checkpoint's early returns: nothing changed.
NothingToSave ==
  /\ ~ proc.moved
  /\ \/ proc.outcome = "stale"
     \/ proc.outcome = "rejected" /\ proc.serving = Nothing /\ proc.observed = Nothing

Completed == proc.pc = "attempted" /\ (proc.activated \/ proc.sealed \/ proc.serving = Nothing)

FinishUnsaved ==
  /\ Completed
  /\ \/ NothingToSave /\ proc' = [proc EXCEPT !.pc = "idle"]
     \/ /\ ~ NothingToSave
        /\ ~ proc.activated \/ proc.serving = Nothing
        /\ proc' = [proc EXCEPT !.pc = "idle", !.failed = TRUE]
  /\ UNCHANGED <<disk, ckpt, durable, edits, boots, acked, settled>>

-----------------------------------------------------------------------------
(* Saving a checkpoint.                                                    *)

\* checkpoint::encode of the captured content over the whole log.
Encoded == [serving |-> proc.serving, observed |-> proc.observed,
            prefix |-> log, boot |-> boots]

Savable == proc.serving # Nothing /\ ~ proc.poisoned /\ tail = "none"
           /\ ~ Pending(log) /\ Loads(ckpt, log)

Confirmed ==
  acked' = [serving |-> Newer(acked.serving, proc.serving),
            observed |-> Newer(acked.observed, proc.observed)]

SavesAttempt == Completed /\ ~ NothingToSave /\ proc.activated /\ Ready
SavesJournal == Journaling /\ proc.serving # Nothing

\* CheckpointWriter::save and save_checkpoint up to the staged, synced
\* temporary file; equal bytes need no write.  The writer counts as failed
\* until the save is over.
BeginSave ==
  /\ SavesAttempt \/ SavesJournal
  /\ \/ /\ ~ Savable
        /\ proc' = [proc EXCEPT !.pc = "idle", !.failed = proc.role = "session"]
        /\ UNCHANGED acked
     \/ /\ Savable /\ ckpt = Encoded
        /\ proc' = [proc EXCEPT !.pc = "idle"]
        /\ Confirmed
     \/ /\ Savable
        /\ proc' = [proc EXCEPT !.pc = "staged", !.poisoned = TRUE,
                              !.failed = proc.role = "session"]
        /\ UNCHANGED acked
  /\ UNCHANGED <<disk, ckpt, durable, edits, boots, settled>>

Rename ==
  /\ proc.pc = "staged"
  /\ ckpt' = Encoded
  /\ proc' = [proc EXCEPT !.pc = "renamed"]
  /\ UNCHANGED <<disk, durable, edits, boots, acked, settled>>

SyncDirectoryLater ==  \* mutant: the save answers before the directory is synced
  /\ proc.pc = "renamed"
  /\ proc' = [proc EXCEPT !.pc = "idle", !.failed = FALSE, !.poisoned = FALSE]
  /\ Confirmed
  /\ UNCHANGED <<disk, ckpt, durable, edits, boots, settled>>

SyncDirectory ==
  /\ proc.pc = "renamed"
  /\ durable' = ckpt
  /\ proc' = [proc EXCEPT !.pc = "idle", !.failed = FALSE, !.poisoned = FALSE]
  /\ Confirmed
  /\ UNCHANGED <<disk, ckpt, edits, boots, settled>>

\* Staging, the rename or the directory sync failed: failed and poisoned stay.
SaveFails ==
  /\ proc.pc \in {"staged", "renamed"}
  /\ proc' = [proc EXCEPT !.pc = "idle"]
  /\ UNCHANGED <<disk, ckpt, durable, edits, boots, acked, settled>>

\* checkpoint::compact: only a pair whose checkpoint covers all of the log.
Compactable ==
  /\ ckpt # NoCkpt /\ Decodes(ckpt, log)
  /\ tail = "none" /\ ckpt.prefix = log /\ ~ Pending(log)

\* compact_to publishes a new directory with the binding alone in its log;
\* the operator puts it in the place of the old one.
Compact ==
  /\ proc.role = "inspect" /\ Compactable
  /\ log' = <<Binding>> /\ synced' = 1 /\ flushed' = TRUE
  /\ ckpt' = [ckpt EXCEPT !.prefix = <<Binding>>]
  /\ durable' = ckpt'
  /\ settled' = log'
  /\ proc' = Closed
  /\ UNCHANGED <<tail, edits, boots, acked>>

\* What a power loss leaves (external): a flushed log as it is, of any other
\* at least the synced records, then whole records or part of one or garbage.
PowerLoss ==
  /\ \/ flushed /\ UNCHANGED <<log, tail>>
     \/ /\ ~ flushed
        /\ \E k \in synced..Len(log) : log' = SubSeq(log, 1, k)
        /\ tail' \in {"none", "short", "damaged"}
  /\ synced' = Len(log') /\ flushed' = TRUE
  /\ ckpt' \in {ckpt, durable}
  /\ durable' = ckpt'
  /\ proc' = Closed
  /\ UNCHANGED <<edits, boots, acked, settled>>

-----------------------------------------------------------------------------
DurableNext ==
  \/ \E role \in {"session", "journal"} : Open(role)
  \/ OpenExisting \/ OpenSession \/ OpenJournal \/ Exit \/ PowerLoss
  \/ Bind \/ SyncLog \/ SyncLogFails
  \/ Begin \/ Discard
  \/ \E published \in BOOLEAN : ApplyIntent(published)
  \/ \E kind \in {"applied", "rejected"} : FinishIntent(kind)
  \/ \E source \in Sources : Attempt(source)
  \/ Recover \/ Confirm \/ Activate \/ PanicInAttempt \/ SealBeforeSave \/ FinishUnsaved
  \/ BeginSave \/ Rename \/ SyncDirectory \/ SaveFails
  \/ Compact

DurableSpec == DurableInit /\ [][DurableNext]_durableVars

-----------------------------------------------------------------------------
(* Properties.                                                             *)

\* What was confirmed is kept.  What a confirmed save wrote is on disk for good: after any sequence of
\* failures, kills, power losses, restarts and compactions the checkpoint a
\* process would read holds every source at least as new as the newest
\* content a save reported as persisted (SyncDirectory, Open, Ready).  And a
\* record whose append reported success is never lost or changed, by a later
\* failed append, a discarded tail or a power loss.
AcknowledgedSurvives ==
  /\ Covers(ckpt.serving, acked.serving)
  /\ Covers(ckpt.observed, acked.observed)
  /\ IsPrefix(settled, log)

\* The two files never contradict each other: the records of the log always
\* form transactions a reader accepts and, whichever of its two versions a
\* crash leaves of the checkpoint, it decodes against the log.  No crash
\* strands the directory unless the log itself is damaged beyond its last
\* synced record, and the size limit leaves an intent in the log room for its
\* decision (DECISION_RESERVE).
PairOpens ==
  /\ Legal(log)
  /\ Pending(log) => Len(log) < MaxLog
  /\ Loads(ckpt, log)
  /\ durable = NoCkpt \/ Decodes(durable, SubSeq(log, 1, synced))

\* A session never starts from a checkpoint that lacks an intent the log says
\* was applied: the applied edit is in the checkpoint it recovers.
NothingAppliedForgotten ==
  proc.role = "session" /\ proc.pc # "opened" =>
    \A i \in 2..Len(log) :
      log[i].kind = "applied" => ckpt.observed["admin"] >= log[i - 1].edit

\* What was confirmed to an administrator or applied for one survives every
\* crash and is where the next session starts from.
RestartSound == AcknowledgedSurvives /\ NothingAppliedForgotten
=============================================================================
