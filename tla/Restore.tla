-------------------------------- MODULE Restore --------------------------------
(***************************************************************************)
(* Restore of a backup into the local store while the host goes on using   *)
(* it (restore/pipeline.rs, local_store/db.rs).                            *)
(*                                                                         *)
(* All writes go through one connection.  The restore opens a SAVEPOINT on *)
(* it, clears the tables, lets the mutex go, and takes it again for every  *)
(* row; whatever another thread writes in between is part of the same      *)
(* transaction.  Reads go through the read pool, which sees what is        *)
(* committed, and that is the store before the SAVEPOINT.                  *)
(*                                                                         *)
(* Any statement may fail.  The error of a failing insert ends the restore, *)
(* which then rolls back; the errors of the statements that END the         *)
(* savepoint are ignored, and then it stays open: what follows, of this     *)
(* restore and of everybody else, is part of a transaction that no later    *)
(* RELEASE commits, because each later restore opens a savepoint inside it. *)
(*                                                                         *)
(* Data.  The rows of a message are its skeleton, its body and its index   *)
(* row.  The chain of manifests verifies; what it lists is the sequence    *)
(* Backup of segments, all sealed under one key.                           *)
(***************************************************************************)
EXTENDS Naturals, Sequences, SequencesExt

CONSTANTS
    Restorers,    \* threads that may restore
    Messages,
    Backup,       \* the segments, each [skeletons, bodies]
    SealedWith,   \* the key of the segments: run_incremental_backup seals
                  \* with "backup_root", the pipeline opens with "archive_segment"
    GatewayFails, \* a download may fail
    StatementsFail, \* a statement of SQLite, or db.write(), may fail
    MaxOpen       \* bound: savepoints open at once

ASSUME RestoreAssumption ==
    /\ Backup \in Seq([skeletons : SUBSET Messages, bodies : SUBSET Messages])
    /\ SealedWith \in {"backup_root", "archive_segment"}
    /\ GatewayFails \in BOOLEAN
    /\ StatementsFail \in BOOLEAN
    /\ MaxOpen \in Nat

VARIABLES
    disk,     \* what is committed: [skeletons, bodies, found]
    work,     \* what the write connection sees
    saves,    \* its open savepoints, each with what it rolls back to
    task,     \* what each restorer is doing
    before,   \* history: what was committed when the last restore cleared
    ignored,  \* history: the last restore ran inside a savepoint left open,
              \* or could not end its own
    acked     \* history: messages ingested successfully since then

vars == <<disk, work, saves, task, before, ignored, acked>>

Tables == [skeletons : SUBSET Messages, bodies : SUBSET Messages, found : SUBSET Messages]
Cleared == [skeletons |-> {}, bodies |-> {}, found |-> {}]

Places == {"idle", "open", "segment", "rows", "index", "rollback", "done", "failed"}

Idle == [pc |-> "idle", segment |-> 0, skeletons |-> {}, bodies |-> {}, current |-> {}]

TypeOK ==
    /\ disk \in Tables /\ work \in Tables /\ before \in Tables
    /\ saves \in Seq(Tables)
    /\ task \in [Restorers -> [pc : Places, segment : 0..(Len(Backup) + 1),
                               skeletons : SUBSET Messages, bodies : SUBSET Messages,
                               current : SUBSET Messages]]
    /\ ignored \in BOOLEAN
    /\ acked \subseteq Messages

Init ==
    /\ \E local \in SUBSET Messages :
          disk = [skeletons |-> local, bodies |-> local, found |-> local]
    /\ work = disk
    /\ saves = <<>>
    /\ task = [r \in Restorers |-> Idle]
    /\ before = disk
    /\ ignored = FALSE
    /\ acked = {}

At(r, pc) == task[r].pc = pc
Goto(r, pc) == task' = [task EXCEPT ![r].pc = pc]

(* A statement outside a savepoint commits at once. *)
Write(tables) ==
    /\ work' = tables
    /\ disk' = IF saves = <<>> THEN tables ELSE disk
    /\ UNCHANGED saves

--------------------------------------------------------------------------------
(* RestorePipeline::execute.  A failure before the savepoint is opened       *)
(* changes nothing and is no step.                                          *)

Fetch(r) ==
    /\ task[r].pc \in {"idle", "done", "failed"}
    /\ task' = [task EXCEPT ![r] = [Idle EXCEPT !.pc = IF Backup = <<>> THEN "done" ELSE "open"]]
    /\ UNCHANGED <<disk, work, saves, before, ignored, acked>>

(* Mutant: the tables are cleared before the savepoint is opened. *)
ClearThenSave(r) ==
    /\ At(r, "open")
    /\ Len(saves) < MaxOpen
    /\ saves' = Append(saves, Cleared)
    /\ work' = Cleared
    /\ disk' = IF saves = <<>> THEN Cleared ELSE disk
    /\ before' = disk
    /\ ignored' = (saves # <<>>)
    /\ acked' = {}
    /\ task' = [task EXCEPT ![r].pc = "segment", ![r].segment = 1]

SaveAndClear(r) ==
    /\ At(r, "open")
    /\ Len(saves) < MaxOpen
    /\ saves' = Append(saves, work)
    /\ work' = Cleared
    /\ before' = disk
    /\ ignored' = (saves # <<>>)
    /\ acked' = {}
    /\ task' = [task EXCEPT ![r].pc = "segment", ![r].segment = 1]
    /\ UNCHANGED disk

(* What the DELETEs leave when one of them fails: the indexes, the bodies   *)
(* and the skeletons are deleted in this order.                             *)
HalfCleared(tables) ==
    {tables, [tables EXCEPT !.found = {}], [tables EXCEPT !.found = {}, !.bodies = {}], Cleared}

(* A DELETE fails: ROLLBACK TO and RELEASE, under the same lock, and their  *)
(* result is ignored: done, nothing done, or only rolled back.              *)
ClearFails(r) ==
    /\ StatementsFail
    /\ At(r, "open")
    /\ Len(saves) < MaxOpen
    /\ Goto(r, "failed")
    /\ before' = disk
    /\ acked' = {}
    /\ \/ /\ ignored' = (saves # <<>>)
          /\ UNCHANGED <<work, saves>>
       \/ /\ ignored' = TRUE
          /\ saves' = Append(saves, work)
          /\ work' \in HalfCleared(work)
    /\ UNCHANGED disk

OpenSegment(r) ==
    LET s == Backup[task[r].segment] IN
    /\ At(r, "segment")
    /\ task[r].segment <= Len(Backup)
    /\ SealedWith = "archive_segment"
    /\ task' = [task EXCEPT ![r].pc = "rows", ![r].skeletons = s.skeletons,
                            ![r].bodies = s.bodies]
    /\ UNCHANGED <<disk, work, saves, before, ignored, acked>>

(* The download fails, or the segment does not open under the derived key.  *)
SegmentFails(r) ==
    /\ At(r, "segment")
    /\ task[r].segment <= Len(Backup)
    /\ GatewayFails \/ SealedWith # "archive_segment"
    /\ Goto(r, "rollback")
    /\ UNCHANGED <<disk, work, saves, before, ignored, acked>>

RestoreSkeleton(r, m) ==
    /\ At(r, "rows")
    /\ m \in task[r].skeletons
    /\ Write([work EXCEPT !.skeletons = @ \cup {m}])
    /\ task' = [task EXCEPT ![r].skeletons = @ \ {m}]
    /\ UNCHANGED <<before, ignored, acked>>

RestoreBody(r, m) ==
    /\ At(r, "rows")
    /\ task[r].skeletons = {}
    /\ m \in task[r].bodies
    /\ Write([work EXCEPT !.bodies = @ \cup {m}])
    /\ task' = [task EXCEPT ![r].pc = "index", ![r].bodies = @ \ {m}, ![r].current = {m}]
    /\ UNCHANGED <<before, ignored, acked>>

(* reindex_message, if the read pool shows a skeleton: the index row, then  *)
(* a transaction of its own for the grams, which SQLite refuses inside the  *)
(* transaction of the savepoint.                                            *)
Index(r) ==
    /\ At(r, "index")
    /\ IF task[r].current \subseteq disk.skeletons
       THEN /\ Write([work EXCEPT !.found = @ \cup task[r].current])
            /\ Goto(r, IF saves = <<>> THEN "rows" ELSE "rollback")
       ELSE /\ Goto(r, "rows")
            /\ UNCHANGED <<disk, work, saves>>
    /\ UNCHANGED <<before, ignored, acked>>

(* An insert or an index row fails, or the lock of the connection.          *)
RowFails(r) ==
    /\ StatementsFail
    /\ task[r].pc \in {"rows", "index"}
    /\ Goto(r, "rollback")
    /\ UNCHANGED <<disk, work, saves, before, ignored, acked>>

(* Mutant: the loop goes on without having opened a segment. *)
NextSegmentAnytime(r) ==
    /\ task[r].pc \in {"rows", "segment"}
    /\ task' = [task EXCEPT ![r].pc = "segment", ![r].segment = @ + 1]
    /\ UNCHANGED <<disk, work, saves, before, ignored, acked>>

NextSegment(r) ==
    /\ At(r, "rows")
    /\ task[r].skeletons = {} /\ task[r].bodies = {}
    /\ task' = [task EXCEPT ![r].pc = "segment", ![r].segment = @ + 1]
    /\ UNCHANGED <<disk, work, saves, before, ignored, acked>>

(* ROLLBACK TO and RELEASE name the innermost savepoint, whoever opened it; *)
(* their result is ignored, and that of db.write(): it may be that neither  *)
(* is done, or only the first.                                              *)
Rollback(r) ==
    /\ At(r, "rollback")
    /\ Goto(r, "failed")
    /\ \/ /\ saves # <<>>
          /\ work' = Last(saves)
          /\ saves' = Front(saves)
          /\ disk' = IF Len(saves) = 1 THEN Last(saves) ELSE disk
          /\ UNCHANGED ignored
       \/ /\ saves = <<>> \/ StatementsFail
          /\ work' \in {work} \cup (IF saves = <<>> THEN {} ELSE {Last(saves)})
          /\ ignored' = TRUE
          /\ UNCHANGED <<disk, saves>>
    /\ UNCHANGED <<before, acked>>

(* The result of RELEASE, and of db.write(), is ignored: Ok all the same.   *)
Release(r) ==
    /\ At(r, "segment")
    /\ task[r].segment > Len(Backup)
    /\ Goto(r, "done")
    /\ \/ /\ saves # <<>>
          /\ saves' = Front(saves)
          /\ disk' = IF Len(saves) = 1 THEN work ELSE disk
          /\ UNCHANGED ignored
       \/ /\ saves = <<>> \/ StatementsFail
          /\ ignored' = TRUE
          /\ UNCHANGED <<disk, saves>>
    /\ UNCHANGED <<work, before, acked>>

--------------------------------------------------------------------------------
(* The rest of the process.                                                *)

(* persist_ingested_message, see MessageStore: the duplicate check reads    *)
(* through the pool, the rows are written through the write connection.     *)
Ingest(m) ==
    /\ IF m \in disk.skeletons
       THEN UNCHANGED <<disk, work, saves>>
       ELSE Write([skeletons |-> work.skeletons \cup {m},
                   bodies |-> work.bodies \cup {m},
                   found |-> work.found \cup {m}])
    /\ acked' = acked \cup {m}
    /\ UNCHANGED <<task, before, ignored>>

(* SQLite rolls the whole transaction back by itself (full disk, I/O error), *)
(* at a statement of any thread or at the RELEASE.                           *)
Undone ==
    /\ StatementsFail
    /\ saves # <<>>
    /\ work' = disk
    /\ saves' = <<>>
    /\ UNCHANGED <<disk, task, before, ignored, acked>>

(* The process dies: the open transaction is gone. *)
Crash ==
    /\ work' = disk
    /\ saves' = <<>>
    /\ task' = [r \in Restorers |-> Idle]
    /\ ignored' = FALSE
    /\ acked' = {}
    /\ UNCHANGED <<disk, before>>

Step(r) ==
    \/ Fetch(r) \/ SaveAndClear(r) \/ ClearFails(r) \/ OpenSegment(r) \/ SegmentFails(r)
    \/ \E m \in Messages : RestoreSkeleton(r, m) \/ RestoreBody(r, m)
    \/ Index(r) \/ RowFails(r) \/ NextSegment(r) \/ Rollback(r) \/ Release(r)

Next ==
    \/ \E r \in Restorers : Step(r)
    \/ \E m \in Messages : Ingest(m)
    \/ Undone
    \/ Crash

Spec == Init /\ [][Next]_vars

--------------------------------------------------------------------------------

BackedUpSkeletons == UNION {Backup[i].skeletons : i \in DOMAIN Backup}
BackedUpBodies == UNION {Backup[i].bodies : i \in DOMAIN Backup}

HasAll(tables) == /\ BackedUpSkeletons \subseteq tables.skeletons
                  /\ BackedUpBodies \subseteq tables.bodies

Includes(tables, other) ==
    \A column \in DOMAIN tables : other[column] \subseteq tables[column]

(* Whatever fails or crashes, and whoever writes meanwhile, the committed  *)
(* store is never something between what was committed before and the      *)
(* restored data.                                                          *)
NeverHalfRestored == Includes(disk, before) \/ HasAll(disk)

(* A restore that returned an error has left all of the old data: "the old *)
(* data is preserved rather than leaving the DB empty".  On disk that is so *)
(* whatever fails; the write connection shows the old data unless the      *)
(* rollback itself failed.                                                 *)
FailedKeepsOldData ==
    \A r \in Restorers : At(r, "failed") =>
        Includes(disk, before) /\ (ignored \/ Includes(work, before))

(* A restore that returned Ok has committed every row of the backup, unless *)
(* the error of its RELEASE was ignored or it ran inside a savepoint that   *)
(* an earlier one left open.                                                *)
DoneIsCommitted == \A r \in Restorers : At(r, "done") => HasAll(disk) \/ ignored

(* "If any step fails, we roll back the SAVEPOINT to restore old data": a  *)
(* restore that runs alone gives all or nothing, and says which as long as *)
(* no error is ignored.                                                    *)
RestoreIsAtomic == NeverHalfRestored /\ FailedKeepsOldData /\ DoneIsCommitted

--------------------------------------------------------------------------------
(* What the documentation and the tests say and the code does not do.      *)

(* A restore whose gateway answers succeeds: "restore failed" is what the   *)
(* end-to-end test says if it does not.                                    *)
NeverFails == \A r \in Restorers : ~At(r, "failed")

(* "all changes (clear + restore) are committed", when Ok is returned.       *)
OkIsCommitted == \A r \in Restorers : At(r, "done") => HasAll(disk)

(* The search index is rebuilt: every restored text is found.              *)
RestoredIsFound == \A r \in Restorers : At(r, "done") => BackedUpBodies \subseteq disk.found

(* A message whose ingestion returned Ok during a restore is in the store  *)
(* when the restore is over.                                               *)
IngestedIsKept ==
    (\A r \in Restorers : task[r].pc \in {"idle", "done", "failed"}) /\ saves = <<>>
        => acked \subseteq disk.skeletons
================================================================================
