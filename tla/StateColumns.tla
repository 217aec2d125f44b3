------------------------------ MODULE StateColumns ------------------------------
(***************************************************************************)
(* The columns media_state and backup_state and the stage of a restore:    *)
(* who writes them and from what they read before (message/processor.rs,   *)
(* core_impl.rs, local_store/db.rs, restore/pipeline.rs).  try_transition  *)
(* is asked for the stage alone.  Nothing ever writes archive_state, so    *)
(* that no body is evictable.                                              *)
(*                                                                         *)
(* Data.  A message has at most one asset; a backup takes all the rows it  *)
(* finds.  The gateway keeps the rows of each backup as they were read.    *)
(***************************************************************************)
EXTENDS StateMachines

CONSTANTS
    MediaIds,    \* messages, each with its asset
    HostAlone    \* nothing else moves an asset while evictions are carried out

VARIABLES
    mediaState,   \* media_asset.media_state
    backupState,  \* message_skeleton.backup_state
    toEvict,      \* the rest of the plan of enforce_storage_budget
    toMark,       \* the rest of a backup: its step and the rows it read
    toInsert,     \* deliveries that found no row of their message
    recovery      \* a restore: its stage, what it does next, how it ended

vars == <<mediaState, backupState, toEvict, toMark, toInsert, recovery>>

NoRow == "none"

(* What execute goes through: with manifests, and without.                   *)
Long == <<"root_keys_unwrapped", "fetch", "manifest_verified", "clear", "skeleton_restored",
          "rows", "search_restored", "recent_messages_restored",
          "media_lazy_restore_enabled", "full_restore_complete">>
Short == <<"root_keys_unwrapped", "fetch", "manifest_verified", "skeleton_restored",
           "search_restored", "recent_messages_restored",
           "media_lazy_restore_enabled", "full_restore_complete">>

NoRecovery == [stage |-> RestoreLine[1], left |-> <<>>, kept |-> <<>>, outcome |-> "none"]

TypeOK ==
    /\ mediaState \in [MediaIds -> MediaStates \cup {NoRow}]
    /\ backupState \in [MediaIds -> {BackupLine[i] : i \in DOMAIN BackupLine} \cup {NoRow}]
    /\ toEvict \subseteq MediaIds
    /\ toMark.step \in {"idle", "upload", "mark"}
    /\ toMark.rows \subseteq MediaIds /\ toMark.sent \subseteq MediaIds
    /\ toInsert \subseteq MediaIds
    /\ recovery.stage \in {RestoreLine[i] : i \in DOMAIN RestoreLine}
    /\ recovery.outcome \in {"none", "running", "complete", "failed", "illegal"}

Init ==
    /\ mediaState = [m \in MediaIds |-> NoRow]
    /\ backupState = [m \in MediaIds |-> NoRow]
    /\ toEvict = {}
    /\ toMark = [step |-> "idle", rows |-> {}, sent |-> {}]
    /\ toInsert = {}
    /\ recovery = NoRecovery

Restoring == recovery.left # <<>>

(* persist_ingested_message and send_media.                                  *)
Insert(m, state) ==
    /\ backupState[m] = NoRow /\ ~Restoring
    /\ mediaState' = [mediaState EXCEPT ![m] = state]
    /\ backupState' = [backupState EXCEPT ![m] = BackupLine[1]]
    /\ UNCHANGED <<toEvict, toMark, toInsert, recovery>>

(* skeleton_exists reads through the pool, before the lock is taken ...      *)
FindNoRow(m) ==
    /\ backupState[m] = NoRow /\ m \notin toInsert /\ ~Restoring
    /\ toInsert' = toInsert \cup {m}
    /\ UNCHANGED <<mediaState, backupState, toEvict, toMark, recovery>>

(* ... and the rows are replaced, if another thread has inserted them since. *)
InsertOrReplace(m) ==
    /\ m \in toInsert /\ ~Restoring
    /\ HostAlone => toEvict = {}
    /\ toInsert' = toInsert \ {m}
    /\ mediaState' = [mediaState EXCEPT ![m] = "thumbnail_only"]
    /\ backupState' = [backupState EXCEPT ![m] = BackupLine[1]]
    /\ UNCHANGED <<toEvict, toMark, recovery>>

(* A host that downloads and removes originals, along the diagram.           *)
HostMoves(m, to) ==
    /\ <<mediaState[m], to>> \in MediaTransitions
    /\ HostAlone => toEvict = {}
    /\ mediaState' = [mediaState EXCEPT ![m] = to]
    /\ UNCHANGED <<backupState, toEvict, toMark, toInsert, recovery>>

--------------------------------------------------------------------------------

(* Mutant: any asset that is on the device. *)
PlanEverything ==
    /\ toEvict = {} /\ ~Restoring
    /\ toEvict' \in SUBSET {m \in MediaIds : mediaState[m] # NoRow}
    /\ UNCHANGED <<mediaState, backupState, toMark, toInsert, recovery>>

(* fetch_evictable_media; how many are taken depends on their sizes.         *)
PlanEviction ==
    /\ toEvict = {} /\ ~Restoring
    /\ toEvict' \in SUBSET {m \in MediaIds : mediaState[m] = "original_local"}
    /\ UNCHANGED <<mediaState, backupState, toMark, toInsert, recovery>>

(* update_media_state, whatever the state is by now.                         *)
Evict(m) ==
    /\ m \in toEvict
    /\ toEvict' = toEvict \ {m}
    /\ mediaState' = IF mediaState[m] = NoRow THEN mediaState
                     ELSE [mediaState EXCEPT ![m] = "evicted"]
    /\ UNCHANGED <<backupState, toMark, toInsert, recovery>>

--------------------------------------------------------------------------------

BeginBackup ==
    /\ toMark.step = "idle" /\ ~Restoring
    /\ toMark' = [toMark EXCEPT !.step = "upload",
                     !.rows = {m \in MediaIds : backupState[m] = BackupLine[1]}]
    /\ UNCHANGED <<mediaState, backupState, toEvict, toInsert, recovery>>

(* sent: what the gateway holds of all backups.                              *)
Upload ==
    /\ toMark.step = "upload"
    /\ toMark' \in {[toMark EXCEPT !.step = "mark", !.sent = @ \cup toMark.rows],
                    [toMark EXCEPT !.step = "idle", !.rows = {}]}
    /\ UNCHANGED <<mediaState, backupState, toEvict, toInsert, recovery>>

(* batch_mark_skeletons_backed_up: from any state.                           *)
Mark ==
    /\ toMark.step = "mark"
    /\ backupState' = [m \in MediaIds |->
                          IF m \in toMark.rows /\ backupState[m] # NoRow
                          THEN "backup_manifest_committed" ELSE backupState[m]]
    /\ toMark' = [toMark EXCEPT !.step = "idle", !.rows = {}]
    /\ UNCHANGED <<mediaState, toEvict, toInsert, recovery>>

--------------------------------------------------------------------------------

(* A new pipeline each time.  What another thread does to the store during a *)
(* restore is the matter of module Restore.                                  *)
BeginRestore ==
    /\ ~Restoring /\ toMark.step = "idle" /\ toEvict = {}
    /\ recovery' = [NoRecovery EXCEPT
          !.left = IF toMark.sent = {} THEN Short ELSE Long, !.outcome = "running"]
    /\ UNCHANGED <<mediaState, backupState, toEvict, toMark, toInsert>>

(* transition, which try_transition may refuse.                              *)
Advance ==
    /\ Restoring /\ Head(recovery.left) \notin {"fetch", "clear", "rows"}
    /\ LET to == Head(recovery.left)
           rest == Tail(recovery.left)
       IN recovery' = IF <<recovery.stage, to>> \in StepsOf(RestoreLine)
                      THEN [recovery EXCEPT !.stage = to, !.left = rest,
                                            !.outcome = IF rest = <<>> THEN "complete" ELSE @]
                      ELSE [recovery EXCEPT !.left = <<>>, !.outcome = "illegal"]
    /\ UNCHANGED <<mediaState, backupState, toEvict, toMark, toInsert>>

(* The gateway fails, or has what it has; nothing is changed before clear.   *)
FetchManifests ==
    /\ Restoring /\ Head(recovery.left) = "fetch"
    /\ recovery' \in {[recovery EXCEPT !.left = Tail(@)],
                      [recovery EXCEPT !.left = <<>>, !.outcome = "failed"]}
    /\ UNCHANGED <<mediaState, backupState, toEvict, toMark, toInsert>>

(* Within the savepoint: kept is what rolling back brings back.              *)
Clear ==
    /\ Restoring /\ Head(recovery.left) = "clear"
    /\ recovery' = [recovery EXCEPT !.left = Tail(@), !.kept = <<mediaState, backupState>>]
    /\ mediaState' = [m \in MediaIds |-> NoRow]
    /\ backupState' = [m \in MediaIds |-> NoRow]
    /\ UNCHANGED <<toEvict, toMark, toInsert>>

(* The rows as they were when they were backed up, without the assets, or    *)
(* the rows that were there.                                                 *)
RestoreRows ==
    /\ Restoring /\ Head(recovery.left) = "rows"
    /\ \/ /\ recovery' = [recovery EXCEPT !.left = Tail(@), !.kept = <<>>]
          /\ backupState' = [m \in MediaIds |-> IF m \in toMark.sent THEN BackupLine[1]
                                                ELSE backupState[m]]
          /\ UNCHANGED mediaState
       \/ /\ recovery' = [recovery EXCEPT !.left = <<>>, !.kept = <<>>, !.outcome = "failed"]
          /\ mediaState' = recovery.kept[1]
          /\ backupState' = recovery.kept[2]
    /\ UNCHANGED <<toEvict, toMark, toInsert>>

Next ==
    \/ \E m \in MediaIds :
          \/ Evict(m) \/ FindNoRow(m) \/ InsertOrReplace(m)
          \/ \E s \in {"thumbnail_only", "remote_original"} : Insert(m, s)
          \/ \E s \in MediaStates : HostMoves(m, s)
    \/ PlanEviction
    \/ BeginBackup \/ Upload \/ Mark
    \/ BeginRestore \/ Advance \/ FetchManifests \/ Clear \/ RestoreRows

Spec == Init /\ [][Next]_vars

(* A delivery lands that found no row of its message.                        *)
Lands(m) == m \in toInsert /\ m \notin toInsert'

(* "The legal transitions are encoded in try_transition": an asset moves     *)
(* along the diagram, although nobody asks it, unless a restore takes it     *)
(* away or gives it back or a second delivery replaces it.                   *)
MediaLifecycle ==
    [][\A m \in MediaIds :
          \/ NoRow \in {mediaState[m], mediaState'[m]}
          \/ mediaState'[m] = mediaState[m]
          \/ <<mediaState[m], mediaState'[m]>> \in MediaTransitions
          \/ Lands(m)]_vars

(* "Linear, forward-only": a message that is backed up stays so as long as   *)
(* its row does, unless a delivery replaces it that came before there was a  *)
(* row.                                                                      *)
BackedUpStays ==
    [][\A m \in MediaIds :
          backupState[m] = "backup_manifest_committed"
             => backupState'[m] \in {"backup_manifest_committed", NoRow} \/ Lands(m)]_vars

(* No delivery replaces a message that is backed up.                         *)
BackedUpIsKept ==
    [][\A m \in MediaIds :
          backupState[m] = "backup_manifest_committed"
             => backupState'[m] \in {"backup_manifest_committed", NoRow}]_vars

(* A message goes through every state of the line.                           *)
BackupLifecycle ==
    [][\A m \in MediaIds :
          \/ NoRow \in {backupState[m], backupState'[m]}
          \/ backupState'[m] = backupState[m]
          \/ <<backupState[m], backupState'[m]>> \in StepsOf(BackupLine)]_vars

(* "visits every state in declaration order": no restore ends because of its *)
(* own stages, and one that completes is at the last.                        *)
StagesInOrder ==
    /\ recovery.outcome # "illegal"
    /\ recovery.outcome = "complete" => recovery.stage = "full_restore_complete"

(* The rows "have been reconstructed" when the stage says so.                *)
StageTellsTruth ==
    recovery.stage = "skeleton_restored" =>
       \A m \in toMark.sent : backupState[m] # NoRow
================================================================================
