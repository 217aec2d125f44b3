----------------------------- MODULE StateMachines -----------------------------
(***************************************************************************)
(* The closed enumerations of the local store and the transition relation  *)
(* each `try_transition` accepts (local_store/state_machines.rs).  A state *)
(* is the canonical snake_case string its schema column holds; a relation  *)
(* is the set of the pairs <<from, to>> for which try_transition is Ok.    *)
(***************************************************************************)
EXTENDS Naturals, Sequences

BodyStates == {"local_plain_available", "local_encrypted_available",
               "remote_archive_only", "delivery_store_only",
               "deleted_for_me", "deleted_for_everyone", "unavailable"}

BodyTransitions ==
    {<<"local_plain_available", "local_encrypted_available">>,
     <<"local_encrypted_available", "local_plain_available">>,
     <<"local_plain_available", "remote_archive_only">>,
     <<"remote_archive_only", "local_plain_available">>,
     <<"local_plain_available", "deleted_for_me">>,
     <<"local_plain_available", "deleted_for_everyone">>,
     <<"delivery_store_only", "local_plain_available">>,
     <<"remote_archive_only", "unavailable">>}

(* BodyState::try_transition(from, to) is Ok. *)
BodyMoves(from, to) == <<from, to>> \in BodyTransitions

(* What the two deletions leave behind. *)
DeletedBody == {"deleted_for_me", "deleted_for_everyone"}

MediaStates == {"thumbnail_only", "original_local", "remote_original",
                "download_in_progress", "evicted", "deleted"}

MediaTransitions ==
    {<<"thumbnail_only", "original_local">>,
     <<"thumbnail_only", "remote_original">>,
     <<"original_local", "evicted">>,
     <<"original_local", "deleted">>,
     <<"evicted", "download_in_progress">>,
     <<"remote_original", "download_in_progress">>,
     <<"download_in_progress", "original_local">>}

(* The other three are linear: each state moves to the next of its line. *)
ArchiveLine == <<"not_archived", "archive_pending", "archive_uploaded",
                 "archive_verified", "archive_compacted">>

BackupLine == <<"not_backed_up", "backup_pending", "backup_uploaded",
                "backup_manifest_committed", "backup_expired">>

RestoreLine == <<"identity_restored", "root_keys_unwrapped", "manifest_verified",
                 "skeleton_restored", "search_restored", "recent_messages_restored",
                 "media_lazy_restore_enabled", "full_restore_complete">>

StepsOf(line) == {<<line[i], line[i + 1]>> : i \in {j \in DOMAIN line : j + 1 \in DOMAIN line}}
================================================================================
