------------------------------ MODULE BackupChain ------------------------------
(***************************************************************************)
(* Incremental backup (core_impl.rs, backup/): the snapshot of the store,  *)
(* the coordinator that chains manifests, the uploads, and the marks in    *)
(* the store.                                                              *)
(*                                                                         *)
(* Grain of atomicity.  Skeletons and bodies are read by two queries.  The *)
(* coordinator's mutex is held to prepare a payload and to finalize it,    *)
(* not during the uploads between, nor when the skeletons are marked.      *)
(*                                                                         *)
(* Data.  A manifest is named by an id, which stands for its hash and for  *)
(* the one segment it lists: both hold a fresh UUID.  The text of a        *)
(* message is a version number, 0 when there is no body row.  The gateway  *)
(* keeps what it accepted, once, in the order it accepted it.              *)
(***************************************************************************)
EXTENDS Naturals, Sequences

CONSTANTS
    Workers,      \* threads that may run a backup
    Messages,
    Genesis,      \* the all-zero hash
    Restarts,     \* the process may die and be started again
    LostReplies,  \* an upload may be applied and be answered with an error
    MaxBackups,   \* bound on the payloads prepared
    MaxVersion    \* bound on the edits of a message

ASSUME BackupAssumption ==
    /\ Restarts \in BOOLEAN /\ LostReplies \in BOOLEAN
    /\ MaxBackups \in Nat /\ MaxVersion \in Nat \ {0}
    /\ Genesis \notin Nat

VARIABLES
    skeleton,    \* message_skeleton: "absent", "live", "deleted" (for everyone)
    version,     \* message_body.text_content
    backedUp,    \* messages with backup_state = 'backup_manifest_committed'
    generation,  \* coordinator.current_generation
    previous,    \* coordinator.prev_manifest_hash
    prepared,    \* history: payloads prepared so far
    segments,    \* gateway: segments
    manifests,   \* gateway: manifests
    job,         \* what each worker is in the middle of
    quiet        \* history: backups that began since the store changed last

store == <<skeleton, version>>
coordinator == <<generation, previous>>
gateway == <<segments, manifests>>
vars == <<store, backedUp, coordinator, prepared, gateway, job, quiet>>

Ids == 1..MaxBackups
Generations == 0..MaxBackups
Skeletons == SUBSET (Messages \X {"live", "deleted"})
Bodies == SUBSET (Messages \X (1..MaxVersion))
Manifests == [id : Ids, generation : Generations, previous : Ids \cup {Genesis}]

Places == {"idle", "bodies", "prepare", "segment", "manifest", "finalize", "mark"}

Idle == [pc |-> "idle", skeletons |-> {}, bodies |-> {}, manifest |-> Genesis]

TypeOK ==
    /\ skeleton \in [Messages -> {"absent", "live", "deleted"}]
    /\ version \in [Messages -> 0..MaxVersion]
    /\ backedUp \subseteq Messages
    /\ generation \in Generations
    /\ previous \in Ids \cup {Genesis}
    /\ prepared \in 0..MaxBackups
    /\ segments \subseteq [id : Ids, skeletons : Skeletons, bodies : Bodies]
    /\ manifests \in Seq(Manifests)
    /\ job \in [Workers -> [pc : Places, skeletons : Skeletons, bodies : Bodies,
                            manifest : Manifests \cup {Genesis}]]
    /\ quiet \subseteq Workers

Init ==
    /\ skeleton = [m \in Messages |-> "absent"]
    /\ version = [m \in Messages |-> 0]
    /\ backedUp = {}
    /\ generation = 0
    /\ previous = Genesis
    /\ prepared = 0
    /\ segments = {}
    /\ manifests = <<>>
    /\ job = [w \in Workers |-> Idle]
    /\ quiet = {}

At(w, pc) == job[w].pc = pc
Goto(w, pc) == job' = [job EXCEPT ![w].pc = pc]

--------------------------------------------------------------------------------
(* The store changes: see MessageStore for how.  None of these operations   *)
(* touches backup_state.                                                    *)

StoreChanges ==
    /\ quiet' = {}
    /\ UNCHANGED <<backedUp, coordinator, prepared, gateway, job>>

Receive(m) ==
    /\ skeleton[m] = "absent"
    /\ skeleton' = [skeleton EXCEPT ![m] = "live"]
    /\ version' = [version EXCEPT ![m] = 1]
    /\ StoreChanges

Edit(m) ==
    /\ skeleton[m] = "live"
    /\ version[m] < MaxVersion
    /\ version' = [version EXCEPT ![m] = @ + 1]
    /\ UNCHANGED skeleton
    /\ StoreChanges

DeleteForEveryone(m) ==
    /\ skeleton[m] = "live"
    /\ skeleton' = [skeleton EXCEPT ![m] = "deleted"]
    /\ version' = [version EXCEPT ![m] = 0]
    /\ StoreChanges

--------------------------------------------------------------------------------
(* BackupSnapshot::from_db: the skeletons that are not backed up, all bodies. *)

StoredSkeletons == {<<m, skeleton[m]>> : m \in {n \in Messages \ backedUp : skeleton[n] # "absent"}}
StoredBodies == {<<m, version[m]>> : m \in {n \in Messages : version[n] # 0}}

ReadSkeletons(w) ==
    /\ At(w, "idle")
    /\ job' = [job EXCEPT ![w] = [Idle EXCEPT !.pc = "bodies", !.skeletons = StoredSkeletons]]
    /\ quiet' = quiet \cup {w}
    /\ UNCHANGED <<store, backedUp, coordinator, prepared, gateway>>

ReadBodies(w) ==
    /\ At(w, "bodies")
    /\ job' = [job EXCEPT ![w].pc = "prepare", ![w].bodies = StoredBodies]
    /\ UNCHANGED <<store, backedUp, coordinator, prepared, gateway, quiet>>

(* Mutant: the manifest names the generation before it and not its hash. *)
PrepareByNumber(w) ==
    /\ At(w, "prepare")
    /\ prepared < MaxBackups
    /\ prepared' = prepared + 1
    /\ job' = [job EXCEPT ![w].pc = "segment",
                          ![w].manifest = [id |-> prepared + 1,
                                           generation |-> generation,
                                           previous |-> generation]]
    /\ UNCHANGED <<store, backedUp, coordinator, gateway, quiet>>

(* prepare_backup, under the coordinator's mutex.                           *)
Prepare(w) ==
    /\ At(w, "prepare")
    /\ prepared < MaxBackups
    /\ prepared' = prepared + 1
    /\ job' = [job EXCEPT ![w].pc = "segment",
                          ![w].manifest = [id |-> prepared + 1,
                                           generation |-> generation,
                                           previous |-> previous]]
    /\ UNCHANGED <<store, backedUp, coordinator, gateway, quiet>>

Segment(w) == [id |-> job[w].manifest.id, skeletons |-> job[w].skeletons,
               bodies |-> job[w].bodies]

(* The gateway applies an upload; the worker goes on, or its call fails.    *)
Answered(w, pc) ==
    \/ Goto(w, pc) /\ UNCHANGED quiet
    \/ LostReplies /\ job' = [job EXCEPT ![w] = Idle] /\ quiet' = quiet \ {w}

(* Mutant: a failed segment upload does not stop the backup. *)
UploadSegmentCarelessly(w) ==
    /\ At(w, "segment")
    /\ segments' \in {segments, segments \cup {Segment(w)}}
    /\ Answered(w, "manifest")
    /\ UNCHANGED <<store, backedUp, coordinator, prepared, manifests>>

UploadSegment(w) ==
    /\ At(w, "segment")
    /\ segments' = segments \cup {Segment(w)}
    /\ Answered(w, "manifest")
    /\ UNCHANGED <<store, backedUp, coordinator, prepared, manifests>>

UploadManifest(w) ==
    /\ At(w, "manifest")
    /\ manifests' = Append(manifests, job[w].manifest)
    /\ Answered(w, "finalize")
    /\ UNCHANGED <<store, backedUp, coordinator, prepared, segments>>

(* Mutant: the hash is kept, the generation is not advanced. *)
FinalizeSameGeneration(w) ==
    /\ At(w, "finalize")
    /\ previous' = job[w].manifest.id
    /\ Goto(w, "mark")
    /\ UNCHANGED <<store, backedUp, generation, prepared, gateway, quiet>>

(* finalize_backup, under the coordinator's mutex.                          *)
Finalize(w) ==
    /\ At(w, "finalize")
    /\ previous' = job[w].manifest.id
    /\ generation' = generation + 1
    /\ Goto(w, "mark")
    /\ UNCHANGED <<store, backedUp, prepared, gateway, quiet>>

(* Mutant: whatever is in the store by now is marked. *)
MarkEverything(w) ==
    /\ At(w, "mark")
    /\ backedUp' = {m \in Messages : skeleton[m] # "absent"}
    /\ job' = [job EXCEPT ![w] = Idle]
    /\ UNCHANGED <<store, coordinator, prepared, gateway, quiet>>

(* mark_backed_up: exactly the skeletons of the snapshot.                   *)
Mark(w) ==
    /\ At(w, "mark")
    /\ backedUp' = backedUp \cup {s[1] : s \in job[w].skeletons}
    /\ job' = [job EXCEPT ![w] = Idle]
    /\ UNCHANGED <<store, coordinator, prepared, gateway, quiet>>

(* A query, an upload or the marking fails without effect; run_incremental_ *)
(* backup returns the error.  finalize_backup cannot fail.                  *)
Fail(w) ==
    /\ job[w].pc \notin {"idle", "finalize"}
    /\ job' = [job EXCEPT ![w] = Idle]
    /\ quiet' = quiet \ {w}
    /\ UNCHANGED <<store, backedUp, coordinator, prepared, gateway>>

(* CoreImpl::new starts from a new coordinator.                             *)
Restart ==
    /\ Restarts
    /\ generation' = 0
    /\ previous' = Genesis
    /\ job' = [w \in Workers |-> Idle]
    /\ quiet' = {}
    /\ UNCHANGED <<store, backedUp, prepared, gateway>>

Backup(w) ==
    \/ ReadSkeletons(w) \/ ReadBodies(w) \/ Prepare(w)
    \/ UploadSegment(w) \/ UploadManifest(w) \/ Finalize(w) \/ Mark(w)
    \/ Fail(w)

Next ==
    \/ \E m \in Messages : Receive(m) \/ Edit(m) \/ DeleteForEveryone(m)
    \/ \E w \in Workers : Backup(w)
    \/ Restart

Spec == Init /\ [][Next]_vars

--------------------------------------------------------------------------------
(* What a restore would find.                                              *)

SegmentOf(i) == {s \in segments : s.id = manifests[i].id}

(* verify_chain of the manifests in the order the gateway returns them.    *)
ChainVerifies ==
    \A i \in DOMAIN manifests :
        IF i = 1
        THEN manifests[1].generation = 0 \/ manifests[1].previous = Genesis
        ELSE manifests[i].previous = manifests[i - 1].id

(* One worker that runs to its end each time publishes one chain, whatever *)
(* fails in between: the backup implements the abstract chain.             *)
Chain == INSTANCE ManifestChain
PublishesOneChain == Chain!Spec

(* A manifest never names a segment the gateway does not have, although    *)
(* both are uploaded without a lock and either upload may fail.            *)
ManifestsHaveSegments == \A i \in DOMAIN manifests : SegmentOf(i) # {}

(* A message that is marked, and so left out of later snapshots, is in a   *)
(* published segment: its skeleton, and its text unless the message was    *)
(* deleted since.  This rests on the order of the two reads and of the     *)
(* mark after the uploads, across workers, failures and restarts.          *)
MarkedIsRecoverable ==
    \A m \in backedUp :
        \E i \in DOMAIN manifests : \E s \in SegmentOf(i) :
            /\ \E state \in {"live", "deleted"} : <<m, state>> \in s.skeletons
            /\ skeleton[m] = "live" => \E v \in 1..version[m] : <<m, v>> \in s.bodies

(* What the segments hold of a message when they are applied in order.     *)
LastSegment(Holds(_)) ==
    {i \in DOMAIN manifests : /\ \E s \in SegmentOf(i) : Holds(s)
                              /\ \A k \in DOMAIN manifests : k > i =>
                                     ~ \E s \in SegmentOf(k) : Holds(s)}

RestoredStates(m) ==
    LET Holds(s) == \E e \in s.skeletons : e[1] = m
    IN  {state \in {"live", "deleted"} :
            \E i \in LastSegment(Holds) : \E s \in SegmentOf(i) : <<m, state>> \in s.skeletons}

(* "A point-in-time snapshot of the local store": after a backup that no   *)
(* change of the store overlapped, and until the next change, a restore    *)
(* gives the messages the state they have.                                 *)
BackupIsCurrent ==
    \A w \in quiet : At(w, "idle") =>
        \A m \in Messages : skeleton[m] # "absent" => RestoredStates(m) = {skeleton[m]}
================================================================================
