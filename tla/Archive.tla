-------------------------------- MODULE Archive --------------------------------
(***************************************************************************)
(* The archive coordinator (archive/): batches of messages are sealed      *)
(* under the key of a calendar epoch and uploaded, a manifest later names  *)
(* the segments, and epochs rotate as months pass.                         *)
(*                                                                         *)
(* Grain of atomicity.  Every method takes &mut self, so they follow one   *)
(* another.  An upload may be applied or not, and be answered or not, and  *)
(* the process may die; all of the coordinator is in memory.               *)
(*                                                                         *)
(* Data.  A segment is its id and the epoch whose key sealed it; a         *)
(* manifest's id stands for its hash.  wrapped holds the epochs whose keys *)
(* are wrapped, oldest first.                                              *)
(***************************************************************************)
EXTENDS Integers, Sequences

CONSTANTS
    YearDays, MonthDays, MonthsPerYear,  \* 365, 30 and 12
    MaxPending,    \* MAX_PENDING_SEGMENTS
    KeepCount,     \* prune_old_epochs_default: 12
    Genesis,       \* the all-zero hash
    MaxDay,        \* bounds: the last day, and how many segments and
    MaxSegments,   \* manifests are built
    MaxManifests

ASSUME CalendarAssumption ==
    /\ YearDays \in Nat \ {0} /\ MonthDays \in Nat \ {0} /\ MonthsPerYear \in Nat
    /\ (YearDays - 1) \div MonthDays <= MonthsPerYear

ASSUME ArchiveAssumption ==
    /\ MaxPending \in Nat /\ KeepCount \in Nat \ {0}
    /\ MaxDay \in Nat /\ MaxSegments \in Nat /\ MaxManifests \in Nat
    /\ Genesis \notin Nat

VARIABLES
    day,           \* the wall clock
    currentEpoch,  \* epoch_manager.current_epoch
    wrapped,       \* epoch_manager.wrapped_prior_epochs
    pending,       \* pending_segments
    generation,    \* current_generation
    previous,      \* prev_manifest_hash
    segments,      \* gateway: segments
    manifests,     \* gateway: manifests
    sealed,        \* history: segments sealed so far
    built,         \* history: manifests built so far
    inherited,     \* history: segments sealed before this process
    accepted       \* history: segments whose archive_batch returned Ok since then

epochs == <<currentEpoch, wrapped>>
chain == <<generation, previous>>
gateway == <<segments, manifests>>
counters == <<sealed, built, inherited>>
vars == <<day, epochs, pending, chain, gateway, counters, accepted>>

(* Months of 30 days in years of 365: the last days of a year have the      *)
(* index of the first month of the next.                                    *)
EpochOf(d) == (d \div YearDays) * MonthsPerYear + (d % YearDays) \div MonthDays

SegmentIds == 1..MaxSegments
ManifestIds == 1..MaxManifests
Elements(s) == {s[i] : i \in DOMAIN s}

TypeOK ==
    /\ day \in 0..MaxDay
    /\ currentEpoch \in Nat
    /\ wrapped \in Seq(Nat)
    /\ pending \in Seq(SegmentIds)
    /\ Len(pending) <= MaxPending
    /\ generation \in 0..MaxManifests
    /\ previous \in ManifestIds \cup {Genesis}
    /\ segments \subseteq [id : SegmentIds, epoch : Nat]
    /\ manifests \in Seq([id : ManifestIds, generation : 0..MaxManifests,
                          previous : ManifestIds \cup {Genesis},
                          segments : SUBSET SegmentIds])
    /\ sealed \in 0..MaxSegments /\ inherited \in 0..MaxSegments
    /\ built \in 0..MaxManifests
    /\ accepted \subseteq SegmentIds

Init ==
    /\ day \in 0..MaxDay
    /\ currentEpoch = EpochOf(day)
    /\ wrapped = <<>>
    /\ pending = <<>>
    /\ generation = 0
    /\ previous = Genesis
    /\ segments = {}
    /\ manifests = <<>>
    /\ sealed = 0 /\ built = 0 /\ inherited = 0
    /\ accepted = {}

--------------------------------------------------------------------------------
(* archive_batch: seal, upload, and only then look at the cap.             *)

Sealed == [id |-> sealed + 1, epoch |-> currentEpoch]

Queue ==
    IF Len(pending) >= MaxPending
    THEN UNCHANGED <<pending, accepted>>
    ELSE /\ pending' = Append(pending, sealed + 1)
         /\ accepted' = accepted \cup {sealed + 1}

(* Mutant: the segment is queued before it is known to be uploaded. *)
QueueBeforeUpload ==
    /\ sealed < MaxSegments
    /\ sealed' = sealed + 1
    /\ segments' \in {segments, segments \cup {Sealed}}
    /\ Queue
    /\ UNCHANGED <<day, epochs, chain, manifests, built, inherited>>

ArchiveBatch ==
    /\ sealed < MaxSegments
    /\ sealed' = sealed + 1
    /\ segments' = segments \cup {Sealed}
    /\ Queue
    /\ UNCHANGED <<day, epochs, chain, manifests, built, inherited>>

(* The upload is answered with an error, whether it was applied or not.     *)
ArchiveBatchFails ==
    /\ sealed < MaxSegments
    /\ sealed' = sealed + 1
    /\ segments' \in {segments, segments \cup {Sealed}}
    /\ UNCHANGED <<day, epochs, pending, chain, manifests, built, inherited, accepted>>

--------------------------------------------------------------------------------
(* finalize_epoch *)

(* The manifest has no field for the wrapped keys it is given.              *)
Manifest == [id |-> built + 1, generation |-> generation, previous |-> previous,
             segments |-> Elements(pending)]

FinalizeEpoch ==
    /\ pending # <<>>
    /\ built < MaxManifests
    /\ built' = built + 1
    /\ manifests' = Append(manifests, Manifest)
    /\ previous' = built + 1
    /\ generation' = generation + 1
    /\ pending' = <<>>
    /\ UNCHANGED <<day, epochs, segments, sealed, inherited, accepted>>

(* Mutant: the queue is taken before the upload. *)
FinalizeTakingQueue ==
    /\ pending # <<>>
    /\ built < MaxManifests
    /\ built' = built + 1
    /\ manifests' \in {manifests, Append(manifests, Manifest)}
    /\ pending' = <<>>
    /\ UNCHANGED <<day, epochs, chain, segments, sealed, inherited, accepted>>

FinalizeEpochFails ==
    /\ pending # <<>>
    /\ built < MaxManifests
    /\ built' = built + 1
    /\ manifests' \in {manifests, Append(manifests, Manifest)}
    /\ UNCHANGED <<day, epochs, pending, chain, segments, sealed, inherited, accepted>>

--------------------------------------------------------------------------------
(* Epochs *)

Rotate ==
    /\ wrapped' = Append(wrapped, currentEpoch)
    /\ currentEpoch' = currentEpoch + 1

(* One epoch per call, however far the clock is ahead.                      *)
MaybeRotate ==
    /\ EpochOf(day) > currentEpoch
    /\ Rotate
    /\ UNCHANGED <<day, pending, chain, gateway, counters, accepted>>

(* Mutant: the oldest keys are kept. *)
PruneKeepingOldest ==
    /\ Len(wrapped) > KeepCount
    /\ wrapped' = SubSeq(wrapped, 1, KeepCount)
    /\ UNCHANGED <<day, currentEpoch, pending, chain, gateway, counters, accepted>>

PruneOldEpochs ==
    /\ Len(wrapped) > KeepCount
    /\ wrapped' = SubSeq(wrapped, Len(wrapped) - KeepCount + 1, Len(wrapped))
    /\ UNCHANGED <<day, currentEpoch, pending, chain, gateway, counters, accepted>>

(* epoch_key: the key of an epoch, if the manager has it.                   *)
HasKey(epoch) == epoch = currentEpoch \/ epoch \in Elements(wrapped)

--------------------------------------------------------------------------------

Tick ==
    /\ day < MaxDay
    /\ day' = day + 1
    /\ UNCHANGED <<epochs, pending, chain, gateway, counters, accepted>>

(* The process ends, and the next one makes a new coordinator.              *)
Restart ==
    /\ currentEpoch' = EpochOf(day)
    /\ wrapped' = <<>>
    /\ pending' = <<>>
    /\ generation' = 0
    /\ previous' = Genesis
    /\ inherited' = sealed
    /\ accepted' = {}
    /\ UNCHANGED <<day, gateway, sealed, built>>

Next ==
    \/ ArchiveBatch \/ ArchiveBatchFails
    \/ FinalizeEpoch \/ FinalizeEpochFails
    \/ MaybeRotate \/ PruneOldEpochs
    \/ Tick \/ Restart

Spec == Init /\ [][Next]_vars

--------------------------------------------------------------------------------

Named == UNION {manifests[i].segments : i \in DOMAIN manifests}

(* A batch that archive_batch accepted is queued or named by a manifest,   *)
(* whatever failed since: a failed upload of a manifest keeps the queue.   *)
AcceptedIsNotForgotten == accepted \subseteq Elements(pending) \cup Named

(* A manifest names only segments the gateway has.                         *)
NamedIsUploaded == Named \subseteq {s.id : s \in segments}

(* Rotation that catches up one epoch at a time and pruning of the keys    *)
(* leave the key of every segment of this process that is not more than    *)
(* KeepCount epochs old.                                                   *)
RecentSegmentsOpen ==
    \A s \in segments :
        s.id > inherited /\ currentEpoch - s.epoch <= KeepCount => HasKey(s.epoch)

(* No segment is sealed for an epoch to come, although the calendar counts *)
(* the end of a year into the first month of the next.                     *)
EpochIsNotAhead == currentEpoch <= EpochOf(day)

--------------------------------------------------------------------------------
(* What the documentation says and the code does not do.                   *)

(* "Wrapped prior epoch keys (for restore)": a coordinator that was made   *)
(* anew has the keys of the recent segments the manifests name.            *)
InheritedSegmentsOpen ==
    \A s \in segments :
        s.id \in Named /\ currentEpoch - s.epoch <= KeepCount => HasKey(s.epoch)
================================================================================
