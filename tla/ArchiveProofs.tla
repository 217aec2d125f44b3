----------------------------- MODULE ArchiveProofs -----------------------------
(* Theorems about Archive, for any calendar, cap and number of kept keys.  *)
EXTENDS Archive, TLAPS

--------------------------------------------------------------------------------
(* The calendar never goes back from one day to the next.                  *)

LEMMA DivisionIsEuclidean ==
    ASSUME NEW a \in Nat, NEW b \in Nat \ {0}
    PROVE  /\ a \div b \in Nat
           /\ a % b \in 0..(b - 1)
           /\ a = b * (a \div b) + (a % b)
  OBVIOUS

LEMMA QuotientIsUnique ==
    ASSUME NEW b \in Nat \ {0}, NEW q \in Nat, NEW r \in 0..(b - 1)
    PROVE  (b * q + r) \div b = q /\ (b * q + r) % b = r
  OBVIOUS

LEMMA QuotientIsExact ==
    ASSUME NEW b \in Nat \ {0}, NEW q \in Nat
    PROVE  (b * q) \div b = q /\ (b * q) % b = 0
  OBVIOUS

LEMMA QuotientGrows ==
    ASSUME NEW a \in Nat, NEW b \in Nat \ {0}
    PROVE  a \div b <= (a + 1) \div b
  OBVIOUS

LEMMA EpochOfIsNat == ASSUME NEW d \in Nat PROVE EpochOf(d) \in Nat
  <1>. DEFINE q == d \div YearDays  r == d % YearDays
  <1>1. q \in Nat /\ r \in Nat
    BY CalendarAssumption, DivisionIsEuclidean
  <1>. HIDE DEF q, r
  <1>2. r \div MonthDays \in Nat
    BY <1>1, CalendarAssumption, DivisionIsEuclidean
  <1>3. q * MonthsPerYear \in Nat
    BY <1>1, CalendarAssumption
  <1>4. EpochOf(d) = q * MonthsPerYear + (r \div MonthDays)
    BY DEF EpochOf, q, r
  <1>. QED
    BY <1>2, <1>3, <1>4

(* current_epoch_id does not decrease at the end of a month, nor at the end *)
(* of a year, whose last days have the index of a thirteenth month.         *)
LEMMA EpochOfGrows == ASSUME NEW d \in Nat PROVE EpochOf(d) <= EpochOf(d + 1)
  <1>. DEFINE q == d \div YearDays  r == d % YearDays
  <1>1. q \in Nat /\ r \in 0..(YearDays - 1) /\ d = YearDays * q + r
    BY CalendarAssumption, DivisionIsEuclidean
  <1>2. YearDays \in Nat \ {0} /\ MonthDays \in Nat \ {0} /\ MonthsPerYear \in Nat
    BY CalendarAssumption
  <1>3. EpochOf(d) = q * MonthsPerYear + (r \div MonthDays)
    BY DEF EpochOf
  <1>. HIDE DEF q, r
  <1>4. q * MonthsPerYear \in Nat
    BY <1>1, <1>2
  <1>5. CASE r + 1 < YearDays
    <2>1. r + 1 \in 0..(YearDays - 1) /\ d + 1 = YearDays * q + (r + 1)
      BY <1>1, <1>2, <1>5
    <2>2. (d + 1) \div YearDays = q /\ (d + 1) % YearDays = r + 1
      BY <1>1, <1>2, <2>1, QuotientIsUnique
    <2>3. r \div MonthDays <= (r + 1) \div MonthDays
      BY <1>1, <1>2, QuotientGrows
    <2>4. r \div MonthDays \in Nat /\ (r + 1) \div MonthDays \in Nat
      BY <1>1, <1>2, DivisionIsEuclidean
    <2>. QED
      BY <1>3, <1>4, <2>2, <2>3, <2>4 DEF EpochOf
  <1>6. CASE r + 1 = YearDays
    <2>1. q + 1 \in Nat /\ d + 1 = YearDays * (q + 1)
      BY <1>1, <1>2, <1>6
    <2>2. (d + 1) \div YearDays = q + 1 /\ (d + 1) % YearDays = 0
      BY <1>2, <2>1, QuotientIsExact
    <2>3. r \div MonthDays <= MonthsPerYear
      BY <1>1, <1>2, <1>6, CalendarAssumption
    <2>4. r \div MonthDays \in Nat
      BY <1>1, <1>2, DivisionIsEuclidean
    <2>5. 0 \div MonthDays = 0
      BY <1>2, QuotientIsUnique
    <2>6. (q + 1) * MonthsPerYear = q * MonthsPerYear + MonthsPerYear
      BY <1>1, <1>2
    <2>. QED
      BY <1>2, <1>3, <1>4, <2>2, <2>3, <2>4, <2>5, <2>6 DEF EpochOf
  <1>. QED
    BY <1>1, <1>2, <1>5, <1>6

--------------------------------------------------------------------------------
(* Types *)

LEMMA TypeInit == Init => TypeOK
  <1>. SUFFICES ASSUME Init PROVE TypeOK
    OBVIOUS
  <1>1. day \in Nat
    BY ArchiveAssumption DEF Init
  <1>2. currentEpoch \in Nat
    BY <1>1, EpochOfIsNat DEF Init
  <1>. QED
    BY <1>2, ArchiveAssumption DEF Init, TypeOK

LEMMA PendingAreIds ==
    ASSUME NEW s \in Seq(SegmentIds) PROVE Elements(s) \subseteq SegmentIds
  BY DEF Elements

LEMMA QueueKeepsType ==
    ASSUME TypeOK, Queue, sealed < MaxSegments
    PROVE  /\ pending' \in Seq(SegmentIds) /\ Len(pending') <= MaxPending
           /\ accepted' \subseteq SegmentIds
  <1>1. sealed + 1 \in SegmentIds
    BY ArchiveAssumption DEF TypeOK, SegmentIds
  <1>2. CASE Len(pending) >= MaxPending
    BY <1>2 DEF TypeOK, Queue
  <1>3. CASE ~ (Len(pending) >= MaxPending)
    <2>1. pending' = Append(pending, sealed + 1) /\ accepted' = accepted \cup {sealed + 1}
      BY <1>3 DEF Queue
    <2>2. pending \in Seq(SegmentIds) /\ Len(pending) \in Nat /\ Len(pending) < MaxPending
      BY <1>3, ArchiveAssumption DEF TypeOK
    <2>3. pending' \in Seq(SegmentIds) /\ Len(pending') = Len(pending) + 1
      BY <1>1, <2>1, <2>2
    <2>. QED
      BY <1>1, <2>1, <2>2, <2>3, ArchiveAssumption DEF TypeOK
  <1>. QED
    BY <1>2, <1>3

LEMMA SealedIsSegment ==
    ASSUME TypeOK, sealed < MaxSegments
    PROVE  /\ sealed + 1 \in 0..MaxSegments
           /\ Sealed \in [id : SegmentIds, epoch : Nat]
  BY ArchiveAssumption DEF TypeOK, Sealed, SegmentIds

LEMMA ManifestIsOne ==
    ASSUME TypeOK, built < MaxManifests
    PROVE  /\ built + 1 \in ManifestIds
           /\ Append(manifests, Manifest)
                 \in Seq([id : ManifestIds, generation : 0..MaxManifests,
                          previous : ManifestIds \cup {Genesis},
                          segments : SUBSET SegmentIds])
  <1>. DEFINE All == [id : ManifestIds, generation : 0..MaxManifests,
                      previous : ManifestIds \cup {Genesis}, segments : SUBSET SegmentIds]
  <1>1. built + 1 \in ManifestIds
    BY ArchiveAssumption DEF TypeOK, ManifestIds
  <1>2. Elements(pending) \subseteq SegmentIds
    BY PendingAreIds DEF TypeOK
  <1>3. generation \in 0..MaxManifests /\ previous \in ManifestIds \cup {Genesis}
    BY DEF TypeOK
  <1>4. Manifest \in All
    BY <1>1, <1>2, <1>3 DEF Manifest
  <1>5. manifests \in Seq(All)
    BY DEF TypeOK
  <1>. QED
    BY <1>1, <1>4, <1>5

TypeInv == TypeOK /\ generation <= built

LEMMA TypeNext == TypeInv /\ [Next]_vars => TypeInv'
  <1>. SUFFICES ASSUME TypeInv, [Next]_vars PROVE TypeInv'
    OBVIOUS
  <1>. USE DEF epochs, chain, gateway, counters
  <1>1. CASE ArchiveBatch
    <2>1. sealed < MaxSegments /\ Queue
      BY <1>1 DEF ArchiveBatch
    <2>2. segments' \subseteq [id : SegmentIds, epoch : Nat] /\ sealed' \in 0..MaxSegments
      BY <1>1, <2>1, SealedIsSegment DEF ArchiveBatch, TypeInv, TypeOK
    <2>3. /\ pending' \in Seq(SegmentIds) /\ Len(pending') <= MaxPending
          /\ accepted' \subseteq SegmentIds
      BY <2>1, QueueKeepsType DEF TypeInv
    <2>. QED
      BY <1>1, <2>2, <2>3 DEF ArchiveBatch, TypeInv, TypeOK
  <1>2. CASE ArchiveBatchFails
    <2>1. segments' \subseteq [id : SegmentIds, epoch : Nat] /\ sealed' \in 0..MaxSegments
      BY <1>2, SealedIsSegment DEF ArchiveBatchFails, TypeInv, TypeOK
    <2>. QED
      BY <1>2, <2>1 DEF ArchiveBatchFails, TypeInv, TypeOK
  <1>3. CASE FinalizeEpoch
    <2>1. /\ built + 1 \in ManifestIds /\ built' = built + 1
          /\ manifests' = Append(manifests, Manifest)
      BY <1>3, ManifestIsOne DEF FinalizeEpoch, TypeInv
    <2>2. generation + 1 \in 0..MaxManifests /\ generation + 1 <= built + 1
      BY <1>3, ArchiveAssumption DEF FinalizeEpoch, TypeInv, TypeOK
    <2>3. built + 1 \in 0..MaxManifests
      BY <1>3, ArchiveAssumption DEF FinalizeEpoch, TypeInv, TypeOK
    <2>4. <<>> \in Seq(SegmentIds) /\ Len(<<>>) <= MaxPending
      BY ArchiveAssumption
    <2>5. manifests' \in Seq([id : ManifestIds, generation : 0..MaxManifests,
                              previous : ManifestIds \cup {Genesis},
                              segments : SUBSET SegmentIds])
      BY <1>3, <2>1, ManifestIsOne DEF FinalizeEpoch, TypeInv
    <2>. QED
      BY <1>3, <2>1, <2>2, <2>3, <2>4, <2>5 DEF FinalizeEpoch, TypeInv, TypeOK
  <1>4. CASE FinalizeEpochFails
    <2>1. manifests' \in Seq([id : ManifestIds, generation : 0..MaxManifests,
                              previous : ManifestIds \cup {Genesis},
                              segments : SUBSET SegmentIds])
      BY <1>4, ManifestIsOne DEF FinalizeEpochFails, TypeInv, TypeOK
    <2>2. built' \in 0..MaxManifests /\ generation' <= built'
      BY <1>4, ArchiveAssumption DEF FinalizeEpochFails, TypeInv, TypeOK
    <2>. QED
      BY <1>4, <2>1, <2>2 DEF FinalizeEpochFails, TypeInv, TypeOK
  <1>5. CASE MaybeRotate
    <2>1. wrapped' \in Seq(Nat) /\ currentEpoch' \in Nat
      BY <1>5 DEF MaybeRotate, Rotate, TypeInv, TypeOK
    <2>. QED
      BY <1>5, <2>1 DEF MaybeRotate, TypeInv, TypeOK
  <1>6. CASE PruneOldEpochs
    <2>1. wrapped' \in Seq(Nat)
      BY <1>6, ArchiveAssumption DEF PruneOldEpochs, TypeInv, TypeOK
    <2>. QED
      BY <1>6, <2>1 DEF PruneOldEpochs, TypeInv, TypeOK
  <1>7. CASE Tick
    BY <1>7, ArchiveAssumption DEF Tick, TypeInv, TypeOK
  <1>8. CASE Restart
    <2>1. day \in Nat
      BY ArchiveAssumption DEF TypeInv, TypeOK
    <2>2. EpochOf(day) \in Nat
      BY <2>1, EpochOfIsNat
    <2>3. <<>> \in Seq(SegmentIds) /\ Len(<<>>) <= MaxPending /\ <<>> \in Seq(Nat)
      BY ArchiveAssumption
    <2>. QED
      BY <1>8, <2>2, <2>3, ArchiveAssumption DEF Restart, TypeInv, TypeOK
  <1>9. CASE UNCHANGED vars
    BY <1>9 DEF vars, TypeInv, TypeOK
  <1>. QED
    BY <1>1, <1>2, <1>3, <1>4, <1>5, <1>6, <1>7, <1>8, <1>9 DEF Next

(* The strengthening of TypeOK that is inductive: generation counts no more *)
(* manifests than were built, which bounds it.                              *)
THEOREM InvariantOfTypes == Spec => []TypeInv
  <1>1. Init => TypeInv
    BY TypeInit DEF Init, TypeInv
  <1>. QED
    BY <1>1, TypeNext, PTL DEF Spec

(* Every variable of the archive coordinator and of the gateway keeps its   *)
(* type, and the queue never outgrows MAX_PENDING_SEGMENTS.                 *)
THEOREM TypeCorrect == Spec => []TypeOK
  <1>1. TypeInv => TypeOK
    BY DEF TypeInv
  <1>. QED
    BY <1>1, InvariantOfTypes, PTL

--------------------------------------------------------------------------------
(* Epochs follow the calendar                                              *)

LEMMA EpochIsNotAheadNext ==
    TypeInv /\ EpochIsNotAhead /\ [Next]_vars => EpochIsNotAhead'
  <1>. SUFFICES ASSUME TypeInv, EpochIsNotAhead, [Next]_vars PROVE EpochIsNotAhead'
    OBVIOUS
  <1>. USE DEF epochs, EpochIsNotAhead
  <1>1. day \in Nat /\ currentEpoch \in Nat
    BY ArchiveAssumption DEF TypeInv, TypeOK
  <1>2. EpochOf(day) \in Nat /\ EpochOf(day + 1) \in Nat /\ EpochOf(day) <= EpochOf(day + 1)
    BY <1>1, EpochOfIsNat, EpochOfGrows
  <1>3. CASE MaybeRotate
    BY <1>1, <1>2, <1>3 DEF MaybeRotate, Rotate
  <1>4. CASE Tick
    BY <1>1, <1>2, <1>4 DEF Tick
  <1>5. CASE Restart
    BY <1>2, <1>5 DEF Restart
  <1>6. CASE UNCHANGED <<day, currentEpoch>>
    BY <1>6 DEF EpochOf
  <1>. QED
    BY <1>3, <1>4, <1>5, <1>6
    DEF Next, vars, ArchiveBatch, ArchiveBatchFails, FinalizeEpoch, FinalizeEpochFails,
        PruneOldEpochs

(* maybe_rotate never enters an epoch before the calendar does, and the     *)
(* calendar of current_epoch_id never goes back from one day to the next.   *)
THEOREM EpochNeverAhead == Spec => []EpochIsNotAhead
  <1>1. Init => EpochIsNotAhead
    <2>. SUFFICES ASSUME Init PROVE EpochIsNotAhead
      OBVIOUS
    <2>1. EpochOf(day) \in Nat
      BY EpochOfIsNat, ArchiveAssumption DEF Init
    <2>. QED
      BY <2>1 DEF Init, EpochIsNotAhead
  <1>. QED
    BY <1>1, InvariantOfTypes, EpochIsNotAheadNext, PTL DEF Spec

--------------------------------------------------------------------------------
(* Queue and manifests                                                     *)

LEMMA ElementsOfAppend ==
    ASSUME NEW S, NEW s \in Seq(S), NEW e \in S
    PROVE  Elements(Append(s, e)) = Elements(s) \cup {e}
  <1>. DEFINE a == Append(s, e)
  <1>1. /\ DOMAIN a = 1..(Len(s) + 1) /\ DOMAIN s = 1..Len(s) /\ Len(s) \in Nat
        /\ \A i \in 1..Len(s) : a[i] = s[i]
        /\ a[Len(s) + 1] = e
    OBVIOUS
  <1>2. 1..(Len(s) + 1) = 1..Len(s) \cup {Len(s) + 1}
    BY <1>1
  <1>. HIDE DEF a
  <1>3. ASSUME NEW x PROVE x \in Elements(a) <=> x \in Elements(s) \/ x = e
    BY <1>1, <1>2 DEF Elements
  <1>4. Elements(a) = Elements(s) \cup {e}
    BY <1>3
  <1>. QED
    BY <1>4 DEF a

LEMMA NamedAfterAppend ==
    ASSUME TypeInv, built < MaxManifests, manifests' = Append(manifests, Manifest)
    PROVE  Named' = Named \cup Elements(pending)
  <1>. DEFINE All == [id : ManifestIds, generation : 0..MaxManifests,
                      previous : ManifestIds \cup {Genesis}, segments : SUBSET SegmentIds]
  <1>1. manifests \in Seq(All)
    BY DEF TypeInv, TypeOK
  <1>2. /\ DOMAIN manifests' = 1..(Len(manifests) + 1)
        /\ \A i \in 1..Len(manifests) : manifests'[i] = manifests[i]
        /\ manifests'[Len(manifests) + 1] = Manifest
        /\ DOMAIN manifests = 1..Len(manifests) /\ Len(manifests) \in Nat
    BY <1>1
  <1>3. Manifest.segments = Elements(pending)
    BY DEF Manifest
  <1>4. 1..(Len(manifests) + 1) = 1..Len(manifests) \cup {Len(manifests) + 1}
    BY <1>2
  <1>. HIDE DEF All
  <1>5. ASSUME NEW x PROVE x \in Named' <=> x \in Named \/ x \in Elements(pending)
    BY <1>2, <1>3, <1>4 DEF Named
  <1>. QED
    BY <1>5

(* Queued and named segments have been uploaded. *)
QueuedIsUploaded == Elements(pending) \subseteq {s.id : s \in segments}

SegmentInv == QueuedIsUploaded /\ NamedIsUploaded /\ AcceptedIsNotForgotten

LEMMA SegmentInvNext == TypeInv /\ SegmentInv /\ [Next]_vars => SegmentInv'
  <1>. SUFFICES ASSUME TypeInv, SegmentInv, [Next]_vars PROVE SegmentInv'
    OBVIOUS
  <1>. USE DEF SegmentInv, QueuedIsUploaded, NamedIsUploaded, AcceptedIsNotForgotten, gateway
  <1>1. CASE ArchiveBatch
    <2>1. Named' = Named
      BY <1>1 DEF ArchiveBatch, Named
    <2>2. {s.id : s \in segments'} = {s.id : s \in segments} \cup {sealed + 1}
      <3>1. segments' = segments \cup {Sealed} /\ Sealed.id = sealed + 1
        BY <1>1 DEF ArchiveBatch, Sealed
      <3>2. ASSUME NEW x
            PROVE  x \in {s.id : s \in segments'} <=> x \in {s.id : s \in segments} \/ x = sealed + 1
        BY <3>1
      <3>. QED
        BY <3>2
    <2>3. CASE Len(pending) >= MaxPending
      BY <1>1, <2>1, <2>2, <2>3 DEF ArchiveBatch, Queue
    <2>4. CASE ~ (Len(pending) >= MaxPending)
      <3>1. sealed + 1 \in SegmentIds /\ pending \in Seq(SegmentIds)
        BY <1>1, ArchiveAssumption DEF ArchiveBatch, SegmentIds, TypeInv, TypeOK
      <3>2. pending' = Append(pending, sealed + 1) /\ accepted' = accepted \cup {sealed + 1}
        BY <1>1, <2>4 DEF ArchiveBatch, Queue
      <3>3. Elements(pending)' = Elements(pending) \cup {sealed + 1}
        BY <3>1, <3>2, ElementsOfAppend DEF Elements
      <3>. QED
        BY <2>1, <2>2, <3>2, <3>3
    <2>. QED
      BY <2>3, <2>4
  <1>2. CASE ArchiveBatchFails
    <2>1. Named' = Named /\ Elements(pending)' = Elements(pending)
      BY <1>2 DEF ArchiveBatchFails, Named, Elements
    <2>2. segments \subseteq segments'
      BY <1>2 DEF ArchiveBatchFails
    <2>. QED
      BY <1>2, <2>1, <2>2 DEF ArchiveBatchFails
  <1>3. CASE FinalizeEpoch
    <2>1. Named' = Named \cup Elements(pending)
      BY <1>3, NamedAfterAppend DEF FinalizeEpoch
    <2>2. Elements(pending)' = {}
      BY <1>3 DEF FinalizeEpoch, Elements
    <2>. QED
      BY <1>3, <2>1, <2>2 DEF FinalizeEpoch
  <1>4. CASE FinalizeEpochFails
    <2>1. Named' = Named \/ Named' = Named \cup Elements(pending)
      BY <1>4, NamedAfterAppend DEF FinalizeEpochFails, Named
    <2>2. Elements(pending)' = Elements(pending)
      BY <1>4 DEF FinalizeEpochFails, Elements
    <2>. QED
      BY <1>4, <2>1, <2>2 DEF FinalizeEpochFails
  <1>5. CASE Restart
    <2>1. Named' = Named
      BY <1>5 DEF Restart, Named
    <2>2. Elements(pending)' = {}
      BY <1>5 DEF Restart, Elements
    <2>. QED
      BY <1>5, <2>1, <2>2 DEF Restart
  <1>6. CASE UNCHANGED <<pending, segments, manifests, accepted>>
    BY <1>6 DEF Named, Elements
  <1>. QED
    BY <1>1, <1>2, <1>3, <1>4, <1>5, <1>6
    DEF Next, vars, MaybeRotate, PruneOldEpochs, Tick

LEMMA SegmentInvInit == Init => SegmentInv
  BY DEF Init, SegmentInv, QueuedIsUploaded, NamedIsUploaded, AcceptedIsNotForgotten, Named,
         Elements

(* What archive_batch accepted stays queued until a manifest names it, with *)
(* failed and unanswered uploads anywhere.                                  *)
THEOREM AcceptedNeverForgotten == Spec => []AcceptedIsNotForgotten
  <1>1. SegmentInv => AcceptedIsNotForgotten
    BY DEF SegmentInv
  <1>. QED
    BY <1>1, InvariantOfTypes, SegmentInvInit, SegmentInvNext, PTL DEF Spec

(* No manifest names a segment that the gateway does not have.              *)
THEOREM NamedAlwaysUploaded == Spec => []NamedIsUploaded
  <1>1. SegmentInv => NamedIsUploaded
    BY DEF SegmentInv
  <1>. QED
    BY <1>1, InvariantOfTypes, SegmentInvInit, SegmentInvNext, PTL DEF Spec

--------------------------------------------------------------------------------
(* Keys                                                                    *)

(* The wrapped keys are those of the epochs just before the current one,    *)
(* without a gap; a segment of this process is of one of them unless keys   *)
(* were pruned, and then KeepCount of them are left.                        *)
KeysAreConsecutive ==
    \A i \in 1..Len(wrapped) : wrapped[i] = currentEpoch - Len(wrapped) - 1 + i

IdsAreCounted == \A s \in segments : s.id <= sealed

OwnEpochsAreNear ==
    \A s \in segments :
        s.id > inherited =>
            /\ s.epoch <= currentEpoch
            /\ Len(wrapped) < KeepCount => s.epoch >= currentEpoch - Len(wrapped)

KeyInv == KeysAreConsecutive /\ IdsAreCounted /\ OwnEpochsAreNear

LEMMA KeyInvNext == TypeInv /\ KeyInv /\ [Next]_vars => KeyInv'
  <1>. SUFFICES ASSUME TypeInv, KeyInv, [Next]_vars PROVE KeyInv'
    OBVIOUS
  <1>. USE DEF KeyInv, KeysAreConsecutive, IdsAreCounted, OwnEpochsAreNear,
               epochs, chain, gateway, counters
  <1>1. /\ currentEpoch \in Nat /\ wrapped \in Seq(Nat) /\ Len(wrapped) \in Nat
        /\ sealed \in Nat /\ inherited \in Nat /\ KeepCount \in Nat \ {0}
        /\ \A s \in segments : s.id \in Nat /\ s.epoch \in Nat
    BY ArchiveAssumption DEF TypeInv, TypeOK, SegmentIds
  <1>2. ASSUME sealed' = sealed + 1, segments' \subseteq segments \cup {Sealed},
               UNCHANGED <<epochs, inherited>>
        PROVE  KeyInv'
    <2>1. Sealed.id = sealed + 1 /\ Sealed.epoch = currentEpoch
      BY DEF Sealed
    <2>2. KeysAreConsecutive'
      BY <1>2
    <2>3. IdsAreCounted'
      BY <1>1, <1>2, <2>1
    <2>4. OwnEpochsAreNear'
      BY <1>1, <1>2, <2>1
    <2>. QED
      BY <2>2, <2>3, <2>4
  <1>3. CASE ArchiveBatch
    BY <1>2, <1>3 DEF ArchiveBatch
  <1>4. CASE ArchiveBatchFails
    BY <1>2, <1>4 DEF ArchiveBatchFails
  <1>5. CASE MaybeRotate
    <2>1. /\ currentEpoch' = currentEpoch + 1 /\ Len(wrapped') = Len(wrapped) + 1
          /\ \A i \in 1..Len(wrapped) : wrapped'[i] = wrapped[i]
          /\ wrapped'[Len(wrapped) + 1] = currentEpoch
      BY <1>1, <1>5 DEF MaybeRotate, Rotate
    <2>2. UNCHANGED <<segments, sealed, inherited>>
      BY <1>5 DEF MaybeRotate
    <2>3. ASSUME NEW i \in 1..(Len(wrapped) + 1)
          PROVE  wrapped'[i] = currentEpoch - Len(wrapped) - 1 + i
      <3>. DEFINE n == Len(wrapped)
      <3>1. n \in Nat /\ i \in 1..(n + 1)
        BY <1>1
      <3>2. /\ i \in 1..n => wrapped'[i] = currentEpoch - n - 1 + i
            /\ wrapped'[n + 1] = currentEpoch
        BY <2>1
      <3>. HIDE DEF n
      <3>3. i \in 1..n \/ (i = n + 1 /\ currentEpoch - n - 1 + i = currentEpoch)
        BY <1>1, <3>1
      <3>. QED
        BY <3>2, <3>3 DEF n
    <2>4. KeysAreConsecutive'
      <3>1. Len(wrapped') = Len(wrapped) + 1
        BY <2>1
      <3>. QED
        BY <1>1, <2>1, <2>3, <3>1
    <2>5. OwnEpochsAreNear'
      BY <1>1, <2>1, <2>2
    <2>. QED
      BY <2>2, <2>4, <2>5
  <1>6. CASE PruneOldEpochs
    <2>1. /\ Len(wrapped) > KeepCount /\ Len(wrapped') = KeepCount
          /\ \A i \in 1..KeepCount : wrapped'[i] = wrapped[Len(wrapped) - KeepCount + i]
      BY <1>1, <1>6 DEF PruneOldEpochs
    <2>2. UNCHANGED <<currentEpoch, segments, sealed, inherited>>
      BY <1>6 DEF PruneOldEpochs
    <2>3. ASSUME NEW i \in 1..KeepCount
          PROVE  wrapped'[i] = currentEpoch - KeepCount - 1 + i
      <3>. DEFINE n == Len(wrapped)  j == n - KeepCount + i
      <3>1. n \in Nat /\ KeepCount \in Nat \ {0} /\ i \in 1..KeepCount /\ n > KeepCount
        BY <1>1, <2>1
      <3>2. wrapped'[i] = wrapped[j] /\ (j \in 1..n => wrapped[j] = currentEpoch - n - 1 + j)
        BY <2>1
      <3>. HIDE DEF n
      <3>3. j \in 1..n /\ currentEpoch - n - 1 + j = currentEpoch - KeepCount - 1 + i
        BY <1>1, <3>1
      <3>. QED
        BY <3>2, <3>3
    <2>4. KeysAreConsecutive'
      BY <2>1, <2>2, <2>3
    <2>5. OwnEpochsAreNear'
      BY <1>1, <2>1, <2>2
    <2>. QED
      BY <2>2, <2>4, <2>5
  <1>7. CASE Restart
    BY <1>1, <1>7 DEF Restart
  <1>8. CASE UNCHANGED <<epochs, segments, sealed, inherited>>
    BY <1>8
  <1>. QED
    BY <1>3, <1>4, <1>5, <1>6, <1>7, <1>8
    DEF Next, vars, FinalizeEpoch, FinalizeEpochFails, Tick

LEMMA KeyInvOpens == TypeInv /\ KeyInv => RecentSegmentsOpen
  <1>. SUFFICES ASSUME TypeInv, KeyInv,
                       NEW s \in segments, s.id > inherited,
                       currentEpoch - s.epoch <= KeepCount
                PROVE  HasKey(s.epoch)
    BY DEF RecentSegmentsOpen
  <1>1. /\ currentEpoch \in Nat /\ Len(wrapped) \in Nat /\ s.epoch \in Nat
        /\ KeepCount \in Nat \ {0} /\ DOMAIN wrapped = 1..Len(wrapped)
    BY ArchiveAssumption DEF TypeInv, TypeOK
  <1>2. s.epoch <= currentEpoch /\ s.epoch >= currentEpoch - Len(wrapped)
    BY <1>1 DEF KeyInv, OwnEpochsAreNear
  <1>3. CASE s.epoch < currentEpoch
    <2>. DEFINE i == s.epoch - currentEpoch + Len(wrapped) + 1
    <2>1. i \in 1..Len(wrapped)
      BY <1>1, <1>2, <1>3
    <2>2. wrapped[i] = s.epoch
      BY <1>1, <2>1 DEF KeyInv, KeysAreConsecutive
    <2>. QED
      BY <1>1, <2>1, <2>2 DEF HasKey, Elements
  <1>. QED
    BY <1>1, <1>2, <1>3 DEF HasKey

(* However far behind the clock the rotation is, and whenever it is pruned, *)
(* the manager keeps the key of every segment of this process that is at    *)
(* most KeepCount epochs old.                                               *)
THEOREM RecentAlwaysOpen == Spec => []RecentSegmentsOpen
  <1>1. Init => KeyInv
    BY DEF Init, KeyInv, KeysAreConsecutive, IdsAreCounted, OwnEpochsAreNear
  <1>. QED
    BY <1>1, InvariantOfTypes, KeyInvNext, KeyInvOpens, PTL DEF Spec
================================================================================
