------------------------------ MODULE PartsProofs -------------------------------
(***************************************************************************)
(* What is proved about the parts (Parts.tla) for every instance.  A       *)
(* behaviour of the whole is, for each part, a behaviour of that part      *)
(* (PartsMove), so that an invariant is found part by part.  Induction     *)
(* over the naturals is stated with sets (Inductive), as the provers       *)
(* cannot use it stated with an operator.                                  *)
(***************************************************************************)
EXTENDS Parts, SequenceTheorems, FiniteSetTheorems, FunctionTheorems, WellFoundedInduction,
        TLAPS

--------------------------------------------------------------------------------

(* A set of natural numbers has a least.                                     *)
LEMMA LeastOf == ASSUME NEW S \in SUBSET Nat, S # {} PROVE \E n \in S : \A m \in S : n =< m
<1> DEFINE R == OpToRel(<, Nat)
<1>1. IsWellFoundedOn(R, Nat)
  BY NatLessThanWellFounded
<1>2. \A m, n \in Nat : <<m, n>> \in R <=> m < n
  BY DEF OpToRel
<1> HIDE DEF R
<1>3. PICK n \in S : \A m \in S : ~ (<<m, n>> \in R)
  BY <1>1, WFMin
<1>4. \A m \in S : ~ (m < n)
  BY <1>2, <1>3
<1> QED
  BY <1>4

(* Induction: a set with zero and with the successor of each of its numbers. *)
LEMMA Inductive ==
  ASSUME NEW S, 0 \in S, \A n \in Nat : n \in S => n + 1 \in S
  PROVE  Nat \subseteq S
<1> DEFINE T == Nat \ S
<1>1. SUFFICES ASSUME T # {} PROVE FALSE
  OBVIOUS
<1>2. PICK n \in T : \A m \in T : n =< m
  BY <1>1, LeastOf
<1>3. n - 1 \in Nat /\ n - 1 \notin T
  BY <1>2
<1> QED
  BY <1>2, <1>3

--------------------------------------------------------------------------------

(* A step of the whole is a step of each part, or leaves it as it is.        *)
LEMMA PartsMove ==
  ASSUME [Next]_vars
  PROVE  /\ [Pool!Next]_poolVars /\ [ShardCaching!Next]_shardsVars /\ [Engine!Next]_searchVars
         /\ [MediaFiles!Next]_mediaVars /\ [Vault!Next]_vaultVars /\ [Stream!Next]_streamVars
         /\ [Fuzzy!Next]_fuzzyVars /\ [Pages!Next]_timelineVars /\ [Columns!Next]_columnsVars
         /\ [Lists!Next]_manifestsVars /\ [Signatures!Next]_signaturesVars
         /\ [Objects!Next]_objectsVars /\ [Keys!Next]_keysVars /\ [Epochs!Next]_epochsVars
<1>1. CASE UNCHANGED vars
  BY <1>1 DEF vars
<1>2. CASE Next
  BY <1>2 DEF Next, Still
<1> QED
  BY <1>1, <1>2

--------------------------------------------------------------------------------

OneHost == \E h : Hosts = {h}

Rotation == [epoch : 0..EpochMax, at : 0..MaxTime]

(* The rotations that were noted, and the rotator is at the last of them.    *)
EpochsInv ==
    /\ rotator \in [epoch : 0..EpochMax, last : 0..MaxTime] /\ today \in 0..MaxTime
    /\ plan \in [Hosts -> BOOLEAN]
    /\ rotations \in Seq(Rotation) /\ rotations # <<>>
    /\ rotations[Len(rotations)] = [epoch |-> rotator.epoch, at |-> rotator.last]
    /\ Epochs!EpochsAreNew

(* With one host a rotation that is planned is still due.                    *)
AloneEpochsInv ==
    /\ EpochsInv
    /\ \A h \in Hosts : plan[h] => Epochs!Due
    /\ Epochs!EpochsLast

LEMMA EpochsBegin == Epochs!Init => AloneEpochsInv
<1> SUFFICES ASSUME Epochs!Init PROVE AloneEpochsInv
  OBVIOUS
<1> DEFINE first == [epoch |-> 0, at |-> 0]
<1>1. EpochMax \in Nat /\ MaxTime \in Nat
  BY EpochRotationAssumption
<1>2. first \in Rotation
  BY <1>1 DEF Rotation
<1>3. rotations = <<first>> /\ rotations \in Seq(Rotation) /\ Len(rotations) = 1
  BY <1>2 DEF Epochs!Init
<1>4. /\ rotator = [epoch |-> 0, last |-> 0] /\ today = 0
      /\ plan = [h \in Hosts |-> FALSE]
  BY DEF Epochs!Init
<1> QED
  BY <1>1, <1>3, <1>4 DEF AloneEpochsInv, EpochsInv, Epochs!EpochsAreNew, Epochs!EpochsLast

LEMMA Rotates ==
  ASSUME EpochsInv, NEW h \in Hosts, Epochs!Rotate(h), rotator.epoch < EpochMax
  PROVE  /\ rotations' \in Seq(Rotation) /\ Len(rotations') = Len(rotations) + 1
         /\ \A i \in 1..Len(rotations) : rotations'[i] = rotations[i]
         /\ rotations'[Len(rotations) + 1] = [epoch |-> rotator.epoch + 1, at |-> today]
         /\ rotator' = [epoch |-> rotator.epoch + 1, last |-> today]
         /\ Len(rotations) \in Nat \ {0}
<1> DEFINE new == [epoch |-> rotator.epoch + 1, at |-> today]
<1>1. rotations' = Append(rotations, new) /\ rotator' = [epoch |-> rotator.epoch + 1, last |-> today]
  BY DEF Epochs!Rotate
<1>2. new \in Rotation
  BY EpochRotationAssumption DEF EpochsInv, Rotation
<1>3. rotations \in Seq(Rotation) /\ rotations # <<>>
  BY DEF EpochsInv
<1> HIDE DEF new
<1>4. Len(rotations) \in Nat \ {0}
  BY <1>3, EmptySeq
<1>5. rotations' \in Seq(Rotation) /\ Len(rotations') = Len(rotations) + 1
  BY <1>1, <1>2, <1>3, AppendProperties
<1>6. \A i \in 1..Len(rotations) : rotations'[i] = rotations[i]
  BY <1>1, <1>2, <1>3, AppendProperties
<1>7. rotations'[Len(rotations) + 1] = new
  BY <1>1, <1>2, <1>3, AppendProperties
<1> QED
  BY <1>1, <1>4, <1>5, <1>6, <1>7 DEF new

LEMMA EpochsNext == EpochsInv /\ [Epochs!Next]_epochsVars => EpochsInv'
<1> SUFFICES ASSUME EpochsInv, [Epochs!Next]_epochsVars PROVE EpochsInv'
  OBVIOUS
<1> USE EpochRotationAssumption
<1>1. CASE UNCHANGED epochsVars
  BY <1>1 DEF epochsVars, EpochsInv, Epochs!EpochsAreNew
<1>2. CASE Epochs!Tick \/ Epochs!Restart \/ \E h \in Hosts : Epochs!IsDue(h)
  <2>1. rotator' = rotator /\ rotations' = rotations
    BY <1>2 DEF Epochs!Tick, Epochs!Restart, Epochs!IsDue
  <2>2. today' \in 0..MaxTime /\ plan' \in [Hosts -> BOOLEAN]
    <3>1. CASE Epochs!Tick
      BY <3>1 DEF Epochs!Tick, EpochsInv
    <3>2. CASE Epochs!Restart
      BY <3>2 DEF Epochs!Restart, EpochsInv
    <3>3. ASSUME NEW h \in Hosts, Epochs!IsDue(h)
          PROVE  today' \in 0..MaxTime /\ plan' \in [Hosts -> BOOLEAN]
      BY <3>3 DEF Epochs!IsDue, EpochsInv
    <3> QED
      BY <1>2, <3>1, <3>2, <3>3
  <2> QED
    BY <2>1, <2>2 DEF EpochsInv, Epochs!EpochsAreNew
<1>3. ASSUME NEW h \in Hosts, Epochs!Rotate(h) PROVE EpochsInv'
  <2>1. CASE ~ (rotator.epoch < EpochMax)
    BY <1>3, <2>1 DEF Epochs!Rotate, EpochsInv, Epochs!EpochsAreNew
  <2>2. CASE rotator.epoch < EpochMax
    <3> DEFINE n == Len(rotations)
    <3>1. /\ rotations' \in Seq(Rotation) /\ Len(rotations') = n + 1
          /\ \A i \in 1..n : rotations'[i] = rotations[i]
          /\ rotations'[n + 1] = [epoch |-> rotator.epoch + 1, at |-> today]
          /\ rotator' = [epoch |-> rotator.epoch + 1, last |-> today]
          /\ n \in Nat \ {0}
      BY <1>3, <2>2, Rotates
    <3>2. /\ rotator' \in [epoch : 0..EpochMax, last : 0..MaxTime]
          /\ today' \in 0..MaxTime /\ plan' \in [Hosts -> BOOLEAN]
      BY <1>3, <2>2, <3>1 DEF Epochs!Rotate, EpochsInv
    <3>3. rotations[n].epoch = rotator.epoch /\ \A i \in 1..n : rotations[i] \in Rotation
      BY ElementOfSeq DEF EpochsInv
    <3>4. \A i, j \in 1..n : i < j => rotations[i].epoch < rotations[j].epoch
      BY LenProperties DEF EpochsInv, Epochs!EpochsAreNew
    <3>5. rotator.epoch \in Int /\ \A i \in 1..n : rotations[i].epoch \in Int
      BY <3>3 DEF EpochsInv, Rotation
    <3> HIDE DEF n
    <3>6. \A i \in 1..n : rotations'[i].epoch < rotator.epoch + 1
      <4>1. TAKE i \in 1..n
      <4>2. CASE i = n
        BY <3>1, <3>3, <3>5, <4>2
      <4>3. CASE i < n
        BY <3>1, <3>3, <3>4, <3>5, <4>3
      <4> QED
        BY <3>1, <4>2, <4>3
    <3>7. \A i, j \in 1..(n + 1) : i < j => rotations'[i].epoch < rotations'[j].epoch
      <4>1. SUFFICES ASSUME NEW i \in 1..(n + 1), NEW j \in 1..(n + 1), i < j
                     PROVE rotations'[i].epoch < rotations'[j].epoch
        OBVIOUS
      <4>2. CASE j = n + 1
        BY <3>1, <3>6, <4>1, <4>2
      <4>3. CASE j # n + 1
        <5>1. i \in 1..n /\ j \in 1..n
          BY <3>1, <4>1, <4>3
        <5> QED
          BY <3>1, <3>4, <4>1, <5>1
      <4> QED
        BY <4>2, <4>3
    <3>8. DOMAIN rotations' = 1..(n + 1)
      BY <3>1, LenProperties
    <3>9. rotations' # <<>>
      BY <3>1, EmptySeq
    <3> QED
      BY <3>1, <3>2, <3>7, <3>8, <3>9 DEF EpochsInv, Epochs!EpochsAreNew
  <2> QED
    BY <2>1, <2>2
<1> QED
  BY <1>1, <1>2, <1>3 DEF Epochs!Next

LEMMA AloneEpochsNext ==
  ASSUME OneHost PROVE AloneEpochsInv /\ [Epochs!Next]_epochsVars => AloneEpochsInv'
<1> SUFFICES ASSUME AloneEpochsInv, [Epochs!Next]_epochsVars PROVE AloneEpochsInv'
  OBVIOUS
<1> USE EpochRotationAssumption
<1>1. EpochsInv /\ EpochsInv'
  BY EpochsNext DEF AloneEpochsInv
<1>2. Epochs!Every \in Int /\ rotator.last \in Int /\ today \in Int /\ today' \in Int
  BY <1>1 DEF Epochs!Every, Epochs!Larger, EpochsInv
<1>3. CASE UNCHANGED epochsVars
  BY <1>1, <1>3 DEF epochsVars, AloneEpochsInv, Epochs!Due, Epochs!EpochsLast
<1>4. CASE Epochs!Tick \/ Epochs!Restart \/ \E h \in Hosts : Epochs!IsDue(h)
  <2>1. rotator' = rotator /\ rotations' = rotations /\ today =< today'
    BY <1>2, <1>4 DEF Epochs!Tick, Epochs!Restart, Epochs!IsDue
  <2>2. Epochs!Due => Epochs!Due'
    BY <1>2, <2>1 DEF Epochs!Due
  <2>3. ASSUME NEW h \in Hosts, plan'[h] PROVE Epochs!Due'
    <3>1. CASE Epochs!Tick
      BY <2>2, <2>3, <3>1 DEF Epochs!Tick, AloneEpochsInv
    <3>2. CASE Epochs!Restart
      BY <2>3, <3>2 DEF Epochs!Restart
    <3>3. ASSUME NEW g \in Hosts, Epochs!IsDue(g) PROVE Epochs!Due'
      BY <2>2, <3>3 DEF Epochs!IsDue
    <3> QED
      BY <1>4, <3>1, <3>2, <3>3
  <2>4. Epochs!EpochsLast'
    BY <2>1 DEF AloneEpochsInv, Epochs!EpochsLast
  <2> QED
    BY <1>1, <2>3, <2>4 DEF AloneEpochsInv
<1>5. ASSUME NEW h \in Hosts, Epochs!Rotate(h) PROVE AloneEpochsInv'
  <2>1. \A g \in Hosts : ~plan'[g]
    BY <1>1, <1>5, OneHost DEF OneHost, Epochs!Rotate, EpochsInv
  <2>2. CASE ~ (rotator.epoch < EpochMax)
    <3>1. rotations' = rotations
      BY <1>5, <2>2 DEF Epochs!Rotate
    <3> QED
      BY <1>1, <2>1, <3>1 DEF AloneEpochsInv, Epochs!EpochsLast
  <2>3. CASE rotator.epoch < EpochMax
    <3> DEFINE n == Len(rotations)
    <3>1. /\ Len(rotations') = n + 1 /\ n \in Nat \ {0}
          /\ \A i \in 1..n : rotations'[i] = rotations[i]
          /\ rotations'[n + 1] = [epoch |-> rotator.epoch + 1, at |-> today]
      BY <1>1, <1>5, <2>3, Rotates
    <3>2. rotations[n].at = rotator.last
      BY <1>1 DEF EpochsInv
    <3>3. today - rotator.last >= Epochs!Every
      BY <1>5 DEF Epochs!Rotate, AloneEpochsInv, Epochs!Due
    <3>4. \A i \in 1..(n - 1) : rotations[i + 1].at - rotations[i].at >= Epochs!Every
      BY DEF AloneEpochsInv, Epochs!EpochsLast
    <3> HIDE DEF n
    <3>5. ASSUME NEW i \in 1..n
          PROVE rotations'[i + 1].at - rotations'[i].at >= Epochs!Every
      <4>1. CASE i = n
        BY <3>1, <3>2, <3>3, <4>1
      <4>2. CASE i # n
        <5>1. i \in 1..(n - 1) /\ i + 1 \in 1..n
          BY <3>1, <4>2
        <5> QED
          BY <3>1, <3>4, <5>1
      <4> QED
        BY <4>1, <4>2
    <3>6. Epochs!EpochsLast'
      <4>1. Len(rotations') - 1 = n
        BY <3>1
      <4> QED
        BY <3>5, <4>1 DEF Epochs!EpochsLast, Epochs!Every, Epochs!Larger
    <3> QED
      BY <1>1, <2>1, <3>6 DEF AloneEpochsInv
  <2> QED
    BY <2>2, <2>3
<1> QED
  BY <1>3, <1>4, <1>5 DEF Epochs!Next

(* A rotation gives a key that no epoch had before, with any number of hosts *)
(* that look whether it is due (EpochRotator).                               *)
THEOREM KeysAreNeverReused == Spec => []Epochs!EpochsAreNew
<1>1. Init => EpochsInv
  BY EpochsBegin DEF Init, AloneEpochsInv
<1>2. EpochsInv /\ [Next]_vars => EpochsInv'
  BY PartsMove, EpochsNext
<1>3. EpochsInv => Epochs!EpochsAreNew
  BY DEF EpochsInv
<1> QED
  BY <1>1, <1>2, <1>3, PTL DEF Spec

--------------------------------------------------------------------------------

Named == Keys!Shards \cup Keys!OfBackup \cup {"media-blob"}
Paired == Keys!Buckets \cup {"b2b-archive-epoch"}
Single == {"conversation-hash", "database", "device-vault"}
Aeons == {Keys!U64(0), Keys!U64(1), Keys!EpochName(0)}

(* The uses by what their ids are.                                           *)
LEMMA UsesAre ==
  ASSUME NEW u \in Keys!Uses
  PROVE  /\ u = Keys!Use(u.purpose, u.ids)
         /\ \/ u.purpose \in Named /\ \E a \in IdBytes : u.ids = <<a>>
            \/ u.purpose = "backup-snapshot" /\ \E a \in IdBytes : u.ids = <<a>>
            \/ u.purpose \in Paired /\ \E a, b \in IdBytes : u.ids = <<a, b>>
            \/ u.purpose \in Keys!OfArchive /\ \E e \in Aeons, a \in IdBytes : u.ids = <<e, a>>
            \/ u.purpose \in Single /\ u.ids = <<>>
BY DEF Keys!Uses, Keys!Use, Named, Paired, Single, Aeons

(* Sequences that begin with one of the same length.                         *)
LEMMA ConcatTellsBoth ==
  ASSUME NEW S, NEW s \in Seq(S), NEW t \in Seq(S), NEW u \in Seq(S), NEW v \in Seq(S),
         Len(s) = Len(u), s \o t = u \o v
  PROVE  s = u /\ t = v
<1>1. \A i \in 1..Len(s) : (s \o t)[i] = s[i] /\ (u \o v)[i] = u[i]
  OBVIOUS
<1>2. s = u
  BY <1>1, SeqEqual
<1> QED
  BY <1>2, ConcatSimplifications

LEMMA ConcatOfThree ==
  ASSUME NEW S, NEW x \in Seq(S), NEW s \in Seq(S), NEW t \in Seq(S)
  PROVE  (x \o s) \o t = x \o (s \o t) /\ s \o t \in Seq(S)
BY ConcatAssociative, ConcatProperties

(* The length before the first id tells where it ends.                       *)
LEMMA TwoIdsTellBoth ==
  ASSUME NEW S, NEW a \in Seq(S), NEW b \in Seq(S), NEW c \in Seq(S), NEW d \in Seq(S),
         <<Len(a)>> \in Seq(S), <<Len(c)>> \in Seq(S),
         Keys!TwoIds(a, b) = Keys!TwoIds(c, d)
  PROVE  a = c /\ b = d
<1> DEFINE x == <<Len(a)>>
           y == <<Len(c)>>
<1>1. x \in Seq(S) /\ y \in Seq(S)
  OBVIOUS
<1>2. (x \o a) \o b = (y \o c) \o d
  BY DEF Keys!TwoIds
<1>3. Len(x) = Len(y)
  OBVIOUS
<1>4. x = y => Len(a) = Len(c)
  <2>1. x[1] = Len(a) /\ y[1] = Len(c)
    OBVIOUS
  <2> QED
    BY <2>1
<1> HIDE DEF x, y
<1>5. (x \o a) \o b = x \o (a \o b) /\ a \o b \in Seq(S)
  BY <1>1, ConcatOfThree, SMTT(20)
<1>6. (y \o c) \o d = y \o (c \o d) /\ c \o d \in Seq(S)
  BY <1>1, ConcatOfThree, SMTT(20)
<1>7. x \o (a \o b) = y \o (c \o d)
  BY <1>2, <1>5, <1>6, Zenon
<1>8. x = y /\ a \o b = c \o d
  BY <1>1, <1>3, <1>5, <1>6, <1>7, ConcatTellsBoth
<1>9. Len(a) = Len(c)
  BY <1>4, <1>8, Zenon
<1> QED
  BY <1>8, <1>9, ConcatTellsBoth

(* No two uses but those of the snapshots of backups, which all have one     *)
(* key, have both their key and their associated data in common: the         *)
(* label of the key is the purpose, but for the database and the vault,      *)
(* which share a key and not a format; the bytes are those of the ids.       *)
LEMMA UsesAreTold ==
  ASSUME NEW u \in Keys!Uses, NEW v \in Keys!Uses,
         u.purpose # "backup-snapshot", v.purpose # "backup-snapshot",
         Keys!Key(u) = Keys!Key(v), Keys!Aad(u) = Keys!Aad(v)
  PROVE  u = v
<1> DEFINE Label(w) == IF w.purpose \in {"database", "device-vault"} THEN "local-db" ELSE w.purpose
<1>1. ASSUME NEW w \in Keys!Uses, w.purpose # "backup-snapshot" PROVE Keys!Key(w)[2] = Label(w)
  <2>1. \/ w.purpose \in Named \/ w.purpose \in Paired
        \/ w.purpose \in Keys!OfArchive \/ w.purpose \in Single
    BY <1>1, UsesAre
  <2> QED
    BY <2>1 DEF Keys!Key, Keys!Derive, Keys!Root, Keys!Shards, Keys!Buckets, Keys!OfArchive,
                Keys!OfBackup, Named, Paired, Single
<1>2. Label(u) = Label(v)
  BY <1>1
<1>3. u.purpose = v.purpose
  <2>1. CASE u.purpose \in {"database", "device-vault"} /\ v.purpose \in {"database", "device-vault"}
    BY <2>1 DEF Keys!Aad
  <2>2. u.purpose # "local-db" /\ v.purpose # "local-db"
    BY UsesAre DEF Keys!Shards, Keys!Buckets, Keys!OfArchive, Keys!OfBackup, Named, Paired, Single
  <2> QED
    BY <1>2, <2>1, <2>2
<1>4. u.ids = v.ids
  <2>1. CASE u.purpose \in Named
    <3>1. PICK a, b \in IdBytes : u.ids = <<a>> /\ v.ids = <<b>>
      BY <1>3, <2>1, UsesAre DEF Keys!Shards, Keys!Buckets, Keys!OfArchive, Keys!OfBackup,
                                 Named, Paired, Single
    <3>2. ASSUME NEW w, w.purpose \in Named PROVE Keys!Key(w)[3] = w.ids[1]
      BY <3>2, SMTT(30) DEF Keys!Key, Keys!Derive, Keys!Root, Keys!Shards, Keys!Buckets,
                            Keys!OfArchive, Keys!OfBackup, Named
    <3>3. Keys!Key(u)[3] = a /\ Keys!Key(v)[3] = b
      BY <1>3, <2>1, <3>1, <3>2
    <3> QED
      BY <3>1, <3>3
  <2>2. CASE u.purpose \in Paired
    <3>1. PICK a, b \in IdBytes : u.ids = <<a, b>>
      BY <2>2, UsesAre DEF Keys!Shards, Keys!Buckets, Keys!OfArchive, Keys!OfBackup,
                           Named, Paired, Single
    <3>2. PICK c, d \in IdBytes : v.ids = <<c, d>>
      BY <1>3, <2>2, UsesAre DEF Keys!Shards, Keys!Buckets, Keys!OfArchive, Keys!OfBackup,
                                 Named, Paired, Single
    <3>7. ASSUME NEW w, w.purpose \in Paired PROVE Keys!Key(w)[3] = Keys!TwoIds(w.ids[1], w.ids[2])
      BY <3>7, SMTT(30) DEF Keys!Key, Keys!Derive, Keys!Root, Keys!Shards, Keys!Buckets,
                            Keys!OfArchive, Keys!OfBackup, Paired
    <3>8. u.ids[1] = a /\ u.ids[2] = b /\ v.ids[1] = c /\ v.ids[2] = d
      BY <3>1, <3>2
    <3>3. Keys!Key(u)[3] = Keys!TwoIds(a, b) /\ Keys!Key(v)[3] = Keys!TwoIds(c, d)
      BY <1>3, <2>2, <3>7, <3>8
    <3> DEFINE N == Nat
    <3>4. /\ a \in Seq(N) /\ b \in Seq(N) /\ c \in Seq(N) /\ d \in Seq(N)
          /\ <<Len(a)>> \in Seq(N) /\ <<Len(c)>> \in Seq(N)
      BY KeyScheduleAssumption, LenProperties
    <3> HIDE DEF N
    <3>5. Keys!TwoIds(a, b) = Keys!TwoIds(c, d)
      BY <3>3
    <3>6. a = c /\ b = d
      BY <3>4, <3>5, TwoIdsTellBoth, Zenon
    <3> QED
      BY <3>1, <3>2, <3>6
  <2>3. CASE u.purpose \in Keys!OfArchive
    <3>1. PICK e \in Aeons, a \in IdBytes : u.ids = <<e, a>>
      BY <2>3, UsesAre DEF Keys!Shards, Keys!Buckets, Keys!OfArchive, Keys!OfBackup,
                           Named, Paired, Single
    <3>2. PICK f \in Aeons, b \in IdBytes : v.ids = <<f, b>>
      BY <1>3, <2>3, UsesAre DEF Keys!Shards, Keys!Buckets, Keys!OfArchive, Keys!OfBackup,
                                 Named, Paired, Single
    <3>3. ASSUME NEW w, w.purpose \in Keys!OfArchive
          PROVE  Keys!Key(w)[1] = Keys!Epoch(w.ids[1]) /\ Keys!Key(w)[3] = w.ids[2]
      <4>1. Keys!Key(w) = Keys!Derive(Keys!Epoch(w.ids[1]), w.purpose, w.ids[2])
        <5>1. w.purpose = "archive-segment" \/ w.purpose = "archive-manifest"
          BY <3>3 DEF Keys!OfArchive
        <5> QED
          BY <5>1 DEF Keys!Key, Keys!Shards, Keys!Buckets, Keys!OfArchive, Keys!OfBackup,
                      Keys!Derive, Keys!Root, Keys!Epoch
      <4> QED
        BY <4>1 DEF Keys!Derive
    <3>4. a = b /\ Keys!Epoch(e) = Keys!Epoch(f)
      BY <1>3, <2>3, <3>1, <3>2, <3>3
    <3>5. e = f
      BY <3>4 DEF Keys!Epoch, Keys!Derive
    <3> QED
      BY <3>1, <3>2, <3>4, <3>5
  <2>4. CASE u.purpose \in Single
    BY <1>3, <2>4, UsesAre DEF Keys!Shards, Keys!Buckets, Keys!OfArchive, Keys!OfBackup,
                               Named, Paired, Single
  <2> QED
    BY <2>1, <2>2, <2>3, <2>4, UsesAre
<1> QED
  BY <1>3, <1>4, UsesAre

(* The object is sealed for its use, and who opened it did so with the key   *)
(* and the associated data of his.                                           *)
KeysInv ==
    /\ item.use \in Keys!Uses /\ item = Keys!Sealed(item.use)
    /\ reader # Keys!NoReader =>
          /\ reader.use \in Keys!Uses
          /\ reader.opened <=> /\ Keys!OpeningKey(reader.use) = item.key
                               /\ Keys!Aad(reader.use) = item.aad

LEMMA KeysBegin == Keys!Init => KeysInv
BY DEF Keys!Init, KeysInv, Keys!Sealed, Keys!Uses

LEMMA KeysNext == KeysInv /\ [Keys!Next]_keysVars => KeysInv'
<1> SUFFICES ASSUME KeysInv, [Keys!Next]_keysVars PROVE KeysInv'
  OBVIOUS
<1>1. CASE UNCHANGED keysVars
  BY <1>1 DEF KeysInv, keysVars
<1>2. ASSUME NEW u \in Keys!Uses, Keys!Seal(u) PROVE KeysInv'
  BY <1>2 DEF Keys!Seal, KeysInv, Keys!Sealed
<1>3. ASSUME NEW u \in Keys!Uses, Keys!Open(u) PROVE KeysInv'
  BY <1>3 DEF Keys!Open, KeysInv
<1> QED
  BY <1>1, <1>2, <1>3 DEF Keys!Next

(* The snapshots of backups are under a key of their own, and their restore  *)
(* looks for them under one that has other associated data.                  *)
LEMMA SnapshotsAreTold ==
  ASSUME NEW u \in Keys!Uses, NEW v \in Keys!Uses,
         u.purpose = "backup-snapshot" \/ v.purpose = "backup-snapshot",
         Keys!OpeningKey(u) = Keys!Key(v)
  PROVE  Keys!Aad(u) # Keys!Aad(v)
<1>1. ASSUME NEW w \in Keys!Uses, w.purpose # "backup-snapshot"
      PROVE  /\ Keys!Key(w)[2] # "backup-root"
             /\ Keys!Key(w)[2] = "archive-segment" => w.purpose = "archive-segment"
  <2>1. \/ w.purpose \in Named \/ w.purpose \in Paired
        \/ w.purpose \in Keys!OfArchive \/ w.purpose \in Single
    BY <1>1, UsesAre
  <2> QED
    BY <2>1 DEF Keys!Key, Keys!Derive, Keys!Root, Keys!Shards, Keys!Buckets, Keys!OfArchive,
                Keys!OfBackup, Named, Paired, Single
<1>2. ASSUME NEW w, w.purpose = "backup-snapshot"
      PROVE  /\ Keys!Key(w)[2] = "backup-root" /\ Keys!OpeningKey(w)[2] = "archive-segment"
             /\ Keys!Aad(w) = "backup-segment"
  BY <1>2 DEF Keys!Key, Keys!OpeningKey, Keys!Derive, Keys!Root, Keys!Aad, Keys!Shards,
              Keys!Buckets, Keys!OfArchive, Keys!OfBackup
<1>3. Keys!OpeningKey(u)[2] # "backup-root"
  BY <1>1, <1>2 DEF Keys!OpeningKey
<1>4. v.purpose # "backup-snapshot" /\ u.purpose = "backup-snapshot"
  BY <1>2, <1>3
<1>5. v.purpose = "archive-segment"
  BY <1>1, <1>2, <1>4
<1>6. Keys!Aad(v) = "archive-segment"
  BY <1>5 DEF Keys!Aad
<1> QED
  BY <1>2, <1>4, <1>6

LEMMA KeysOpen == KeysInv => Keys!OpensForItsUse
<1> SUFFICES ASSUME KeysInv, reader # Keys!NoReader
             PROVE  reader.opened <=> /\ reader.use = item.use
                                      /\ item.use.purpose # "backup-snapshot"
  BY DEF Keys!OpensForItsUse
<1>1. item.key = Keys!Key(item.use) /\ item.aad = Keys!Aad(item.use)
  BY DEF KeysInv, Keys!Sealed
<1>2. reader.opened <=> /\ Keys!OpeningKey(reader.use) = Keys!Key(item.use)
                        /\ Keys!Aad(reader.use) = Keys!Aad(item.use)
  BY <1>1 DEF KeysInv
<1>3. reader.use \in Keys!Uses /\ item.use \in Keys!Uses
  BY DEF KeysInv
<1>4. CASE reader.use.purpose = "backup-snapshot" \/ item.use.purpose = "backup-snapshot"
  BY <1>2, <1>3, <1>4, SnapshotsAreTold
<1>5. CASE reader.use.purpose # "backup-snapshot" /\ item.use.purpose # "backup-snapshot"
  <2>1. Keys!OpeningKey(reader.use) = Keys!Key(reader.use)
    BY <1>5 DEF Keys!OpeningKey
  <2> QED
    BY <1>2, <1>3, <1>5, <2>1, UsesAreTold
<1> QED
  BY <1>4, <1>5

(* KeysSeparate: what is sealed for one use opens for that use alone, and    *)
(* what a backup seals for none, for any ids (key_bridge.rs, core_impl.rs,   *)
(* restore/pipeline.rs); with one host an epoch lasts for the cadence and is *)
(* replaced by a new one.                                                    *)
THEOREM KeysAreSeparate == ASSUME OneHost PROVE Spec => []KeysSeparate
<1> DEFINE Inv == KeysInv /\ AloneEpochsInv
<1>1. Init => Inv
  BY KeysBegin, EpochsBegin DEF Init
<1>2. Inv /\ [Next]_vars => Inv'
  BY PartsMove, KeysNext, AloneEpochsNext
<1>3. Inv => KeysSeparate
  BY KeysOpen DEF KeysSeparate, AloneEpochsInv, EpochsInv
<1> QED
  BY <1>1, <1>2, <1>3, PTL DEF Spec

--------------------------------------------------------------------------------

IsDraft(m) == m = [body |-> m.body, ed |-> m.ed, pqc |-> m.pqc]

LEMMA PayloadOf ==
  ASSUME NEW m, IsDraft(m)
  PROVE  Signatures!Payload(m) = [body |-> m.body, ed |-> <<>>, pqc |-> <<>>]
<1>1. ASSUME NEW z, NEW n, n = [m EXCEPT !.ed = z, !.pqc = z]
      PROVE  n = [body |-> m.body, ed |-> z, pqc |-> z]
  <2> DEFINE E == {m.ed, z}
             P == {m.pqc, z}
  <2>1. m \in [body : {m.body}, ed : E, pqc : P]
    BY DEF IsDraft
  <2>2. z \in E /\ z \in P
    OBVIOUS
  <2> HIDE DEF E, P
  <2>3. n \in [body : {m.body}, ed : E, pqc : P]
    BY <1>1, <2>1, <2>2
  <2>4. n.ed = z /\ n.pqc = z /\ n.body = m.body
    BY <1>1, <2>1
  <2> QED
    BY <2>3, <2>4
<1> QED
  BY <1>1 DEF Signatures!Payload

(* Both legs of what was signed are of its payload; a leg of the draft is    *)
(* missing or one that was issued.                                           *)
SignaturesInv ==
    /\ IsDraft(draft)
    /\ \A pair \in issued :
          /\ pair = <<pair[1], pair[2]>> /\ IsDraft(pair[1])
          /\ pair[1].ed = Signatures!Signature(pair[2], Signatures!Payload(pair[1]))
          /\ pair[1].pqc = pair[1].ed
    /\ draft.ed = <<>> \/ \E pair \in issued : draft.ed = pair[1].ed
    /\ draft.pqc = <<>> \/ \E pair \in issued : draft.pqc = pair[1].pqc

LEMMA SignaturesBegin == Signatures!Init => SignaturesInv
BY DEF Signatures!Init, Signatures!Draft, SignaturesInv, IsDraft

LEMMA SignaturesNext == SignaturesInv /\ [Signatures!Next]_signaturesVars => SignaturesInv'
<1> SUFFICES ASSUME SignaturesInv, [Signatures!Next]_signaturesVars PROVE SignaturesInv'
  OBVIOUS
<1>1. CASE UNCHANGED signaturesVars
  BY <1>1 DEF signaturesVars, SignaturesInv
<1>2. CASE Signatures!Transfer
  <2>1. issued' = issued
    BY <1>2 DEF Signatures!Transfer
  <2>2. IsDraft(draft')
    BY <1>2 DEF Signatures!Transfer, SignaturesInv, IsDraft
  <2>3. draft'.ed \in {draft.ed, <<>>} \/ \E pair \in issued : draft'.ed = pair[1].ed
    BY <1>2 DEF Signatures!Transfer, SignaturesInv, IsDraft
  <2>4. draft'.pqc \in {draft.pqc, <<>>} \/ \E pair \in issued : draft'.pqc = pair[1].pqc
    BY <1>2 DEF Signatures!Transfer, SignaturesInv, IsDraft
  <2> QED
    BY <2>1, <2>2, <2>3, <2>4 DEF SignaturesInv, IsDraft
<1>3. ASSUME NEW key \in SigningKeys, Signatures!Sign(key) PROVE SignaturesInv'
  <2> DEFINE sig == Signatures!Signature(key, Signatures!Payload(draft))
  <2>1. draft' = [draft EXCEPT !.ed = sig, !.pqc = sig] /\ issued' = issued \cup {<<draft', key>>}
    BY <1>3 DEF Signatures!Sign
  <2>2. Signatures!Payload(draft) = [body |-> draft.body, ed |-> <<>>, pqc |-> <<>>]
    BY PayloadOf DEF SignaturesInv
  <2> HIDE DEF sig
  <2>3. draft' = [body |-> draft.body, ed |-> sig, pqc |-> sig]
    BY <2>1 DEF SignaturesInv, IsDraft
  <2>4. IsDraft(draft') /\ draft'.ed = sig /\ draft'.pqc = sig /\ draft'.body = draft.body
    BY <2>3 DEF IsDraft
  <2>5. Signatures!Payload(draft') = Signatures!Payload(draft)
    BY <2>2, <2>4, PayloadOf
  <2>6. sig = Signatures!Signature(key, Signatures!Payload(draft'))
    BY <2>5 DEF sig
  <2>7. \A pair \in issued' : pair \in issued \/ pair = <<draft', key>>
    BY <2>1
  <2>8. <<draft', key>> \in issued'
    BY <2>1
  <2>9. \A pair \in issued' :
          /\ pair = <<pair[1], pair[2]>> /\ IsDraft(pair[1])
          /\ pair[1].ed = Signatures!Signature(pair[2], Signatures!Payload(pair[1]))
          /\ pair[1].pqc = pair[1].ed
    BY <2>4, <2>6, <2>7 DEF SignaturesInv
  <2> QED
    BY <2>4, <2>8, <2>9 DEF SignaturesInv, IsDraft
<1> QED
  BY <1>1, <1>2, <1>3 DEF Signatures!Next

LEMMA SignaturesHold == SignaturesInv => Signatures!SignedIsIntact /\ Signatures!SignedVerifies
<1> SUFFICES ASSUME SignaturesInv PROVE Signatures!SignedIsIntact /\ Signatures!SignedVerifies
  OBVIOUS
<1>1. ASSUME NEW key \in SigningKeys, Signatures!Verify(draft, key)
      PROVE  <<draft, key>> \in issued
  <2>1. PICK pair \in issued : draft.ed = pair[1].ed
    BY <1>1 DEF Signatures!Verify, SignaturesInv
  <2>2. /\ draft.ed = <<key, Signatures!Payload(draft)>> /\ draft.pqc = draft.ed
    BY <1>1 DEF Signatures!Verify, Signatures!Signature
  <2>3. /\ pair[1].ed = <<pair[2], Signatures!Payload(pair[1])>> /\ pair[1].pqc = pair[1].ed
        /\ pair = <<pair[1], pair[2]>> /\ IsDraft(pair[1])
    BY DEF SignaturesInv, Signatures!Signature
  <2>4. pair[2] = key /\ Signatures!Payload(pair[1]) = Signatures!Payload(draft)
    <3> DEFINE p == Signatures!Payload(draft)
               q == Signatures!Payload(pair[1])
    <3>1. <<key, p>> = <<pair[2], q>>
      BY <2>1, <2>2, <2>3
    <3> HIDE DEF p, q
    <3>2. key = pair[2] /\ p = q
      BY <3>1
    <3> QED
      BY <3>2 DEF p, q
  <2>5. pair[1].body = draft.body
    <3>1. Signatures!Payload(draft).body = draft.body
      BY PayloadOf DEF SignaturesInv
    <3>2. Signatures!Payload(pair[1]).body = pair[1].body
      BY <2>3, PayloadOf
    <3> QED
      BY <2>4, <3>1, <3>2
  <2>6. pair[1] = draft
    BY <2>1, <2>2, <2>3, <2>5 DEF SignaturesInv, IsDraft
  <2> QED
    BY <2>3, <2>4, <2>6
<1>2. ASSUME NEW pair \in issued PROVE Signatures!Verify(pair[1], pair[2])
  BY DEF SignaturesInv, Signatures!Verify, Signatures!Signature
<1> QED
  BY <1>1, <1>2 DEF Signatures!SignedIsIntact, Signatures!SignedVerifies

IsManifest(m) ==
    m = [process |-> m.process, generation |-> m.generation, previous |-> m.previous,
         segment |-> m.segment, body |-> m.body]

(* What begins a chain, or goes on from a manifest of the list.              *)
Follows(list, process, generation, previous) ==
    \/ generation = 0 /\ previous = <<>>
    \/ /\ generation \in Nat
       /\ \E j \in 1..Len(list) :
             /\ list[j].process = process /\ previous = Lists!Hash(list[j])
             /\ list[j].generation \in Nat /\ list[j].generation + 1 = generation

Posted(list, m) == IsManifest(m) /\ Follows(list, m.process, m.generation, m.previous)

IsCoordinator(c) == c = [process |-> c.process, generation |-> c.generation, previous |-> c.previous]

ListsInv ==
    /\ \E S : kept \in Seq(S)
    /\ \A i \in 1..Len(kept) : Posted(kept, kept[i])
    /\ IsCoordinator(coordinator)
    /\ Follows(kept, coordinator.process, coordinator.generation, coordinator.previous)
    /\ \E n \in Nat : DOMAIN fetched = 1..n
    /\ \A i \in DOMAIN fetched : \E j \in 1..Len(kept) :
          fetched[i] \in {kept[j], Lists!Damaged(kept[j])}

LEMMA ListsBegin == Lists!Init => ListsInv
<1> SUFFICES ASSUME coordinator = Lists!New(1), kept = <<>>, fetched = <<>> PROVE ListsInv
  BY DEF Lists!Init
<1>1. kept \in Seq({}) /\ Len(kept) = 0 /\ DOMAIN fetched = 1..0
  OBVIOUS
<1>2. /\ IsCoordinator(coordinator)
      /\ Follows(kept, coordinator.process, coordinator.generation, coordinator.previous)
  BY DEF IsCoordinator, Follows, Lists!New
<1> QED
  BY <1>1, <1>2 DEF ListsInv

(* What a publication adds, once or twice.                                   *)
LEMMA WhenPublished ==
  ASSUME Lists!Publish, NEW S, kept \in Seq(S)
  PROVE  /\ \E T : kept' \in Seq(T)
         /\ Len(kept) \in Nat /\ Len(kept) < MaxManifests
         /\ Len(kept') \in {Len(kept) + 1, Len(kept) + 2}
         /\ \A i \in 1..Len(kept') :
               kept'[i] = IF i =< Len(kept) THEN kept[i] ELSE Lists!Prepared
         /\ fetched = <<>> /\ fetched' = <<>>
         /\ coordinator' \in {coordinator, Lists!Finalized(Lists!Prepared)}
<1> DEFINE next == Lists!Prepared
           T == S \cup {next}
<1>1. PICK posted \in {<<next>>, <<next, next>>} : kept' = kept \o posted
  BY DEF Lists!Publish
<1>2. /\ Len(kept) < MaxManifests /\ fetched = <<>> /\ fetched' = <<>>
      /\ coordinator' \in {coordinator, Lists!Finalized(next)}
  BY DEF Lists!Publish
<1> HIDE DEF next
<1>3. Len(kept) \in Nat /\ kept \in Seq(T)
  BY LenProperties
<1>4. posted \in Seq(T) /\ Len(posted) \in {1, 2} /\ \A i \in 1..Len(posted) : posted[i] = next
  <2>1. CASE posted = <<next>>
    BY <2>1
  <2>2. CASE posted = <<next, next>>
    BY <2>2
  <2> QED
    BY <1>1, <2>1, <2>2
<1>5. /\ kept \o posted \in Seq(T)
      /\ Len(kept \o posted) = Len(kept) + Len(posted)
      /\ \A i \in 1..Len(kept) + Len(posted) : (kept \o posted)[i] =
            IF i =< Len(kept) THEN kept[i] ELSE posted[i - Len(kept)]
  BY <1>3, <1>4, ConcatProperties
<1>6. ASSUME NEW i \in 1..Len(kept')
      PROVE  kept'[i] = IF i =< Len(kept) THEN kept[i] ELSE next
  <2>1. CASE i =< Len(kept)
    BY <1>1, <1>5, <2>1
  <2>2. CASE ~ i =< Len(kept)
    <3>1. i - Len(kept) \in 1..Len(posted) /\ i \in 1..Len(kept) + Len(posted)
      BY <1>1, <1>3, <1>4, <1>5, <2>2
    <3> QED
      BY <1>1, <1>4, <1>5, <2>2, <3>1
  <2> QED
    BY <2>1, <2>2
<1>7. Len(kept') \in {Len(kept) + 1, Len(kept) + 2}
  BY <1>1, <1>3, <1>4, <1>5
<1>8. \E R : kept' \in Seq(R)
  BY <1>1, <1>5
<1> QED
  BY <1>2, <1>3, <1>6, <1>7, <1>8 DEF next

(* What follows from a list follows from a longer one.                       *)
LEMMA StillFollows ==
  ASSUME NEW list, NEW longer, Len(list) \in Nat, Len(longer) \in Nat, Len(list) =< Len(longer),
         \A i \in 1..Len(list) : longer[i] = list[i],
         NEW process, NEW generation, NEW previous, Follows(list, process, generation, previous)
  PROVE  Follows(longer, process, generation, previous)
<1>1. \A j \in 1..Len(list) : j \in 1..Len(longer) /\ longer[j] = list[j]
  OBVIOUS
<1> QED
  BY <1>1 DEF Follows

LEMMA PublishKeepsLists == ASSUME ListsInv, Lists!Publish PROVE ListsInv'
<1> DEFINE next == Lists!Prepared
<1>1. PICK S : kept \in Seq(S)
  BY DEF ListsInv
<1>2. /\ \E T : kept' \in Seq(T)
      /\ Len(kept) \in Nat
      /\ Len(kept') \in {Len(kept) + 1, Len(kept) + 2}
      /\ \A i \in 1..Len(kept') :
            kept'[i] = IF i =< Len(kept) THEN kept[i] ELSE next
      /\ fetched' = <<>>
      /\ coordinator' \in {coordinator, Lists!Finalized(next)}
  BY <1>1, WhenPublished
<1>3. /\ IsManifest(next) /\ next.process = coordinator.process
      /\ next.generation = coordinator.generation /\ next.previous = coordinator.previous
  BY DEF Lists!Prepared, IsManifest
<1>4. Posted(kept, next)
  BY <1>3 DEF ListsInv, Posted
<1> HIDE DEF next
<1>5. /\ Len(kept') \in Nat /\ Len(kept) + 1 \in 1..Len(kept') /\ Len(kept) =< Len(kept')
      /\ \A i \in 1..Len(kept) : kept'[i] = kept[i]
      /\ kept'[Len(kept) + 1] = next
  BY <1>2
<1>6. \A process, generation, previous :
         Follows(kept, process, generation, previous) => Follows(kept', process, generation, previous)
  BY <1>2, <1>5, StillFollows
<1>7. ASSUME NEW i \in 1..Len(kept') PROVE Posted(kept', kept'[i])
  <2>1. kept'[i] = next \/ (i \in 1..Len(kept) /\ kept'[i] = kept[i])
    BY <1>2
  <2>2. Posted(kept, kept'[i])
    BY <1>4, <2>1 DEF ListsInv
  <2> QED
    BY <1>6, <2>2 DEF Posted
<1>8. /\ IsCoordinator(coordinator')
      /\ Follows(kept', coordinator'.process, coordinator'.generation, coordinator'.previous)
  <2>1. CASE coordinator' = coordinator
    BY <1>6, <2>1 DEF ListsInv
  <2>2. CASE coordinator' = Lists!Finalized(next)
    <3>1. coordinator \in [process : {coordinator.process}, generation : {coordinator.generation},
                           previous : {coordinator.previous}]
      BY DEF ListsInv, IsCoordinator
    <3>2. /\ IsCoordinator(coordinator') /\ coordinator'.process = coordinator.process
          /\ coordinator'.generation = next.generation + 1
          /\ coordinator'.previous = Lists!Hash(next)
      BY <2>2, <3>1 DEF Lists!Finalized, IsCoordinator
    <3>3. next.generation \in Nat
      BY <1>4 DEF Posted, Follows
    <3> QED
      BY <1>3, <1>5, <3>2, <3>3 DEF Follows
  <2> QED
    BY <1>2, <2>1, <2>2
<1>9. (\A i \in 1..Len(kept) : Posted(kept, kept[i]))'
  BY <1>7 DEF Posted, Follows, IsManifest
<1>10. /\ IsCoordinator(coordinator)'
       /\ Follows(kept, coordinator.process, coordinator.generation, coordinator.previous)'
  BY <1>8 DEF Follows, IsCoordinator
<1>11. DOMAIN fetched' = 1..0
  BY <1>2
<1> QED
  BY <1>2, <1>9, <1>10, <1>11 DEF ListsInv

LEMMA ListsNext == ListsInv /\ [Lists!Next]_manifestsVars => ListsInv'
<1> SUFFICES ASSUME ListsInv, [Lists!Next]_manifestsVars PROVE ListsInv'
  OBVIOUS
<1>1. PICK S : kept \in Seq(S)
  BY DEF ListsInv
<1>2. Len(kept) \in Nat /\ DOMAIN kept = 1..Len(kept)
  BY <1>1, LenProperties
<1>3. ASSUME UNCHANGED kept
      PROVE  /\ \E T : kept' \in Seq(T)
             /\ (\A i \in 1..Len(kept) : Posted(kept, kept[i]))'
  BY <1>3 DEF ListsInv, Posted, Follows
<1>4. CASE UNCHANGED manifestsVars
  BY <1>4 DEF manifestsVars, ListsInv, Posted, Follows, IsCoordinator
<1>5. CASE Lists!Restart
  <2>1. UNCHANGED <<kept, fetched>> /\ coordinator' = Lists!New(coordinator.process + 1)
    BY <1>5 DEF Lists!Restart
  <2>2. /\ IsCoordinator(coordinator)'
        /\ Follows(kept, coordinator.process, coordinator.generation, coordinator.previous)'
    BY <2>1 DEF Lists!New, IsCoordinator, Follows
  <2> QED
    BY <1>3, <2>1, <2>2 DEF ListsInv
<1>6. CASE Lists!Fetch
  <2>1. UNCHANGED <<coordinator, kept>>
    BY <1>6 DEF Lists!Fetch
  <2>2. PICK order \in UNION {[1..n -> DOMAIN kept] : n \in 0..Len(kept)}, bad \in 0..Len(kept) :
          fetched' = [i \in DOMAIN order |->
                         IF i = bad THEN Lists!Damaged(kept[order[i]]) ELSE kept[order[i]]]
    BY <1>6 DEF Lists!Fetch
  <2>3. PICK n \in 0..Len(kept) : order \in [1..n -> 1..Len(kept)]
    BY <1>2, <2>2
  <2>4. n \in Nat /\ DOMAIN fetched' = 1..n
    BY <1>2, <2>2, <2>3
  <2>5. \A i \in 1..n : \E j \in 1..Len(kept) :
           fetched'[i] \in {kept[j], Lists!Damaged(kept[j])}
    BY <2>2, <2>3
  <2>6. /\ IsCoordinator(coordinator)'
        /\ Follows(kept, coordinator.process, coordinator.generation, coordinator.previous)'
    BY <2>1 DEF ListsInv, IsCoordinator, Follows
  <2>7. (\A i \in DOMAIN fetched : \E j \in 1..Len(kept) :
            fetched[i] \in {kept[j], Lists!Damaged(kept[j])})'
    BY <2>1, <2>4, <2>5 DEF Lists!Damaged
  <2> QED
    BY <1>3, <2>1, <2>4, <2>6, <2>7 DEF ListsInv
<1>7. CASE Lists!Leave
  <2>1. UNCHANGED <<coordinator, kept>> /\ DOMAIN fetched' = 1..0
    BY <1>7 DEF Lists!Leave
  <2>2. /\ IsCoordinator(coordinator)'
        /\ Follows(kept, coordinator.process, coordinator.generation, coordinator.previous)'
    BY <2>1 DEF ListsInv, IsCoordinator, Follows
  <2> QED
    BY <1>3, <2>1, <2>2 DEF ListsInv
<1> QED
  BY <1>4, <1>5, <1>6, <1>7, PublishKeepsLists DEF Lists!Next

(* A list that is accepted begins a chain, and after each of its manifests   *)
(* is one that goes on from it: by the link, whose hash is of the manifest   *)
(* as it was published.                                                      *)
LEMMA ListsHold == ListsInv => Lists!AcceptedIsPrefix
<1> SUFFICES ASSUME ListsInv, Lists!VerifyChain(fetched), NEW x \in DOMAIN fetched
             PROVE  /\ fetched[x].process = fetched[1].process
                    /\ fetched[x].generation = x - 1
                    /\ x < Len(fetched) => \E j \in DOMAIN kept : fetched[x] = kept[j]
  BY DEF Lists!AcceptedIsPrefix
<1>1. Len(kept) \in Nat /\ DOMAIN kept = 1..Len(kept)
  BY LenProperties DEF ListsInv
<1>2. PICK n \in Nat : DOMAIN fetched = 1..n
  BY DEF ListsInv
<1>3. Len(fetched) = n /\ fetched # <<>> /\ 1 \in 1..n
  BY <1>2
<1>4. ASSUME NEW i \in 1..n
      PROVE  Follows(kept, fetched[i].process, fetched[i].generation, fetched[i].previous)
  <2>1. PICK j \in 1..Len(kept) : fetched[i] \in {kept[j], Lists!Damaged(kept[j])}
    BY <1>2, <1>4 DEF ListsInv
  <2> DEFINE m == kept[j]
  <2>2. Posted(kept, m)
    BY DEF ListsInv
  <2> HIDE DEF m
  <2>3. m \in [process : {m.process}, generation : {m.generation}, previous : {m.previous},
               segment : {m.segment}, body : {m.body}]
    BY <2>2 DEF Posted, IsManifest
  <2>4. /\ Lists!Damaged(m).process = m.process /\ Lists!Damaged(m).generation = m.generation
        /\ Lists!Damaged(m).previous = m.previous
    BY <2>3 DEF Lists!Damaged
  <2>5. /\ fetched[i].process = m.process /\ fetched[i].generation = m.generation
        /\ fetched[i].previous = m.previous
    BY <2>1, <2>4 DEF m
  <2> QED
    BY <2>2, <2>5 DEF Posted
<1>5. /\ fetched[1].generation = 0 \/ fetched[1].previous = <<>>
      /\ \A i \in 2..n : fetched[i].previous = Lists!Hash(fetched[i - 1])
  BY <1>3 DEF Lists!VerifyChain
<1>6. (\A m : Lists!Hash(m) # <<>>) /\ (\A m, p : Lists!Hash(m) = Lists!Hash(p) => m = p)
  BY DEF Lists!Hash
<1>7. fetched[1].generation = 0
  BY <1>3, <1>4, <1>5, <1>6 DEF Follows
<1>8. ASSUME NEW i \in 1..(n - 1)
      PROVE  /\ \E j \in DOMAIN kept : fetched[i] = kept[j]
             /\ fetched[i + 1].process = fetched[i].process
             /\ fetched[i + 1].generation = fetched[i].generation + 1
  <2>1. i + 1 \in 1..n /\ i + 1 \in 2..n /\ (i + 1) - 1 = i
    BY <1>8
  <2>2. fetched[i + 1].previous = Lists!Hash(fetched[i])
    BY <1>5, <2>1
  <2>3. PICK j \in 1..Len(kept) :
           /\ kept[j].process = fetched[i + 1].process
           /\ fetched[i + 1].previous = Lists!Hash(kept[j])
           /\ kept[j].generation + 1 = fetched[i + 1].generation
    BY <1>4, <1>6, <2>1, <2>2 DEF Follows
  <2>4. kept[j] = fetched[i]
    BY <1>6, <2>2, <2>3
  <2> QED
    BY <1>1, <2>3, <2>4
<1> DEFINE P == {k \in Nat : k < n => /\ fetched[k + 1].process = fetched[1].process
                                      /\ fetched[k + 1].generation = k}
<1>9. 0 \in P
  BY <1>7
<1>10. ASSUME NEW k \in Nat, k \in P PROVE k + 1 \in P
  <2>1. CASE k + 1 < n
    <3>1. k + 1 \in 1..(n - 1) /\ k < n
      BY <2>1
    <3>2. /\ fetched[(k + 1) + 1].process = fetched[k + 1].process
          /\ fetched[(k + 1) + 1].generation = fetched[k + 1].generation + 1
      BY <1>8, <3>1
    <3> QED
      BY <1>10, <3>1, <3>2
  <2>2. CASE ~ (k + 1 < n)
    BY <2>2
  <2> QED
    BY <2>1, <2>2
<1>11. Nat \subseteq P
  <2> HIDE DEF P
  <2> QED
    BY <1>9, <1>10, Inductive
<1>12. x - 1 \in P /\ x - 1 < n /\ (x - 1) + 1 = x
  BY <1>2, <1>11
<1>13. x < Len(fetched) => x \in 1..(n - 1)
  BY <1>2, <1>3
<1> QED
  BY <1>8, <1>12, <1>13

(* ManifestsTell: a list that is accepted is the beginning of what one       *)
(* process published, none left out in between, but for the body of its      *)
(* last, whatever was lost, repeated, reordered or damaged and however often *)
(* the application was restarted between backups (manifest_verifier.rs);     *)
(* what passes verification is what was signed with that key, and what was   *)
(* signed passes (formats/manifest.rs).                                      *)
THEOREM ManifestsTellTruth == Spec => []ManifestsTell
<1> DEFINE Inv == ListsInv /\ SignaturesInv
<1>1. Init => Inv
  BY ListsBegin, SignaturesBegin DEF Init
<1>2. Inv /\ [Next]_vars => Inv'
  BY PartsMove, ListsNext, SignaturesNext
<1>3. Inv => ManifestsTell
  BY ListsHold, SignaturesHold DEF ManifestsTell
<1> QED
  BY <1>1, <1>2, <1>3, PTL DEF Spec

--------------------------------------------------------------------------------

BackupValues == {Columns!BackupLine[i] : i \in DOMAIN Columns!BackupLine} \cup {Columns!NoRow}
RestoreStages == {Columns!RestoreLine[i] : i \in DOMAIN Columns!RestoreLine}

Route(way) == IF way = "long" THEN Columns!Long ELSE Columns!Short
Ways == {"long", "short"}

RouteSteps == RestoreStages \cup {"fetch", "clear", "rows"}

(* The stage of a restore after each of its steps, and before the first.     *)
StagesOf(way) ==
    IF way = "long"
    THEN <<"identity_restored", "root_keys_unwrapped", "root_keys_unwrapped",
           "manifest_verified", "manifest_verified", "skeleton_restored", "skeleton_restored",
           "search_restored", "recent_messages_restored", "media_lazy_restore_enabled",
           "full_restore_complete">>
    ELSE <<"identity_restored", "root_keys_unwrapped", "root_keys_unwrapped",
           "manifest_verified", "skeleton_restored", "search_restored",
           "recent_messages_restored", "media_lazy_restore_enabled", "full_restore_complete">>

(* An asset has a message.                                                   *)
RowsFit(media, backup) ==
    /\ media \in [MediaIds -> Columns!MediaStates \cup {Columns!NoRow}]
    /\ backup \in [MediaIds -> BackupValues]
    /\ \A m \in MediaIds : media[m] # Columns!NoRow => backup[m] # Columns!NoRow

(* A restore has gone through so many steps of its route; from clear to rows *)
(* the tables are empty, and what was there is kept.                         *)
OnWay(way, at) ==
    /\ recovery.outcome = "running"
    /\ recovery.left \in Seq(RouteSteps)
    /\ Len(recovery.left) = Len(Route(way)) - at
    /\ \A i \in 1..Len(recovery.left) : recovery.left[i] = Route(way)[at + i]
    /\ recovery.stage = StagesOf(way)[at + 1]
    /\ way = "long" /\ at \in {4, 5} =>
          /\ mediaState = [m \in MediaIds |-> Columns!NoRow]
          /\ backupState = [m \in MediaIds |-> Columns!NoRow]
          /\ RowsFit(recovery.kept[1], recovery.kept[2])

Over ==
    /\ recovery.left = <<>> /\ recovery.stage \in RestoreStages
    /\ recovery.outcome \in {"none", "failed", "complete"}
    /\ recovery.outcome = "complete" => recovery.stage = "full_restore_complete"

(* Nothing else moves during a restore, and with a host that waits an asset  *)
(* of the plan is where the plan found it.                                   *)
ColumnsInv ==
    /\ RowsFit(mediaState, backupState)
    /\ toEvict \subseteq MediaIds
    /\ HostAlone => \A m \in toEvict : mediaState[m] = "original_local"
    /\ toMark \in [step : {"idle", "upload", "mark"}, rows : SUBSET MediaIds, sent : SUBSET MediaIds]
    /\ DOMAIN recovery = {"stage", "left", "kept", "outcome"}
    /\ Columns!Restoring => toMark.step = "idle" /\ toEvict = {}
    /\ Over \/ \E way \in Ways, at \in Nat : OnWay(way, at) /\ at < Len(Route(way))

LEMMA RouteLengths == Len(Columns!Long) = 10 /\ Len(Columns!Short) = 8
BY DEF Columns!Long, Columns!Short

(* Each stage of a route is a step of the line from the one before.          *)
LEMMA StagesFollow ==
  ASSUME NEW way \in Ways, NEW at \in Nat, at < Len(Route(way))
  PROVE  /\ Route(way)[at + 1] \notin {"fetch", "clear", "rows"} =>
               /\ <<StagesOf(way)[at + 1], Route(way)[at + 1]>>
                     \in Columns!StepsOf(Columns!RestoreLine)
               /\ StagesOf(way)[at + 2] = Route(way)[at + 1]
         /\ Route(way)[at + 1] \in {"fetch", "clear", "rows"} =>
               /\ StagesOf(way)[at + 2] = StagesOf(way)[at + 1]
               /\ at + 1 < Len(Route(way))
         /\ at + 1 = Len(Route(way)) => StagesOf(way)[at + 2] = "full_restore_complete"
         /\ Route(way)[at + 1] = "clear" <=> way = "long" /\ at = 3
         /\ Route(way)[at + 1] = "rows" <=> way = "long" /\ at = 5
<1> DEFINE Line == <<"identity_restored", "root_keys_unwrapped", "manifest_verified",
                     "skeleton_restored", "search_restored", "recent_messages_restored",
                     "media_lazy_restore_enabled", "full_restore_complete">>
<1>1. \A i \in 1..7 : <<Line[i], Line[i + 1]>> \in Columns!StepsOf(Columns!RestoreLine)
  <2>1. Columns!RestoreLine = Line /\ DOMAIN Line = 1..8
    BY DEF Columns!RestoreLine
  <2> HIDE DEF Line
  <2>2. ASSUME NEW i \in 1..7
        PROVE  <<Line[i], Line[i + 1]>> \in Columns!StepsOf(Columns!RestoreLine)
    <3>1. i \in {j \in DOMAIN Line : j + 1 \in DOMAIN Line}
      BY <2>1
    <3> QED
      BY <2>1, <3>1 DEF Columns!StepsOf
  <2> QED
    BY <2>2
<1>2. \A pair \in {<<"identity_restored", "root_keys_unwrapped">>,
                   <<"root_keys_unwrapped", "manifest_verified">>,
                   <<"manifest_verified", "skeleton_restored">>,
                   <<"skeleton_restored", "search_restored">>,
                   <<"search_restored", "recent_messages_restored">>,
                   <<"recent_messages_restored", "media_lazy_restore_enabled">>,
                   <<"media_lazy_restore_enabled", "full_restore_complete">>} :
          pair \in Columns!StepsOf(Columns!RestoreLine)
  <2>1. /\ Line[1] = "identity_restored" /\ Line[2] = "root_keys_unwrapped"
        /\ Line[3] = "manifest_verified" /\ Line[4] = "skeleton_restored"
        /\ Line[5] = "search_restored" /\ Line[6] = "recent_messages_restored"
        /\ Line[7] = "media_lazy_restore_enabled" /\ Line[8] = "full_restore_complete"
    OBVIOUS
  <2> HIDE DEF Line
  <2>2. /\ <<Line[1], Line[2]>> \in Columns!StepsOf(Columns!RestoreLine)
        /\ <<Line[2], Line[3]>> \in Columns!StepsOf(Columns!RestoreLine)
        /\ <<Line[3], Line[4]>> \in Columns!StepsOf(Columns!RestoreLine)
        /\ <<Line[4], Line[5]>> \in Columns!StepsOf(Columns!RestoreLine)
        /\ <<Line[5], Line[6]>> \in Columns!StepsOf(Columns!RestoreLine)
        /\ <<Line[6], Line[7]>> \in Columns!StepsOf(Columns!RestoreLine)
        /\ <<Line[7], Line[8]>> \in Columns!StepsOf(Columns!RestoreLine)
    BY <1>1
  <2> QED
    BY <2>1, <2>2
<1> HIDE DEF Line
<1>3. CASE way = "long"
  <2>1. Route(way) = Columns!Long
    BY <1>3 DEF Route
  <2>2. Len(Route(way)) = 10 /\ at \in 0..9
    BY <2>1, RouteLengths
  <2>3. /\ Route(way)[1] = "root_keys_unwrapped"
        /\ Route(way)[2] = "fetch"
        /\ Route(way)[3] = "manifest_verified"
        /\ Route(way)[4] = "clear"
        /\ Route(way)[5] = "skeleton_restored"
        /\ Route(way)[6] = "rows"
        /\ Route(way)[7] = "search_restored"
        /\ Route(way)[8] = "recent_messages_restored"
        /\ Route(way)[9] = "media_lazy_restore_enabled"
        /\ Route(way)[10] = "full_restore_complete"
    BY <2>1 DEF Columns!Long
  <2>4. /\ StagesOf(way)[1] = "identity_restored"
        /\ StagesOf(way)[2] = "root_keys_unwrapped"
        /\ StagesOf(way)[3] = "root_keys_unwrapped"
        /\ StagesOf(way)[4] = "manifest_verified"
        /\ StagesOf(way)[5] = "manifest_verified"
        /\ StagesOf(way)[6] = "skeleton_restored"
        /\ StagesOf(way)[7] = "skeleton_restored"
        /\ StagesOf(way)[8] = "search_restored"
        /\ StagesOf(way)[9] = "recent_messages_restored"
        /\ StagesOf(way)[10] = "media_lazy_restore_enabled"
        /\ StagesOf(way)[11] = "full_restore_complete"
    BY <1>3 DEF StagesOf
  <2>5. CASE at \in 0..2
    BY <1>2, <2>2, <2>3, <2>4, <2>5
  <2>6. CASE at = 3
    BY <1>2, <1>3, <2>2, <2>3, <2>4, <2>6, SMTT(20)
  <2>7. CASE at = 4
    BY <1>2, <1>3, <2>2, <2>3, <2>4, <2>7, SMTT(20)
  <2>8. CASE at = 5
    BY <1>2, <1>3, <2>2, <2>3, <2>4, <2>8, SMTT(20)
  <2>9. CASE at \in 6..9
    BY <1>2, <2>2, <2>3, <2>4, <2>9
  <2> QED
    BY <2>2, <2>5, <2>6, <2>7, <2>8, <2>9
<1>4. CASE way = "short"
  <2>1. Route(way) = Columns!Short
    BY <1>4 DEF Route
  <2>2. Len(Route(way)) = 8 /\ at \in 0..7
    BY <2>1, RouteLengths
  <2>3. /\ Route(way)[1] = "root_keys_unwrapped"
        /\ Route(way)[2] = "fetch"
        /\ Route(way)[3] = "manifest_verified"
        /\ Route(way)[4] = "skeleton_restored"
        /\ Route(way)[5] = "search_restored"
        /\ Route(way)[6] = "recent_messages_restored"
        /\ Route(way)[7] = "media_lazy_restore_enabled"
        /\ Route(way)[8] = "full_restore_complete"
    BY <2>1 DEF Columns!Short
  <2>4. /\ StagesOf(way)[1] = "identity_restored"
        /\ StagesOf(way)[2] = "root_keys_unwrapped"
        /\ StagesOf(way)[3] = "root_keys_unwrapped"
        /\ StagesOf(way)[4] = "manifest_verified"
        /\ StagesOf(way)[5] = "skeleton_restored"
        /\ StagesOf(way)[6] = "search_restored"
        /\ StagesOf(way)[7] = "recent_messages_restored"
        /\ StagesOf(way)[8] = "media_lazy_restore_enabled"
        /\ StagesOf(way)[9] = "full_restore_complete"
    BY <1>4 DEF StagesOf
  <2>5. CASE at \in 0..3
    BY <1>2, <1>4, <2>2, <2>3, <2>4, <2>5
  <2>6. CASE at \in 4..7
    BY <1>2, <1>4, <2>2, <2>3, <2>4, <2>6
  <2> QED
    BY <2>2, <2>5, <2>6
<1> QED
  BY <1>3, <1>4 DEF Ways

LEMMA ColumnsBegin == Columns!Init => ColumnsInv
<1> SUFFICES ASSUME Columns!Init PROVE ColumnsInv
  OBVIOUS
<1>1. /\ mediaState = [m \in MediaIds |-> Columns!NoRow]
      /\ backupState = [m \in MediaIds |-> Columns!NoRow]
      /\ toEvict = {} /\ toMark = [step |-> "idle", rows |-> {}, sent |-> {}]
  BY DEF Columns!Init
<1>2. RowsFit(mediaState, backupState)
  BY <1>1 DEF RowsFit, BackupValues
<1>3. /\ recovery.left = <<>> /\ recovery.outcome = "none"
      /\ recovery.stage = Columns!RestoreLine[1]
      /\ DOMAIN recovery = {"stage", "left", "kept", "outcome"}
  BY DEF Columns!Init, Columns!NoRecovery
<1>4. Columns!RestoreLine[1] \in RestoreStages
  BY DEF RestoreStages, Columns!RestoreLine
<1> QED
  BY <1>1, <1>2, <1>3, <1>4 DEF ColumnsInv, Over, Columns!Restoring

(* What leaves the restore alone, unless the tables are empty for it.        *)
LEMMA NotRestoring ==
  ASSUME ColumnsInv, recovery' = recovery,
         \/ UNCHANGED <<mediaState, backupState>>
         \/ ~Columns!Restoring
         \/ \E m \in MediaIds : mediaState[m] # Columns!NoRow
  PROVE  \/ Over'
         \/ \E way \in Ways, at \in Nat : OnWay(way, at)' /\ at < Len(Route(way))
<1>1. CASE Over
  BY <1>1 DEF Over
<1>2. ASSUME NEW way \in Ways, NEW at \in Nat, OnWay(way, at), at < Len(Route(way))
      PROVE  OnWay(way, at)'
  <2>1. recovery.left # <<>>
    <3>1. Len(Route(way)) \in Nat
      BY RouteLengths DEF Route
    <3> QED
      BY <1>2, <3>1 DEF OnWay
  <2>2. CASE UNCHANGED <<mediaState, backupState>>
    BY <1>2, <2>2 DEF OnWay, RowsFit
  <2>3. CASE \E m \in MediaIds : mediaState[m] # Columns!NoRow
    BY <1>2, <2>3 DEF OnWay
  <2> QED
    BY <2>1, <2>2, <2>3 DEF Columns!Restoring
<1> QED
  BY <1>1, <1>2 DEF ColumnsInv

LEMMA RowsMove ==
  ASSUME ColumnsInv, NEW m \in MediaIds,
         \/ Columns!Evict(m) \/ Columns!FindNoRow(m) \/ Columns!InsertOrReplace(m)
         \/ \E s \in {"thumbnail_only", "remote_original"} : Columns!Insert(m, s)
         \/ \E s \in Columns!MediaStates : Columns!HostMoves(m, s)
  PROVE  ColumnsInv'
<1>1. RowsFit(mediaState, backupState) /\ RowsFit(mediaState, backupState)'
  <2>1. RowsFit(mediaState, backupState)
    BY DEF ColumnsInv
  <2>2. CASE Columns!Evict(m)
    BY <2>1, <2>2 DEF Columns!Evict, RowsFit, Columns!MediaStates, Columns!NoRow
  <2>3. ASSUME NEW s \in {"thumbnail_only", "remote_original"}, Columns!Insert(m, s)
        PROVE  RowsFit(mediaState, backupState)'
    <3>1. Columns!BackupLine[1] \in BackupValues /\ Columns!BackupLine[1] # Columns!NoRow
      BY DEF BackupValues, Columns!BackupLine, Columns!NoRow
    <3>2. s \in Columns!MediaStates
      BY DEF Columns!MediaStates
    <3> QED
      BY <2>1, <2>3, <3>1, <3>2 DEF Columns!Insert, RowsFit
  <2>4. ASSUME NEW s \in Columns!MediaStates, Columns!HostMoves(m, s)
        PROVE  RowsFit(mediaState, backupState)'
    <3>1. mediaState[m] # Columns!NoRow
      BY <2>4 DEF Columns!HostMoves, Columns!MediaTransitions, Columns!NoRow
    <3> QED
      BY <2>1, <2>4, <3>1 DEF Columns!HostMoves, RowsFit
  <2>5. CASE Columns!FindNoRow(m)
    BY <2>1, <2>5 DEF Columns!FindNoRow, RowsFit
  <2>6. CASE Columns!InsertOrReplace(m)
    <3>1. Columns!BackupLine[1] \in BackupValues /\ Columns!BackupLine[1] # Columns!NoRow
      BY DEF BackupValues, Columns!BackupLine, Columns!NoRow
    <3>2. "thumbnail_only" \in Columns!MediaStates
      BY DEF Columns!MediaStates
    <3> QED
      BY <2>1, <2>6, <3>1, <3>2 DEF Columns!InsertOrReplace, RowsFit
  <2> QED
    BY <2>1, <2>2, <2>3, <2>4, <2>5, <2>6
<1>2. /\ recovery' = recovery /\ toMark' = toMark /\ toEvict' \subseteq toEvict
      /\ toEvict' # {} => toEvict # {}
  BY DEF Columns!Evict, Columns!Insert, Columns!HostMoves, Columns!FindNoRow,
         Columns!InsertOrReplace
<1>3. HostAlone => \A k \in toEvict' : mediaState'[k] = "original_local"
  <2>1. SUFFICES ASSUME HostAlone, NEW k \in toEvict' PROVE mediaState'[k] = "original_local"
    OBVIOUS
  <2>2. k \in toEvict /\ k \in MediaIds /\ mediaState[k] = "original_local"
    BY <1>2, <2>1 DEF ColumnsInv
  <2>3. CASE Columns!Evict(m)
    BY <1>1, <2>1, <2>2, <2>3 DEF Columns!Evict, RowsFit
  <2>4. ASSUME NEW s \in {"thumbnail_only", "remote_original"}, Columns!Insert(m, s)
        PROVE  mediaState'[k] = "original_local"
    <3>1. backupState[k] # Columns!NoRow
      BY <1>1, <2>2 DEF RowsFit, Columns!NoRow
    <3> QED
      BY <1>1, <2>2, <2>4, <3>1 DEF Columns!Insert, RowsFit
  <2>5. ASSUME NEW s \in Columns!MediaStates, Columns!HostMoves(m, s) PROVE FALSE
    BY <2>1, <2>2, <2>5 DEF Columns!HostMoves
  <2>6. CASE Columns!FindNoRow(m)
    BY <2>2, <2>6 DEF Columns!FindNoRow
  <2>7. CASE Columns!InsertOrReplace(m)
    BY <2>1, <2>2, <2>7 DEF Columns!InsertOrReplace
  <2> QED
    BY <2>3, <2>4, <2>5, <2>6, <2>7
<1>4. \/ UNCHANGED <<mediaState, backupState>>
      \/ ~Columns!Restoring
      \/ \E k \in MediaIds : mediaState[k] # Columns!NoRow
  <2>1. CASE Columns!Evict(m)
    BY <2>1 DEF Columns!Evict
  <2>2. ASSUME NEW s \in Columns!MediaStates, Columns!HostMoves(m, s)
        PROVE  mediaState[m] # Columns!NoRow
    BY <2>2 DEF Columns!HostMoves, Columns!MediaTransitions, Columns!NoRow
  <2> QED
    BY <2>1, <2>2 DEF Columns!Insert, Columns!FindNoRow, Columns!InsertOrReplace
<1>5. \/ Over'
      \/ \E way \in Ways, at \in Nat : OnWay(way, at)' /\ at < Len(Route(way))
  BY <1>2, <1>4, NotRestoring
<1> QED
  BY <1>1, <1>2, <1>3, <1>5 DEF ColumnsInv, Columns!Restoring

LEMMA PlansMove ==
  ASSUME ColumnsInv, Columns!PlanEviction \/ Columns!BeginBackup \/ Columns!Upload \/ Columns!Mark
  PROVE  ColumnsInv'
<1>1. recovery' = recovery /\ mediaState' = mediaState
  BY DEF Columns!PlanEviction, Columns!BeginBackup, Columns!Upload, Columns!Mark
<1>2. RowsFit(mediaState, backupState)'
  <2>1. backupState' = backupState \/ Columns!Mark
    BY DEF Columns!PlanEviction, Columns!BeginBackup, Columns!Upload
  <2>2. CASE backupState' = backupState
    BY <1>1, <2>2 DEF ColumnsInv, RowsFit
  <2>3. CASE Columns!Mark
    <3>1. "backup_manifest_committed" \in BackupValues /\ "backup_manifest_committed" # Columns!NoRow
      BY DEF BackupValues, Columns!BackupLine, Columns!NoRow
    <3>2. \A m \in MediaIds : backupState'[m] \in {backupState[m], "backup_manifest_committed"}
      BY <2>3 DEF Columns!Mark
    <3>3. \A m \in MediaIds : backupState[m] # Columns!NoRow => backupState'[m] # Columns!NoRow
      BY <2>3, <3>1, <3>2
    <3>4. backupState' \in [MediaIds -> BackupValues]
      BY <2>3, <3>1 DEF Columns!Mark, ColumnsInv, RowsFit
    <3> QED
      BY <1>1, <3>3, <3>4 DEF ColumnsInv, RowsFit
  <2> QED
    BY <2>1, <2>2, <2>3
<1>3. toMark' \in [step : {"idle", "upload", "mark"}, rows : SUBSET MediaIds, sent : SUBSET MediaIds]
  <2>1. toMark \in [step : {"idle", "upload", "mark"}, rows : SUBSET MediaIds, sent : SUBSET MediaIds]
    BY DEF ColumnsInv
  <2>2. CASE Columns!PlanEviction
    BY <2>1, <2>2 DEF Columns!PlanEviction
  <2>3. CASE Columns!BeginBackup
    BY <2>1, <2>3 DEF Columns!BeginBackup
  <2>4. CASE Columns!Upload
    BY <2>1, <2>4 DEF Columns!Upload
  <2>5. CASE Columns!Mark
    BY <2>1, <2>5 DEF Columns!Mark
  <2> QED
    BY <2>2, <2>3, <2>4, <2>5
<1>4. /\ toEvict' \subseteq MediaIds
      /\ HostAlone => \A m \in toEvict' : mediaState'[m] = "original_local"
  BY <1>1 DEF Columns!PlanEviction, Columns!BeginBackup, Columns!Upload, Columns!Mark, ColumnsInv
<1>5. ~Columns!Restoring \/ UNCHANGED <<mediaState, backupState, toEvict, toMark>>
  BY DEF Columns!PlanEviction, Columns!BeginBackup, Columns!Upload, Columns!Mark, ColumnsInv
<1>6. \/ Over'
      \/ \E way \in Ways, at \in Nat : OnWay(way, at)' /\ at < Len(Route(way))
  BY <1>1, <1>5, NotRestoring
<1>7. Columns!Restoring' => toMark'.step = "idle" /\ toEvict' = {}
  BY <1>1, <1>5 DEF ColumnsInv, Columns!Restoring
<1> QED
  BY <1>1, <1>2, <1>3, <1>4, <1>6, <1>7 DEF ColumnsInv

LEMMA RestoreBegins == ASSUME ColumnsInv, Columns!BeginRestore PROVE ColumnsInv'
<1>1. PICK way \in Ways : way = IF toMark.sent = {} THEN "short" ELSE "long"
  BY DEF Ways
<1>2. /\ recovery' = [Columns!NoRecovery EXCEPT !.left = Route(way), !.outcome = "running"]
      /\ UNCHANGED <<mediaState, backupState, toEvict, toMark>>
      /\ toMark.step = "idle" /\ toEvict = {}
  BY <1>1 DEF Columns!BeginRestore, Route
<1>3. /\ recovery'.left = Route(way) /\ recovery'.outcome = "running"
      /\ recovery'.stage = Columns!RestoreLine[1]
      /\ DOMAIN recovery' = {"stage", "left", "kept", "outcome"}
  BY <1>2 DEF Columns!NoRecovery
<1>4. Columns!RestoreLine[1] = "identity_restored" /\ StagesOf(way)[1] = "identity_restored"
  BY DEF Columns!RestoreLine, StagesOf
<1>5. Route(way) \in Seq(RouteSteps) /\ Len(Route(way)) \in Nat \ {0}
  <2>1. {"identity_restored", "root_keys_unwrapped", "manifest_verified",
         "skeleton_restored", "search_restored", "recent_messages_restored",
         "media_lazy_restore_enabled", "full_restore_complete"} \subseteq RestoreStages
    BY DEF RestoreStages, Columns!RestoreLine
  <2>2. Columns!Long \in Seq(RouteSteps) /\ Columns!Short \in Seq(RouteSteps)
    BY <2>1 DEF RouteSteps, Columns!Long, Columns!Short
  <2>3. Route(way) = Columns!Long \/ Route(way) = Columns!Short
    BY DEF Route
  <2>4. 10 \in Nat \ {0} /\ 8 \in Nat \ {0}
    OBVIOUS
  <2> QED
    BY <2>2, <2>3, <2>4, RouteLengths
<1>6. OnWay(way, 0)'
  <2>1. \A i \in 1..Len(recovery'.left) : recovery'.left[i] = Route(way)[0 + i]
    BY <1>3, <1>5
  <2>2. Len(recovery'.left) = Len(Route(way)) - 0 /\ recovery'.left \in Seq(RouteSteps)
    BY <1>3, <1>5
  <2>3. recovery'.stage = StagesOf(way)[0 + 1]
    BY <1>3, <1>4
  <2> QED
    BY <1>3, <2>1, <2>2, <2>3 DEF OnWay
<1>7. Over' \/ \E w \in Ways, at \in Nat : OnWay(w, at)' /\ at < Len(Route(w))
  BY <1>5, <1>6
<1>8. RowsFit(mediaState, backupState)'
  BY <1>2 DEF ColumnsInv, RowsFit
<1> QED
  BY <1>2, <1>3, <1>7, <1>8 DEF ColumnsInv

(* Where a restore is, and where its next step takes it.                     *)
LEMMA OnTheWay ==
  ASSUME ColumnsInv, Columns!Restoring
  PROVE  \E way \in Ways, at \in Nat :
            /\ OnWay(way, at) /\ at < Len(Route(way)) /\ Len(Route(way)) \in Nat
            /\ Head(recovery.left) = Route(way)[at + 1]
            /\ Tail(recovery.left) \in Seq(RouteSteps)
            /\ Len(Tail(recovery.left)) = Len(Route(way)) - (at + 1)
            /\ \A i \in 1..Len(Tail(recovery.left)) :
                  Tail(recovery.left)[i] = Route(way)[(at + 1) + i]
            /\ Tail(recovery.left) = <<>> <=> at + 1 = Len(Route(way))
<1>1. PICK way \in Ways, at \in Nat : OnWay(way, at) /\ at < Len(Route(way))
  BY DEF ColumnsInv, Over, Columns!Restoring
<1>2. Len(Route(way)) \in Nat
  BY RouteLengths DEF Route
<1> DEFINE s == recovery.left
           n == Len(s)
<1>3. s \in Seq(RouteSteps) /\ s # <<>> /\ n = Len(Route(way)) - at
      /\ \A i \in 1..n : s[i] = Route(way)[at + i]
  BY <1>1 DEF OnWay, Columns!Restoring
<1> HIDE DEF s
<1>4. /\ Head(s) = s[1] /\ Tail(s) \in Seq(RouteSteps) /\ Len(Tail(s)) = n - 1
      /\ \A i \in 1..(n - 1) : Tail(s)[i] = s[i + 1]
  BY <1>3, HeadTailProperties
<1>5. n \in Nat \ {0}
  BY <1>3, EmptySeq
<1>6. Head(s) = Route(way)[at + 1]
  BY <1>3, <1>4, <1>5
<1>7. ASSUME NEW i \in 1..(n - 1) PROVE Tail(s)[i] = Route(way)[(at + 1) + i]
  <2>1. i + 1 \in 1..n /\ at + (i + 1) = (at + 1) + i
    BY <1>5
  <2>2. Tail(s)[i] = s[i + 1]
    BY <1>4
  <2>3. s[i + 1] = Route(way)[at + (i + 1)]
    BY <1>3, <2>1
  <2> QED
    BY <2>1, <2>2, <2>3
<1>8. Tail(s) = <<>> <=> n - 1 = 0
  BY <1>4, EmptySeq
<1>9. /\ Tail(s) \in Seq(RouteSteps)
      /\ Len(Tail(s)) = Len(Route(way)) - (at + 1)
      /\ \A i \in 1..Len(Tail(s)) : Tail(s)[i] = Route(way)[(at + 1) + i]
      /\ Tail(s) = <<>> <=> at + 1 = Len(Route(way))
  <2>1. n - 1 = Len(Route(way)) - (at + 1) /\ (n - 1 = 0 <=> at + 1 = Len(Route(way)))
    BY <1>2, <1>3, <1>5
  <2>2. Len(Tail(s)) = Len(Route(way)) - (at + 1)
    BY <1>4, <2>1
  <2>3. \A i \in 1..Len(Tail(s)) : Tail(s)[i] = Route(way)[(at + 1) + i]
    BY <1>4, <1>7
  <2> QED
    BY <1>4, <1>8, <2>1, <2>2, <2>3
<1> QED
  BY <1>1, <1>2, <1>6, <1>9 DEF s

(* A step of a restore goes on to the next or ends it.                       *)
LEMMA RestoreGoesOn ==
  ASSUME NEW way \in Ways, NEW at \in Nat, at < Len(Route(way)), Len(Route(way)) \in Nat,
         DOMAIN recovery = {"stage", "left", "kept", "outcome"},
         NEW rest \in Seq(RouteSteps), rest # <<>>,
         Len(rest) = Len(Route(way)) - (at + 1),
         \A i \in 1..Len(rest) : rest[i] = Route(way)[(at + 1) + i],
         DOMAIN recovery' = DOMAIN recovery, recovery'.left = rest,
         recovery'.outcome = "running", recovery'.stage = StagesOf(way)[at + 2],
         way = "long" /\ at + 1 \in {4, 5} =>
            /\ mediaState' = [m \in MediaIds |-> Columns!NoRow]
            /\ backupState' = [m \in MediaIds |-> Columns!NoRow]
            /\ RowsFit(recovery'.kept[1], recovery'.kept[2])
  PROVE  \E w \in Ways, k \in Nat : OnWay(w, k)' /\ k < Len(Route(w))
<1>1. Len(rest) \in Nat \ {0}
  BY EmptySeq
<1>2. PICK next \in Nat : next = at + 1
  OBVIOUS
<1>3. next < Len(Route(way)) /\ next + 1 = at + 2
  BY <1>1, <1>2
<1>4. (way = "long" /\ next \in {4, 5} =>
            /\ mediaState = [m \in MediaIds |-> Columns!NoRow]
            /\ backupState = [m \in MediaIds |-> Columns!NoRow]
            /\ RowsFit(recovery.kept[1], recovery.kept[2]))'
  BY <1>2 DEF RowsFit
<1>5. OnWay(way, next)'
  BY <1>2, <1>3, <1>4 DEF OnWay
<1> QED
  BY <1>3, <1>5

LEMMA StagesAreStages ==
  ASSUME NEW way \in Ways, NEW at \in Nat, at =< Len(Route(way))
  PROVE  StagesOf(way)[at + 1] \in RestoreStages
<1>1. {"identity_restored", "root_keys_unwrapped", "manifest_verified",
       "skeleton_restored", "search_restored", "recent_messages_restored",
       "media_lazy_restore_enabled", "full_restore_complete"} \subseteq RestoreStages
  BY DEF RestoreStages, Columns!RestoreLine
<1>2. CASE way = "long"
  <2>1. Route(way) = Columns!Long
    BY <1>2 DEF Route
  <2>2. at + 1 \in 1..11
    BY <2>1, RouteLengths
  <2> QED
    BY <1>1, <1>2, <2>2 DEF StagesOf
<1>3. CASE way = "short"
  <2>1. Route(way) = Columns!Short
    BY <1>3 DEF Route
  <2>2. at + 1 \in 1..9
    BY <2>1, RouteLengths
  <2> QED
    BY <1>1, <1>3, <2>2 DEF StagesOf
<1> QED
  BY <1>2, <1>3 DEF Ways

LEMMA StagesMove == ASSUME ColumnsInv, Columns!Advance \/ Columns!FetchManifests PROVE ColumnsInv'
<1>1. /\ UNCHANGED <<mediaState, backupState, toEvict, toMark>> /\ Columns!Restoring
  BY DEF Columns!Advance, Columns!FetchManifests
<1>2. PICK way \in Ways, at \in Nat :
            /\ OnWay(way, at) /\ at < Len(Route(way)) /\ Len(Route(way)) \in Nat
            /\ Head(recovery.left) = Route(way)[at + 1]
            /\ Tail(recovery.left) \in Seq(RouteSteps)
            /\ Len(Tail(recovery.left)) = Len(Route(way)) - (at + 1)
            /\ \A i \in 1..Len(Tail(recovery.left)) :
                  Tail(recovery.left)[i] = Route(way)[(at + 1) + i]
            /\ Tail(recovery.left) = <<>> <=> at + 1 = Len(Route(way))
  BY <1>1, OnTheWay
<1>3. DOMAIN recovery = {"stage", "left", "kept", "outcome"} /\ toEvict = {} /\ toMark.step = "idle"
  BY <1>1 DEF ColumnsInv
<1>4. /\ recovery.outcome = "running" /\ recovery.stage = StagesOf(way)[at + 1]
      /\ recovery.stage \in RestoreStages
  <2>1. recovery.outcome = "running" /\ recovery.stage = StagesOf(way)[at + 1]
    BY <1>2 DEF OnWay
  <2>2. StagesOf(way)[at + 1] \in RestoreStages
    BY <1>2, StagesAreStages
  <2> QED
    BY <2>1, <2>2
<1> DEFINE head == Head(recovery.left)
           rest == Tail(recovery.left)
<1>5. head # "clear" /\ head # "rows"
  BY DEF Columns!Advance, Columns!FetchManifests
<1>6. way = "long" /\ at + 1 \in {4, 5} => at = 4
  <2>1. way = "long" => at # 3
    BY <1>2, <1>5, StagesFollow
  <2> QED
    BY <2>1
<1>7. way = "long" /\ at + 1 \in {4, 5} =>
            /\ mediaState' = [m \in MediaIds |-> Columns!NoRow]
            /\ backupState' = [m \in MediaIds |-> Columns!NoRow]
            /\ RowsFit(recovery.kept[1], recovery.kept[2])
  BY <1>1, <1>2, <1>6 DEF OnWay
<1>8. ASSUME DOMAIN recovery' = DOMAIN recovery, recovery'.left = rest, rest # <<>>,
             recovery'.outcome = "running", recovery'.stage = StagesOf(way)[at + 2],
             recovery'.kept = recovery.kept
      PROVE  \E w \in Ways, k \in Nat : OnWay(w, k)' /\ k < Len(Route(w))
  <2>1. PICK r \in Seq(RouteSteps) : r = rest
    BY <1>2
  <2>2. /\ r # <<>> /\ Len(r) = Len(Route(way)) - (at + 1) /\ recovery'.left = r
        /\ \A i \in 1..Len(r) : r[i] = Route(way)[(at + 1) + i]
    BY <1>2, <1>8, <2>1
  <2> HIDE DEF rest
  <2> QED
    BY <1>2, <1>3, <1>7, <1>8, <2>2, RestoreGoesOn
<1> HIDE DEF head, rest
<1>9. DOMAIN recovery' = DOMAIN recovery
      /\ (Over' \/ \E w \in Ways, k \in Nat : OnWay(w, k)' /\ k < Len(Route(w)))
  <2>1. CASE Columns!Advance
    <3>1. head \notin {"fetch", "clear", "rows"}
      BY <2>1 DEF Columns!Advance, head
    <3>2. <<recovery.stage, head>> \in Columns!StepsOf(Columns!RestoreLine)
          /\ StagesOf(way)[at + 2] = head
          /\ (at + 1 = Len(Route(way)) => head = "full_restore_complete")
      BY <1>2, <1>4, <3>1, StagesFollow DEF head
    <3>3. recovery' = [recovery EXCEPT !.stage = head, !.left = rest,
                          !.outcome = IF rest = <<>> THEN "complete" ELSE recovery.outcome]
      BY <2>1, <3>2 DEF Columns!Advance, head, rest
    <3>4. /\ DOMAIN recovery' = DOMAIN recovery /\ recovery'.stage = head /\ recovery'.left = rest
          /\ recovery'.outcome = (IF rest = <<>> THEN "complete" ELSE "running")
          /\ recovery'.kept = recovery.kept
      BY <1>3, <1>4, <3>3
    <3>5. CASE rest = <<>>
      <4>1. head = "full_restore_complete"
        BY <1>2, <3>2, <3>5 DEF rest
      <4>2. "full_restore_complete" \in RestoreStages
        BY DEF RestoreStages, Columns!RestoreLine
      <4> QED
        BY <3>4, <3>5, <4>1, <4>2 DEF Over
    <3>6. CASE rest # <<>>
      BY <1>8, <3>2, <3>4, <3>6
    <3> QED
      BY <3>4, <3>5, <3>6
  <2>2. CASE Columns!FetchManifests
    <3>1. head = "fetch"
      BY <2>2 DEF Columns!FetchManifests, head
    <3>2. StagesOf(way)[at + 2] = StagesOf(way)[at + 1] /\ rest # <<>>
      <4>1. Route(way)[at + 1] \in {"fetch", "clear", "rows"}
        BY <1>2, <3>1 DEF head
      <4>2. StagesOf(way)[at + 2] = StagesOf(way)[at + 1] /\ at + 1 < Len(Route(way))
        BY <1>2, <4>1, StagesFollow
      <4> QED
        BY <1>2, <4>2 DEF rest
    <3>3. recovery' \in {[recovery EXCEPT !.left = rest],
                         [recovery EXCEPT !.left = <<>>, !.outcome = "failed"]}
      BY <2>2 DEF Columns!FetchManifests, rest
    <3>4. CASE recovery' = [recovery EXCEPT !.left = rest]
      BY <1>3, <1>4, <1>8, <3>2, <3>4
    <3>5. CASE recovery' = [recovery EXCEPT !.left = <<>>, !.outcome = "failed"]
      <4>1. /\ DOMAIN recovery' = DOMAIN recovery /\ recovery'.left = <<>>
            /\ recovery'.outcome = "failed" /\ recovery'.stage = recovery.stage
        BY <1>3, <3>5
      <4> QED
        BY <1>4, <4>1 DEF Over
    <3> QED
      BY <3>3, <3>4, <3>5
  <2> QED
    BY <2>1, <2>2
<1>10. RowsFit(mediaState, backupState)'
  BY <1>1 DEF ColumnsInv, RowsFit
<1> QED
  BY <1>1, <1>3, <1>9, <1>10 DEF ColumnsInv

LEMMA TablesMove == ASSUME ColumnsInv, Columns!Clear \/ Columns!RestoreRows PROVE ColumnsInv'
<1>1. /\ UNCHANGED <<toEvict, toMark>> /\ Columns!Restoring
  BY DEF Columns!Clear, Columns!RestoreRows
<1>2. PICK way \in Ways, at \in Nat :
            /\ OnWay(way, at) /\ at < Len(Route(way)) /\ Len(Route(way)) \in Nat
            /\ Head(recovery.left) = Route(way)[at + 1]
            /\ Tail(recovery.left) \in Seq(RouteSteps)
            /\ Len(Tail(recovery.left)) = Len(Route(way)) - (at + 1)
            /\ \A i \in 1..Len(Tail(recovery.left)) :
                  Tail(recovery.left)[i] = Route(way)[(at + 1) + i]
            /\ Tail(recovery.left) = <<>> <=> at + 1 = Len(Route(way))
  BY <1>1, OnTheWay
<1>3. DOMAIN recovery = {"stage", "left", "kept", "outcome"} /\ toEvict = {} /\ toMark.step = "idle"
      /\ RowsFit(mediaState, backupState)
  BY <1>1 DEF ColumnsInv
<1>4. recovery.outcome = "running" /\ recovery.stage = StagesOf(way)[at + 1]
  BY <1>2 DEF OnWay
<1>5. recovery.stage \in RestoreStages
  BY <1>2, <1>4, StagesAreStages
<1>6. Route(way)[at + 1] \in {"clear", "rows"}
  BY <1>2 DEF Columns!Clear, Columns!RestoreRows
<1>7. StagesOf(way)[at + 2] = StagesOf(way)[at + 1] /\ at + 1 < Len(Route(way))
  BY <1>2, <1>6, StagesFollow
<1>8. way = "long" /\ (Columns!Clear => at = 3) /\ (Columns!RestoreRows => at = 5)
  <2>1. Columns!Clear => Route(way)[at + 1] = "clear"
    BY <1>2 DEF Columns!Clear
  <2>2. Columns!RestoreRows => Route(way)[at + 1] = "rows"
    BY <1>2 DEF Columns!RestoreRows
  <2> QED
    BY <1>2, <1>6, <2>1, <2>2, StagesFollow
<1>9. PICK rest \in Seq(RouteSteps) :
            /\ rest = Tail(recovery.left) /\ rest # <<>>
            /\ Len(rest) = Len(Route(way)) - (at + 1)
            /\ \A i \in 1..Len(rest) : rest[i] = Route(way)[(at + 1) + i]
  <2>1. Tail(recovery.left) # <<>>
    BY <1>2, <1>7
  <2>2. PICK rest \in Seq(RouteSteps) : rest = Tail(recovery.left)
    BY <1>2
  <2> QED
    BY <1>2, <2>1, <2>2
<1>10. RowsFit([m \in MediaIds |-> Columns!NoRow], [m \in MediaIds |-> Columns!NoRow])
  BY DEF RowsFit, BackupValues
<1>11. CASE Columns!Clear
  <2>1. recovery' = [recovery EXCEPT !.left = rest, !.kept = <<mediaState, backupState>>]
        /\ mediaState' = [m \in MediaIds |-> Columns!NoRow]
        /\ backupState' = [m \in MediaIds |-> Columns!NoRow]
    BY <1>9, <1>11 DEF Columns!Clear
  <2>2. /\ DOMAIN recovery' = DOMAIN recovery /\ recovery'.left = rest
        /\ recovery'.outcome = "running" /\ recovery'.stage = StagesOf(way)[at + 2]
        /\ recovery'.kept = <<mediaState, backupState>>
    BY <1>3, <1>4, <1>7, <2>1
  <2>3. RowsFit(recovery'.kept[1], recovery'.kept[2])
    BY <1>3, <2>2
  <2>4. \E w \in Ways, k \in Nat : OnWay(w, k)' /\ k < Len(Route(w))
    BY <1>2, <1>3, <1>9, <2>1, <2>2, <2>3, RestoreGoesOn
  <2>5. RowsFit(mediaState, backupState)'
    BY <1>10, <2>1 DEF RowsFit
  <2> QED
    BY <1>1, <1>3, <2>2, <2>4, <2>5 DEF ColumnsInv
<1>12. CASE Columns!RestoreRows
  <2>1. /\ mediaState = [m \in MediaIds |-> Columns!NoRow]
        /\ backupState = [m \in MediaIds |-> Columns!NoRow]
        /\ RowsFit(recovery.kept[1], recovery.kept[2])
    BY <1>2, <1>8, <1>12 DEF OnWay
  <2>2. CASE /\ recovery' = [recovery EXCEPT !.left = rest, !.kept = <<>>]
             /\ backupState' = [m \in MediaIds |-> IF m \in toMark.sent THEN Columns!BackupLine[1]
                                                    ELSE backupState[m]]
             /\ UNCHANGED mediaState
    <3>1. /\ DOMAIN recovery' = DOMAIN recovery /\ recovery'.left = rest
          /\ recovery'.outcome = "running" /\ recovery'.stage = StagesOf(way)[at + 2]
      BY <1>3, <1>4, <1>7, <2>2
    <3>2. at + 1 \notin {4, 5}
      BY <1>8, <1>12
    <3>3. \E w \in Ways, k \in Nat : OnWay(w, k)' /\ k < Len(Route(w))
      BY <1>2, <1>3, <1>9, <3>1, <3>2, RestoreGoesOn
    <3>4. RowsFit(mediaState, backupState)'
      <4>1. Columns!BackupLine[1] \in BackupValues
        BY DEF BackupValues, Columns!BackupLine
      <4>2. backupState' \in [MediaIds -> BackupValues]
        BY <1>3, <2>2, <4>1 DEF RowsFit
      <4> QED
        BY <1>3, <2>1, <2>2, <4>2 DEF RowsFit
    <3> QED
      BY <1>1, <1>3, <3>1, <3>3, <3>4 DEF ColumnsInv
  <2>3. CASE /\ recovery' = [recovery EXCEPT !.left = <<>>, !.kept = <<>>, !.outcome = "failed"]
             /\ mediaState' = recovery.kept[1]
             /\ backupState' = recovery.kept[2]
    <3>1. /\ DOMAIN recovery' = DOMAIN recovery /\ recovery'.left = <<>>
          /\ recovery'.outcome = "failed" /\ recovery'.stage = recovery.stage
      BY <1>3, <2>3
    <3>2. Over'
      BY <1>5, <3>1 DEF Over
    <3>3. RowsFit(mediaState, backupState)'
      BY <2>1, <2>3 DEF RowsFit
    <3> QED
      BY <1>1, <1>3, <3>1, <3>2, <3>3 DEF ColumnsInv
  <2> QED
    BY <1>9, <1>12, <2>2, <2>3 DEF Columns!RestoreRows
<1> QED
  BY <1>11, <1>12

LEMMA ColumnsNext == ColumnsInv /\ [Columns!Next]_columnsVars => ColumnsInv'
<1> SUFFICES ASSUME ColumnsInv, [Columns!Next]_columnsVars PROVE ColumnsInv'
  OBVIOUS
<1>1. CASE UNCHANGED columnsVars
  <2>1. UNCHANGED <<mediaState, backupState, toEvict, toMark, recovery>>
    BY <1>1 DEF columnsVars
  <2>2. \/ Over'
        \/ \E way \in Ways, at \in Nat : OnWay(way, at)' /\ at < Len(Route(way))
    BY <2>1, NotRestoring
  <2> QED
    BY <2>1, <2>2 DEF ColumnsInv, RowsFit, Columns!Restoring
<1>2. CASE Columns!Next
  BY <1>2, RowsMove, PlansMove, RestoreBegins, StagesMove, TablesMove DEF Columns!Next
<1> QED
  BY <1>1, <1>2

MediaAdvances ==
    \A m \in MediaIds :
       \/ Columns!NoRow \in {mediaState[m], mediaState'[m]}
       \/ mediaState'[m] = mediaState[m]
       \/ <<mediaState[m], mediaState'[m]>> \in Columns!MediaTransitions
       \/ Columns!Lands(m)

BackupAdvances ==
    \A m \in MediaIds :
       backupState[m] = "backup_manifest_committed"
          => backupState'[m] \in {"backup_manifest_committed", Columns!NoRow} \/ Columns!Lands(m)

LEMMA ColumnsStep ==
  ASSUME HostAlone, ColumnsInv, [Columns!Next]_columnsVars
  PROVE  [MediaAdvances]_(Columns!vars) /\ [BackupAdvances]_(Columns!vars)
<1>1. RowsFit(mediaState, backupState)
  BY DEF ColumnsInv
<1>2. CASE UNCHANGED <<mediaState, backupState>>
  BY <1>2 DEF MediaAdvances, BackupAdvances
<1>3. ASSUME NEW m \in MediaIds, Columns!Evict(m) PROVE MediaAdvances /\ BackupAdvances
  <2>1. mediaState[m] = "original_local"
    BY <1>3 DEF Columns!Evict, ColumnsInv
  <2>2. <<"original_local", "evicted">> \in Columns!MediaTransitions
    BY DEF Columns!MediaTransitions
  <2>3. MediaAdvances
    BY <1>1, <1>3, <2>1, <2>2 DEF Columns!Evict, MediaAdvances, RowsFit
  <2> QED
    BY <1>3, <2>3 DEF Columns!Evict, BackupAdvances
<1>4. ASSUME NEW m \in MediaIds, NEW s \in {"thumbnail_only", "remote_original"},
             Columns!Insert(m, s)
      PROVE  MediaAdvances /\ BackupAdvances
  <2>1. mediaState[m] = Columns!NoRow /\ backupState[m] = Columns!NoRow
    BY <1>1, <1>4 DEF Columns!Insert, RowsFit
  <2>2. Columns!NoRow # "backup_manifest_committed"
    BY DEF Columns!NoRow
  <2>3. \A k \in MediaIds : k # m => mediaState'[k] = mediaState[k] /\ backupState'[k] = backupState[k]
    BY <1>1, <1>4 DEF Columns!Insert, RowsFit
  <2> QED
    BY <2>1, <2>2, <2>3 DEF MediaAdvances, BackupAdvances
<1>5. ASSUME NEW m \in MediaIds, NEW s \in Columns!MediaStates, Columns!HostMoves(m, s)
      PROVE  MediaAdvances /\ BackupAdvances
  <2>1. MediaAdvances
    BY <1>1, <1>5 DEF Columns!HostMoves, MediaAdvances, RowsFit
  <2> QED
    BY <1>5, <2>1 DEF Columns!HostMoves, BackupAdvances
<1>6. CASE Columns!Mark
  BY <1>6 DEF Columns!Mark, MediaAdvances, BackupAdvances
<1>7. CASE Columns!Clear
  BY <1>7 DEF Columns!Clear, MediaAdvances, BackupAdvances
<1>8. CASE Columns!RestoreRows
  <2>1. PICK way \in Ways, at \in Nat :
            /\ OnWay(way, at) /\ at < Len(Route(way))
            /\ Head(recovery.left) = Route(way)[at + 1]
    BY <1>8, OnTheWay DEF Columns!RestoreRows
  <2>2. way = "long" /\ at = 5
    <3>1. Route(way)[at + 1] = "rows"
      BY <1>8, <2>1 DEF Columns!RestoreRows
    <3> QED
      BY <2>1, <3>1, StagesFollow
  <2>3. /\ mediaState = [m \in MediaIds |-> Columns!NoRow]
        /\ backupState = [m \in MediaIds |-> Columns!NoRow]
    BY <2>1, <2>2 DEF OnWay
  <2>4. Columns!NoRow # "backup_manifest_committed"
    BY DEF Columns!NoRow
  <2> QED
    BY <2>3, <2>4 DEF MediaAdvances, BackupAdvances
<1>9. ASSUME NEW m \in MediaIds, Columns!InsertOrReplace(m) PROVE MediaAdvances /\ BackupAdvances
  <2>1. Columns!Lands(m)
    BY <1>9 DEF Columns!InsertOrReplace, Columns!Lands
  <2>2. \A k \in MediaIds : k # m => mediaState'[k] = mediaState[k] /\ backupState'[k] = backupState[k]
    BY <1>1, <1>9 DEF Columns!InsertOrReplace, RowsFit
  <2> QED
    BY <2>1, <2>2 DEF MediaAdvances, BackupAdvances
<1> QED
  BY <1>2, <1>3, <1>4, <1>5, <1>6, <1>7, <1>8, <1>9
  DEF Columns!Next, Columns!FindNoRow, columnsVars, Columns!PlanEviction, Columns!BeginBackup, Columns!Upload,
      Columns!BeginRestore, Columns!Advance, Columns!FetchManifests

LEMMA ColumnsHold == ColumnsInv => Columns!StagesInOrder
<1> SUFFICES ASSUME ColumnsInv PROVE Columns!StagesInOrder
  OBVIOUS
<1>1. CASE Over
  BY <1>1 DEF Over, Columns!StagesInOrder
<1>2. ASSUME NEW way \in Ways, NEW at \in Nat, OnWay(way, at) PROVE Columns!StagesInOrder
  BY <1>2 DEF OnWay, Columns!StagesInOrder
<1> QED
  BY <1>1, <1>2 DEF ColumnsInv

(* ColumnsAdvance: an asset moves along its diagram though nobody asks it, a *)
(* message that is backed up stays so as long as its row, and no restore is  *)
(* stopped by its own stages, for any messages, backups, evictions and       *)
(* failed restores, when nothing moves an asset during an enforcement and    *)
(* but for a delivery that found no row and replaces the one that has come   *)
(* since (message/processor.rs, core_impl.rs, local_store/db.rs,             *)
(* restore/pipeline.rs).                                                     *)
THEOREM ColumnsOnlyAdvance == ASSUME HostAlone PROVE Spec => ColumnsAdvance
<1>1. Init => ColumnsInv
  BY ColumnsBegin DEF Init
<1>2. ColumnsInv /\ [Next]_vars =>
         ColumnsInv' /\ [MediaAdvances]_(Columns!vars) /\ [BackupAdvances]_(Columns!vars)
  BY PartsMove, ColumnsNext, ColumnsStep
<1>3. ColumnsInv => Columns!StagesInOrder
  BY ColumnsHold
<1>4. Spec => [][MediaAdvances]_(Columns!vars) /\ [][BackupAdvances]_(Columns!vars)
                 /\ []Columns!StagesInOrder
  BY <1>1, <1>2, <1>3, PTL DEF Spec
<1> QED
  BY <1>4 DEF ColumnsAdvance, Columns!MediaLifecycle, Columns!BackedUpStays,
              MediaAdvances, BackupAdvances

--------------------------------------------------------------------------------

Apart(list) == \A i, j \in DOMAIN list : list[i] = list[j] => i = j

(* sent has, of the rows up to at, those of the set had and maybe others,    *)
(* and none twice.                                                           *)
SentUpTo(rows, at, had, sent) ==
    /\ sent \in Seq(Rows) /\ at \in Nat
    /\ had \subseteq Range(rows)
    /\ Apart(sent)
    /\ \A i \in DOMAIN sent : \E p \in DOMAIN rows : p =< at /\ rows[p] = sent[i]
    /\ \A p \in DOMAIN rows :
          p =< at /\ rows[p] \in had => \E i \in DOMAIN sent : sent[i] = rows[p]

(* batch is what a query after at gave, before rows that came since.         *)
IsBatch(rows, at, had, batch) ==
    /\ batch \in Seq(Rows) /\ Apart(batch)
    /\ \A i \in DOMAIN batch :
          \E p \in DOMAIN rows : at < p /\ p =< at + BatchSize /\ rows[p] = batch[i]
    /\ \A p \in DOMAIN rows :
          at < p /\ p =< at + BatchSize /\ rows[p] \in had => \E i \in DOMAIN batch : batch[i] = rows[p]
    /\ Len(batch) < BatchSize =>
          \A p \in DOMAIN rows : rows[p] \in had => p =< at + BatchSize
    /\ batch = <<>> => \A p \in DOMAIN rows : rows[p] \in had => p =< at

(* With no row gone since, and while the call is under way.                  *)
StreamsOn ==
    /\ SentUpTo(skeletons, stream.sAt, began.skeletons, stream.sSent)
    /\ SentUpTo(bodies, stream.bAt, began.bodies, stream.bSent)
    /\ stream.step = "bodies" =>
          IsBatch(skeletons, stream.sAt, began.skeletons, stream.batch)

IsStream(c) ==
    c \in [step : {"idle", "skeletons", "bodies", "done"}, sAt : Nat, bAt : Nat,
           batch : Seq(Rows), sSent : Seq(Rows), bSent : Seq(Rows)]

StreamInv ==
    /\ skeletons \in Seq(Rows) /\ bodies \in Seq(Rows)
    /\ Apart(skeletons) /\ Apart(bodies)
    /\ IsStream(stream)
    /\ DOMAIN began = {"skeletons", "bodies", "left"}
    /\ ~began.left /\ stream.step \in {"skeletons", "bodies"} => StreamsOn
    /\ Stream!StreamsAll

(* A row is taken out of a list without repetitions.                         *)
LEMMA TakenOut ==
  ASSUME NEW S, NEW list \in Seq(S), Apart(list), NEW i \in DOMAIN list
  PROVE  Stream!RemoveAt(list, i) \in Seq(S) /\ Apart(Stream!RemoveAt(list, i))
<1> DEFINE a == SubSeq(list, 1, i - 1)
           b == SubSeq(list, i + 1, Len(list))
<1>1. i \in 1..Len(list) /\ Len(list) \in Nat /\ \A k \in 1..Len(list) : list[k] \in S
  BY LenProperties, ElementOfSeq
<1>2. /\ a \in Seq(S) /\ Len(a) = i - 1
      /\ \A k \in 1..(i - 1) : a[k] = list[k]
  <2>1. \A k \in 1..(i - 1) : list[k] \in S
    BY <1>1
  <2>2. /\ a \in Seq(S) /\ Len(a) = IF 1 =< i - 1 THEN (i - 1) - 1 + 1 ELSE 0
        /\ \A k \in 1..((i - 1) - 1 + 1) : a[k] = list[1 + k - 1]
    BY <1>1, <2>1, SubSeqProperties
  <2> HIDE DEF a
  <2> QED
    BY <1>1, <2>2
<1>3. /\ b \in Seq(S) /\ Len(b) = Len(list) - i
      /\ \A k \in 1..(Len(list) - i) : b[k] = list[i + k]
  <2>1. \A k \in (i + 1)..Len(list) : list[k] \in S
    BY <1>1
  <2>2. /\ b \in Seq(S) /\ Len(b) = IF i + 1 =< Len(list) THEN Len(list) - (i + 1) + 1 ELSE 0
        /\ \A k \in 1..(Len(list) - (i + 1) + 1) : b[k] = list[(i + 1) + k - 1]
    BY <1>1, <2>1, SubSeqProperties
  <2> HIDE DEF b
  <2> QED
    BY <1>1, <2>2
<1> HIDE DEF a, b
<1> DEFINE c == a \o b
<1>4. /\ c \in Seq(S) /\ Len(c) = Len(list) - 1
      /\ \A k \in 1..Len(c) : c[k] = IF k < i THEN list[k] ELSE list[k + 1]
  <2>1. /\ c \in Seq(S) /\ Len(c) = Len(a) + Len(b)
        /\ \A k \in 1..(Len(a) + Len(b)) : c[k] = IF k =< Len(a) THEN a[k] ELSE b[k - Len(a)]
    BY <1>2, <1>3, ConcatProperties
  <2> HIDE DEF c
  <2>2. Len(a) + Len(b) = Len(list) - 1
    BY <1>1, <1>2, <1>3
  <2>3. ASSUME NEW k \in 1..(Len(list) - 1), k < i PROVE c[k] = list[k]
    <3>1. k \in 1..(i - 1) /\ k =< Len(a)
      BY <1>1, <1>2, <2>3
    <3> QED
      BY <1>2, <2>1, <2>2, <3>1
  <2>4. ASSUME NEW k \in 1..(Len(list) - 1), ~ (k < i) PROVE c[k] = list[k + 1]
    <3>1. /\ k - (i - 1) \in 1..(Len(list) - i) /\ ~ (k =< Len(a)) /\ k - Len(a) = k - (i - 1)
          /\ i + (k - (i - 1)) = k + 1
      BY <1>1, <1>2, <2>4
    <3>2. c[k] = b[k - (i - 1)]
      BY <2>1, <2>2, <3>1
    <3> QED
      BY <1>3, <3>1, <3>2
  <2> QED
    BY <2>1, <2>2, <2>3, <2>4
<1>5. Stream!RemoveAt(list, i) = c
  BY DEF Stream!RemoveAt, a, b, c
<1> HIDE DEF c
<1>6. DOMAIN c = 1..Len(c) /\ DOMAIN list = 1..Len(list)
  BY <1>4, LenProperties
<1>7. Apart(c)
  BY <1>1, <1>4, <1>6 DEF Apart
<1> QED
  BY <1>4, <1>5, <1>7

(* LIMIT and OFFSET give a batch.                                            *)
LEMMA BatchReads ==
  ASSUME NEW list \in Seq(Rows), Apart(list), NEW at \in Nat, NEW had, had \subseteq Range(list)
  PROVE  IsBatch(list, at, had, Stream!Batch(list, at))
<1> DEFINE to == IF at + BatchSize < Len(list) THEN at + BatchSize ELSE Len(list)
           b == Stream!Batch(list, at)
<1>1. /\ BatchSize \in Nat \ {0} /\ Len(list) \in Nat /\ DOMAIN list = 1..Len(list)
      /\ \A k \in 1..Len(list) : list[k] \in Rows
  BY BackupStreamAssumption, LenProperties, ElementOfSeq
<1>2. to \in Nat /\ to =< Len(list) /\ to =< at + BatchSize
  BY <1>1
<1>3. /\ b \in Seq(Rows) /\ Len(b) = IF at + 1 =< to THEN to - (at + 1) + 1 ELSE 0
      /\ \A k \in 1..(to - (at + 1) + 1) : b[k] = list[(at + 1) + k - 1]
  <2>1. \A k \in (at + 1)..to : list[k] \in Rows
    BY <1>1, <1>2
  <2>2. b = SubSeq(list, at + 1, to)
    BY DEF Stream!Batch
  <2> HIDE DEF b, to
  <2>3. at + 1 \in Int /\ to \in Int
    BY <1>2
  <2> QED
    BY <2>1, <2>2, <2>3, SubSeqProperties
<1>4. to = at + BatchSize \/ to = Len(list)
  OBVIOUS
<1> HIDE DEF b, to
<1>5. Len(b) \in Nat /\ DOMAIN b = 1..Len(b)
  BY <1>3, LenProperties
<1>6. \A k \in 1..Len(b) : at + k \in 1..to /\ at + k \in DOMAIN list /\ b[k] = list[at + k]
  BY <1>1, <1>2, <1>3
<1>7. Apart(b)
  BY <1>5, <1>6 DEF Apart
<1>8. \A i \in DOMAIN b : \E p \in DOMAIN list : at < p /\ p =< at + BatchSize /\ list[p] = b[i]
  <2> TAKE i \in DOMAIN b
  <2>1. at < at + i /\ at + i =< at + BatchSize
    BY <1>1, <1>2, <1>5, <1>6
  <2> QED
    BY <1>5, <1>6, <2>1
<1>9. ASSUME NEW p \in DOMAIN list, at < p, p =< at + BatchSize
      PROVE  \E i \in DOMAIN b : b[i] = list[p]
  <2>1. p =< to
    <3>1. p \in 1..Len(list)
      BY <1>1
    <3> QED
      BY <1>4, <1>9, <3>1
  <2>2. p - at \in 1..Len(b) /\ at + (p - at) = p
    BY <1>1, <1>2, <1>3, <1>9, <2>1
  <2>3. b[p - at] = list[p]
    BY <1>6, <2>2
  <2> QED
    BY <1>5, <2>2, <2>3
<1>10. Len(b) < BatchSize => \A p \in DOMAIN list : p =< at + BatchSize
  <2> SUFFICES ASSUME Len(b) < BatchSize, NEW p \in DOMAIN list PROVE p =< at + BatchSize
    OBVIOUS
  <2>1. to # at + BatchSize
    BY <1>1, <1>2, <1>3
  <2>2. p =< to
    BY <1>1, <1>4, <2>1
  <2> QED
    BY <1>1, <1>2, <2>2
<1>11. b = <<>> => \A p \in DOMAIN list : p =< at
  <2> SUFFICES ASSUME b = <<>> PROVE \A p \in DOMAIN list : p =< at
    OBVIOUS
  <2>1. Len(b) = 0
    OBVIOUS
  <2>2. to =< at
    BY <1>1, <1>2, <1>3, <2>1
  <2>3. to = Len(list)
    BY <1>1, <1>4, <2>2
  <2> QED
    BY <1>1, <2>2, <2>3
<1>12. IsBatch(list, at, had, b)
  BY <1>3, <1>7, <1>8, <1>9, <1>10, <1>11 DEF IsBatch
<1> QED
  BY <1>12 DEF b

(* The callback takes a batch, and the offset goes on unless it was empty.   *)
LEMMA BatchIsSent ==
  ASSUME NEW list \in Seq(Rows), Apart(list), NEW at, NEW had, NEW sent, NEW batch,
         SentUpTo(list, at, had, sent), IsBatch(list, at, had, batch)
  PROVE  SentUpTo(list, IF batch = <<>> THEN at ELSE at + BatchSize, had, sent \o batch)
<1> DEFINE all == sent \o batch
           to == IF batch = <<>> THEN at ELSE at + BatchSize
<1>1. /\ sent \in Seq(Rows) /\ batch \in Seq(Rows) /\ at \in Nat /\ BatchSize \in Nat \ {0}
      /\ Len(sent) \in Nat /\ Len(batch) \in Nat
      /\ DOMAIN sent = 1..Len(sent) /\ DOMAIN batch = 1..Len(batch)
      /\ DOMAIN list = 1..Len(list) /\ Len(list) \in Nat
  BY BackupStreamAssumption, LenProperties DEF SentUpTo, IsBatch
<1>2. /\ all \in Seq(Rows) /\ Len(all) = Len(sent) + Len(batch)
      /\ \A i \in 1..(Len(sent) + Len(batch)) :
            all[i] = IF i =< Len(sent) THEN sent[i] ELSE batch[i - Len(sent)]
  BY <1>1, ConcatProperties
<1> HIDE DEF all
<1>3. DOMAIN all = 1..(Len(sent) + Len(batch))
  BY <1>2, LenProperties
<1>4. to \in Nat /\ at =< to
  BY <1>1
<1>5. ASSUME NEW i \in DOMAIN all
      PROVE  \E p \in DOMAIN list : /\ p =< to /\ list[p] = all[i]
                                    /\ i =< Len(sent) <=> p =< at
  <2>1. CASE i =< Len(sent)
    <3>1. i \in DOMAIN sent /\ all[i] = sent[i]
      BY <1>1, <1>2, <1>3, <2>1
    <3>2. PICK p \in DOMAIN list : p =< at /\ list[p] = sent[i]
      BY <3>1 DEF SentUpTo
    <3> QED
      BY <1>1, <1>4, <2>1, <3>1, <3>2
  <2>2. CASE ~ (i =< Len(sent))
    <3>1. i - Len(sent) \in DOMAIN batch /\ all[i] = batch[i - Len(sent)]
      BY <1>1, <1>2, <1>3, <2>2
    <3>2. PICK p \in DOMAIN list : at < p /\ p =< at + BatchSize /\ list[p] = batch[i - Len(sent)]
      BY <3>1 DEF IsBatch
    <3>3. batch # <<>>
      BY <1>1, <3>1
    <3>4. p =< to /\ ~ (p =< at)
      BY <1>1, <3>2, <3>3
    <3> HIDE DEF to
    <3> QED
      BY <2>2, <3>1, <3>2, <3>4
  <2> QED
    BY <2>1, <2>2
<1>6. Apart(all)
  <2> SUFFICES ASSUME NEW i \in DOMAIN all, NEW j \in DOMAIN all, all[i] = all[j] PROVE i = j
    BY DEF Apart
  <2>1. i =< Len(sent) <=> j =< Len(sent)
    <3>1. PICK p \in DOMAIN list : list[p] = all[i] /\ (i =< Len(sent) <=> p =< at)
      BY <1>5
    <3>2. PICK q \in DOMAIN list : list[q] = all[j] /\ (j =< Len(sent) <=> q =< at)
      BY <1>5
    <3>3. p = q
      BY <3>1, <3>2 DEF Apart
    <3> QED
      BY <3>1, <3>2, <3>3
  <2>2. CASE i =< Len(sent)
    <3>1. i \in DOMAIN sent /\ j \in DOMAIN sent /\ sent[i] = sent[j]
      BY <1>1, <1>2, <1>3, <2>1, <2>2
    <3> QED
      BY <3>1 DEF Apart, SentUpTo
  <2>3. CASE ~ (i =< Len(sent))
    <3>1. ~ (i =< Len(sent)) /\ ~ (j =< Len(sent)) /\ i \in Int /\ j \in Int
      BY <1>3, <2>1, <2>3
    <3>2. i - Len(sent) \in DOMAIN batch /\ j - Len(sent) \in DOMAIN batch
      BY <1>1, <1>3, <3>1
    <3>3. batch[i - Len(sent)] = batch[j - Len(sent)]
      BY <1>2, <1>3, <3>1
    <3>4. i - Len(sent) = j - Len(sent)
      BY <3>2, <3>3 DEF Apart, IsBatch
    <3> QED
      BY <1>1, <3>1, <3>4
  <2> QED
    BY <2>2, <2>3
<1>7. ASSUME NEW p \in DOMAIN list, p =< to, list[p] \in had
      PROVE  \E i \in DOMAIN all : all[i] = list[p]
  <2>1. CASE p =< at
    <3>1. PICK i \in DOMAIN sent : sent[i] = list[p]
      BY <1>7, <2>1 DEF SentUpTo
    <3>2. i \in DOMAIN all /\ all[i] = sent[i]
      BY <1>1, <1>2, <1>3
    <3> QED
      BY <3>1, <3>2
  <2>2. CASE ~ (p =< at)
    <3>1. at < p /\ p =< at + BatchSize
      BY <1>1, <1>7, <2>2
    <3>2. PICK i \in DOMAIN batch : batch[i] = list[p]
      BY <1>7, <3>1 DEF IsBatch
    <3>3. /\ Len(sent) + i \in DOMAIN all /\ ~ (Len(sent) + i =< Len(sent))
          /\ (Len(sent) + i) - Len(sent) = i
      BY <1>1, <1>3
    <3>4. all[Len(sent) + i] = batch[i]
      BY <1>2, <1>3, <3>3
    <3> QED
      BY <3>2, <3>3, <3>4
  <2> QED
    BY <2>1, <2>2
<1>8. SentUpTo(list, to, had, all)
  <2>1. \A i \in DOMAIN all : \E p \in DOMAIN list : p =< to /\ list[p] = all[i]
    BY <1>5
  <2>2. had \subseteq Range(list)
    BY DEF SentUpTo
  <2> HIDE DEF to
  <2> QED
    BY <1>2, <1>4, <1>6, <1>7, <2>1, <2>2 DEF SentUpTo
<1> QED
  BY <1>8 DEF all

(* A row arrives at the end of the table.                                    *)
LEMMA ArrivesLater ==
  ASSUME NEW list \in Seq(Rows), NEW m \in Rows, m \notin Range(list), Apart(list)
  PROVE  /\ Append(list, m) \in Seq(Rows) /\ Apart(Append(list, m))
         /\ \A at, had, sent : SentUpTo(list, at, had, sent) => SentUpTo(Append(list, m), at, had, sent)
         /\ \A at, had, batch : at \in Nat /\ had \subseteq Range(list) /\ IsBatch(list, at, had, batch)
                                   => IsBatch(Append(list, m), at, had, batch)
<1> DEFINE more == Append(list, m)
<1>1. /\ more \in Seq(Rows) /\ Len(more) = Len(list) + 1
      /\ \A i \in 1..Len(list) : more[i] = list[i]
      /\ more[Len(list) + 1] = m
  BY AppendProperties
<1> HIDE DEF more
<1>2. /\ DOMAIN list = 1..Len(list) /\ DOMAIN more = 1..(Len(list) + 1) /\ Len(list) \in Nat
  BY <1>1, LenProperties
<1>3. \A p \in DOMAIN list : p \in DOMAIN more /\ more[p] = list[p]
  BY <1>1, <1>2
<1>4. \A p \in DOMAIN more : p \in DOMAIN list \/ more[p] = m
  BY <1>1, <1>2
<1>5. \A p \in DOMAIN list : list[p] # m
  BY DEF Range
<1>6. Apart(more)
  <2>1. \A p \in DOMAIN more : p \in DOMAIN list \/ p = Len(list) + 1
    BY <1>2
  <2> QED
    BY <1>1, <1>3, <1>5, <2>1 DEF Apart
<1>7. Range(list) \subseteq Range(more)
  BY <1>3 DEF Range
<1>8. ASSUME NEW at, NEW had, NEW sent, SentUpTo(list, at, had, sent)
      PROVE  SentUpTo(more, at, had, sent)
  <2>1. /\ \A i \in DOMAIN sent : \E p \in DOMAIN more : p =< at /\ more[p] = sent[i]
        /\ had \subseteq Range(list)
    BY <1>3, <1>8 DEF SentUpTo
  <2>2. \A p \in DOMAIN more : more[p] \in had => p \in DOMAIN list
    BY <1>4, <2>1
  <2> QED
    BY <1>3, <1>7, <1>8, <2>1, <2>2 DEF SentUpTo
<1>9. ASSUME NEW at, NEW had, NEW batch, at \in Nat, had \subseteq Range(list),
             IsBatch(list, at, had, batch)
      PROVE  IsBatch(more, at, had, batch)
  <2>1. \A i \in DOMAIN batch :
           \E p \in DOMAIN more : at < p /\ p =< at + BatchSize /\ more[p] = batch[i]
    BY <1>3, <1>9 DEF IsBatch
  <2>2. \A p \in DOMAIN more : more[p] \in had => p \in DOMAIN list
    BY <1>4, <1>9
  <2> QED
    BY <1>3, <1>9, <2>1, <2>2 DEF IsBatch
<1> QED
  BY <1>1, <1>6, <1>8, <1>9 DEF more

LEMMA CountsInStream == \A T : Stream!Cardinality(T) = Cardinality(T)
  BY Zenon DEF Stream!Cardinality, Cardinality

(* A short batch is the last.                                                *)
LEMMA ShortIsLast ==
  ASSUME NEW list \in Seq(Rows), Apart(list), NEW at, NEW had, NEW sent, NEW batch,
         SentUpTo(list, at, had, sent), IsBatch(list, at, had, batch), Len(batch) < BatchSize
  PROVE  Stream!Once(had, sent \o batch)
<1> DEFINE all == sent \o batch
           to == IF batch = <<>> THEN at ELSE at + BatchSize
<1>1. SentUpTo(list, to, had, all)
  BY BatchIsSent
<1>2. \A p \in DOMAIN list : list[p] \in had => p =< to
  BY DEF IsBatch
<1> HIDE DEF all, to
<1>3. ASSUME NEW m \in had PROVE Cardinality({i \in DOMAIN all : all[i] = m}) = 1
  <2>1. PICK p \in DOMAIN list : list[p] = m
    BY <1>1 DEF SentUpTo, Range
  <2>2. PICK i \in DOMAIN all : all[i] = m
    BY <1>1, <1>2, <2>1 DEF SentUpTo
  <2>3. {k \in DOMAIN all : all[k] = m} = {i}
    BY <1>1, <2>2 DEF SentUpTo, Apart
  <2> QED
    BY <2>3, FS_Singleton
<1>4. Stream!Once(had, all)
  BY <1>3, CountsInStream DEF Stream!Once
<1> QED
  BY <1>4 DEF all

LEMMA StreamBegins == Stream!Init => StreamInv
<1> SUFFICES ASSUME Stream!Init PROVE StreamInv
  OBVIOUS
<1>1. stream = Stream!Quiet /\ began = Stream!Nothing /\ skeletons = <<>> /\ bodies = <<>>
  BY DEF Stream!Init
<1>2. <<>> \in Seq(Rows) /\ Apart(<<>>)
  BY DEF Apart
<1>3. IsStream(Stream!Quiet) /\ Stream!Quiet.step = "idle"
  BY <1>2 DEF IsStream, Stream!Quiet
<1>4. DOMAIN Stream!Nothing = {"skeletons", "bodies", "left"}
  BY DEF Stream!Nothing
<1> QED
  BY <1>1, <1>2, <1>3, <1>4 DEF StreamInv, Stream!StreamsAll

(* A call that begins has read nothing.                                      *)
LEMMA CallBegins == ASSUME StreamInv, Stream!Begin PROVE StreamInv'
<1>1. /\ stream' = [Stream!Quiet EXCEPT !.step = "skeletons"]
      /\ began' = [skeletons |-> Range(skeletons), bodies |-> Range(bodies), left |-> FALSE]
      /\ UNCHANGED <<skeletons, bodies>>
  BY DEF Stream!Begin, Stream!Range, Range
<1>2. /\ stream'.step = "skeletons" /\ stream'.sAt = 0 /\ stream'.bAt = 0
      /\ stream'.sSent = <<>> /\ stream'.bSent = <<>>
  BY <1>1 DEF Stream!Quiet
<1>3. IsStream(stream')
  <2>1. <<>> \in Seq(Rows)
    OBVIOUS
  <2> QED
    BY <1>1, <2>1 DEF IsStream, Stream!Quiet
<1>4. ASSUME NEW rows \in Seq(Rows) PROVE SentUpTo(rows, 0, Range(rows), <<>>)
  <2>1. \A p \in DOMAIN rows : ~ (p =< 0)
    BY LenProperties
  <2>2. <<>> \in Seq(Rows) /\ DOMAIN <<>> = {}
    OBVIOUS
  <2> QED
    BY <2>1, <2>2 DEF SentUpTo, Apart
<1>5. began'.skeletons = Range(skeletons) /\ began'.bodies = Range(bodies)
  BY <1>1
<1>6. StreamsOn'
  BY <1>1, <1>2, <1>4, <1>5 DEF StreamsOn, StreamInv
<1> QED
  BY <1>1, <1>2, <1>3, <1>6 DEF StreamInv, Stream!StreamsAll

LEMMA SkeletonsAreRead == ASSUME StreamInv, Stream!ReadSkeletons PROVE StreamInv'
<1> DEFINE read == Stream!Batch(skeletons, stream.sAt)
<1>1. /\ stream' = [stream EXCEPT !.step = "bodies", !.batch = read]
      /\ UNCHANGED <<skeletons, bodies, began>> /\ stream.step = "skeletons"
  BY DEF Stream!ReadSkeletons
<1>3. IsBatch(skeletons, stream.sAt, {}, read) /\ read \in Seq(Rows)
  <2>1. stream.sAt \in Nat /\ skeletons \in Seq(Rows) /\ Apart(skeletons)
    BY DEF StreamInv, IsStream
  <2> DEFINE none == {}
  <2>2. none \subseteq Range(skeletons)
    OBVIOUS
  <2> HIDE DEF none
  <2>3. IsBatch(skeletons, stream.sAt, none, read)
    BY <2>1, <2>2, BatchReads
  <2> QED
    BY <2>3 DEF none, IsBatch
<1> HIDE DEF read
<1>4. /\ stream'.step = "bodies" /\ stream'.batch = read
      /\ stream'.sAt = stream.sAt /\ stream'.bAt = stream.bAt
      /\ stream'.sSent = stream.sSent /\ stream'.bSent = stream.bSent
      /\ IsStream(stream')
  BY <1>1, <1>3 DEF StreamInv, IsStream
<1>5. ASSUME ~began.left PROVE StreamsOn'
  <2>1. StreamsOn
    BY <1>1, <1>5 DEF StreamInv
  <2>2. IsBatch(skeletons, stream.sAt, began.skeletons, read)
    BY <2>1, BatchReads DEF StreamsOn, SentUpTo, StreamInv, read
  <2> QED
    BY <1>1, <1>4, <2>1, <2>2 DEF StreamsOn
<1> QED
  BY <1>1, <1>4, <1>5 DEF StreamInv, Stream!StreamsAll

LEMMA BatchGoesOut == ASSUME StreamInv, Stream!Send PROVE StreamInv'
<1> DEFINE read == Stream!Batch(bodies, stream.bAt)
           sTo == IF stream.batch = <<>> THEN stream.sAt ELSE stream.sAt + BatchSize
           bTo == IF read = <<>> THEN stream.bAt ELSE stream.bAt + BatchSize
           short == Len(stream.batch) < BatchSize /\ Len(read) < BatchSize
<1>1. /\ stream' = [stream EXCEPT
             !.step = IF short THEN "done" ELSE "skeletons", !.sAt = sTo, !.bAt = bTo,
             !.sSent = stream.sSent \o stream.batch, !.bSent = stream.bSent \o read,
             !.batch = <<>>]
      /\ UNCHANGED <<skeletons, bodies, began>> /\ stream.step = "bodies"
  BY DEF Stream!Send
<1>2. read \in Seq(Rows)
  <2>1. stream.bAt \in Nat /\ bodies \in Seq(Rows) /\ Apart(bodies)
    BY DEF StreamInv, IsStream
  <2> DEFINE none == {}
  <2>2. none \subseteq Range(bodies)
    OBVIOUS
  <2> HIDE DEF none
  <2>3. IsBatch(bodies, stream.bAt, none, read)
    BY <2>1, <2>2, BatchReads
  <2> QED
    BY <2>3 DEF IsBatch
<1>3. /\ stream.sSent \o stream.batch \in Seq(Rows) /\ stream.bSent \o read \in Seq(Rows)
      /\ <<>> \in Seq(Rows)
  BY <1>2, ConcatProperties DEF StreamInv, IsStream
<1>4. sTo \in Nat /\ bTo \in Nat
  BY BackupStreamAssumption DEF StreamInv, IsStream
<1>5. ASSUME ~began.left
      PROVE  /\ SentUpTo(skeletons, sTo, began.skeletons, stream.sSent \o stream.batch)
             /\ SentUpTo(bodies, bTo, began.bodies, stream.bSent \o read)
             /\ short => /\ Stream!Once(began.skeletons, stream.sSent \o stream.batch)
                         /\ Stream!Once(began.bodies, stream.bSent \o read)
  <2>1. StreamsOn
    BY <1>1, <1>5 DEF StreamInv
  <2>2. IsBatch(bodies, stream.bAt, began.bodies, read)
    BY <2>1, BatchReads DEF StreamsOn, SentUpTo, StreamInv
  <2>3. IsBatch(skeletons, stream.sAt, began.skeletons, stream.batch)
    BY <1>1, <2>1 DEF StreamsOn
  <2>4. /\ skeletons \in Seq(Rows) /\ bodies \in Seq(Rows) /\ Apart(skeletons) /\ Apart(bodies)
        /\ SentUpTo(skeletons, stream.sAt, began.skeletons, stream.sSent)
        /\ SentUpTo(bodies, stream.bAt, began.bodies, stream.bSent)
    BY <2>1 DEF StreamsOn, StreamInv
  <2> HIDE DEF read
  <2>5. SentUpTo(skeletons, sTo, began.skeletons, stream.sSent \o stream.batch)
    BY <2>3, <2>4, BatchIsSent
  <2>6. SentUpTo(bodies, bTo, began.bodies, stream.bSent \o read)
    BY <2>2, <2>4, BatchIsSent
  <2>7. ASSUME short PROVE Stream!Once(began.skeletons, stream.sSent \o stream.batch)
    BY <2>3, <2>4, <2>7, ShortIsLast
  <2>8. ASSUME short PROVE Stream!Once(began.bodies, stream.bSent \o read)
    BY <2>2, <2>4, <2>8, ShortIsLast
  <2> QED
    BY <2>5, <2>6, <2>7, <2>8
<1> HIDE DEF read, sTo, bTo, short
<1>6. /\ stream'.step = IF short THEN "done" ELSE "skeletons"
      /\ stream'.sAt = sTo /\ stream'.bAt = bTo
      /\ stream'.sSent = stream.sSent \o stream.batch /\ stream'.bSent = stream.bSent \o read
      /\ IsStream(stream')
  BY <1>1, <1>3, <1>4 DEF StreamInv, IsStream
<1>7. ~began'.left /\ stream'.step \in {"skeletons", "bodies"} => StreamsOn'
  BY <1>1, <1>5, <1>6 DEF StreamsOn
<1>8. Stream!StreamsAll'
  <2>1. stream'.step = "done" => short
    BY <1>6
  <2> QED
    BY <1>1, <1>5, <1>6, <2>1 DEF Stream!StreamsAll
<1> QED
  BY <1>1, <1>6, <1>7, <1>8 DEF StreamInv

LEMMA RowComes == ASSUME StreamInv, NEW m \in Rows, Stream!Ingest(m) PROVE StreamInv'
<1>1. /\ m \notin Range(skeletons) /\ m \notin Range(bodies)
      /\ skeletons' = Append(skeletons, m)
      /\ bodies' = bodies \/ bodies' = Append(bodies, m)
      /\ UNCHANGED <<stream, began>>
  BY DEF Stream!Ingest, Stream!Came, Stream!Range, Range
<1>2. skeletons \in Seq(Rows) /\ bodies \in Seq(Rows) /\ Apart(skeletons) /\ Apart(bodies)
  BY DEF StreamInv
<1>3. skeletons' \in Seq(Rows) /\ Apart(skeletons')
  BY <1>1, <1>2, ArrivesLater
<1>4. bodies' \in Seq(Rows) /\ Apart(bodies')
  BY <1>1, <1>2, ArrivesLater
<1>5. ASSUME StreamsOn PROVE StreamsOn'
  <2>1. SentUpTo(skeletons', stream.sAt, began.skeletons, stream.sSent)
    BY <1>1, <1>2, <1>5, ArrivesLater DEF StreamsOn
  <2>2. SentUpTo(bodies', stream.bAt, began.bodies, stream.bSent)
    BY <1>1, <1>2, <1>5, ArrivesLater DEF StreamsOn
  <2>3. ASSUME stream.step = "bodies"
        PROVE  IsBatch(skeletons', stream.sAt, began.skeletons, stream.batch)
    <3>1. stream.sAt \in Nat /\ began.skeletons \subseteq Range(skeletons)
      BY <1>5 DEF StreamsOn, SentUpTo
    <3>2. IsBatch(skeletons, stream.sAt, began.skeletons, stream.batch)
      BY <1>5, <2>3 DEF StreamsOn
    <3> QED
      BY <1>1, <1>2, <3>1, <3>2, ArrivesLater
  <2> QED
    BY <1>1, <2>1, <2>2, <2>3 DEF StreamsOn
<1> QED
  BY <1>1, <1>3, <1>4, <1>5 DEF StreamInv, Stream!StreamsAll

LEMMA RowLeaves == ASSUME StreamInv, NEW m \in Rows, Stream!Leave(m) PROVE StreamInv'
<1>1. /\ \/ \E i \in DOMAIN skeletons : skeletons' = Stream!RemoveAt(skeletons, i) /\ bodies' = bodies
         \/ \E i \in DOMAIN bodies : bodies' = Stream!RemoveAt(bodies, i) /\ skeletons' = skeletons
      /\ began' = [began EXCEPT !.left = TRUE]
      /\ stream' = stream
  BY DEF Stream!Leave
<1>2. skeletons \in Seq(Rows) /\ bodies \in Seq(Rows) /\ Apart(skeletons) /\ Apart(bodies)
  BY DEF StreamInv
<1>3. skeletons' \in Seq(Rows) /\ bodies' \in Seq(Rows) /\ Apart(skeletons') /\ Apart(bodies')
  BY <1>1, <1>2, TakenOut
<1>4. DOMAIN began' = {"skeletons", "bodies", "left"} /\ began'.left
  BY <1>1 DEF StreamInv
<1> QED
  BY <1>1, <1>3, <1>4 DEF StreamInv, Stream!StreamsAll

LEMMA StreamNext == StreamInv /\ [Stream!Next]_streamVars => StreamInv'
<1> SUFFICES ASSUME StreamInv, [Stream!Next]_streamVars PROVE StreamInv'
  OBVIOUS
<1>1. CASE UNCHANGED streamVars
  BY <1>1 DEF streamVars, StreamInv, StreamsOn, Stream!StreamsAll
<1>2. CASE Stream!CallbackFails
  <2>1. stream' = Stream!Quiet /\ UNCHANGED <<skeletons, bodies, began>>
    BY <1>2 DEF Stream!CallbackFails
  <2>2. IsStream(Stream!Quiet) /\ Stream!Quiet.step = "idle"
    BY DEF IsStream, Stream!Quiet
  <2> QED
    BY <2>1, <2>2 DEF StreamInv, Stream!StreamsAll
<1> QED
  BY <1>1, <1>2, CallBegins, SkeletonsAreRead, BatchGoesOut, RowComes, RowLeaves
  DEF Stream!Next, streamVars

(* StreamsAll: a batched backup reads every row that was there when it began *)
(* once, whatever arrives between its queries and however large the batches  *)
(* are, if no row leaves (stream_backup_batches).                            *)
THEOREM BatchesReadAll == Spec => []StreamsAll
<1>1. Init => StreamInv
  BY StreamBegins DEF Init
<1>2. StreamInv /\ [Next]_vars => StreamInv'
  BY PartsMove, StreamNext
<1>3. StreamInv => StreamsAll
  BY DEF StreamInv, StreamsAll
<1> QED
  BY <1>1, <1>2, <1>3, PTL DEF Spec

--------------------------------------------------------------------------------

LEMMA CountsInPages == \A T : Pages!Cardinality(T) = Cardinality(T)
  BY Zenon DEF Pages!Cardinality, Cardinality

(* The messages that have come, the deleted ones among them.                 *)
Arrived == {m \in TimelineIds : createdAt[m] > 0}

ShownOnce(m) == \E i \in DOMAIN pager.shown : \A j \in DOMAIN pager.shown : pager.shown[j] = m <=> j = i
NotShown(m) == \A i \in DOMAIN pager.shown : pager.shown[i] # m

PagesInv ==
    /\ seeded \subseteq {Pages!Canonical}
    /\ createdAt \in [TimelineIds -> Nat]
    /\ \A m \in TimelineIds : createdAt[m] \in Times \cup {0}
    /\ IsFiniteSet(Arrived)
    /\ \A m, k \in Arrived : createdAt[m] = createdAt[k] => m = k
    /\ pager \in [step : {"idle", "paging", "done"}, spelling : Pages!Spellings, before : Int,
                  shown : Seq(TimelineIds)]
    /\ there \subseteq Pages!Live
    /\ pager.step = "paging" => \A m \in there :
          IF createdAt[m] < pager.before THEN NotShown(m) ELSE ShownOnce(m)
    /\ pager.step = "done" => \A m \in there : ShownOnce(m)

(* The rows of a page one after the other.                                   *)
LEMMA PageIsList ==
  ASSUME NEW S, NEW T, T \subseteq S, IsFiniteSet(T)
  PROVE  /\ Pages!SetToSeq(T) \in Seq(S)
         /\ \A i, j \in DOMAIN Pages!SetToSeq(T) :
               Pages!SetToSeq(T)[i] = Pages!SetToSeq(T)[j] => i = j
         /\ \A i \in DOMAIN Pages!SetToSeq(T) : Pages!SetToSeq(T)[i] \in T
         /\ \A t \in T : \E i \in DOMAIN Pages!SetToSeq(T) : Pages!SetToSeq(T)[i] = t
<1> DEFINE n == Cardinality(T)
           list == Pages!SetToSeq(T)
<1>1. n \in Nat /\ ExistsBijection(1..n, T)
  BY FS_CardinalityType
<1>2. PICK g \in Bijection(1..n, T) : TRUE
  BY <1>1 DEF ExistsBijection
<1>3. g \in [1..n -> T] /\ \A a, b \in 1..n : g[a] = g[b] => a = b
  BY <1>2 DEF Bijection, Injection, IsInjective
<1>4. g \in [1..n -> T] /\ Pages!IsInjective(g)
  BY <1>3 DEF Pages!IsInjective
<1>5. list = CHOOSE f \in [1..n -> T] : Pages!IsInjective(f)
  BY CountsInPages DEF Pages!SetToSeq
<1> HIDE DEF list, n
<1>6. list \in [1..n -> T] /\ Pages!IsInjective(list)
  BY <1>4, <1>5
<1>7. \A i, j \in 1..n : list[i] = list[j] => i = j
  BY <1>6 DEF Pages!IsInjective
<1>8. list \in Injection(1..n, T)
  BY <1>6, <1>7, Fun_IsInj
<1>9. IsFiniteSet(1..n) /\ Cardinality(1..n) = n
  BY <1>1, FS_Interval
<1>10. list \in Surjection(1..n, T)
  <2>1. Cardinality(1..n) = Cardinality(T)
    BY <1>9 DEF n
  <2> QED
    BY <1>8, <2>1, FS_Injection
<1>11. \A t \in T : \E i \in 1..n : list[i] = t
  BY <1>10 DEF Surjection
<1>12. list \in Seq(S)
  BY <1>1, <1>6
<1>13. DOMAIN list = 1..n
  BY <1>6
<1> QED
  BY <1>6, <1>7, <1>11, <1>12, <1>13 DEF list

LEMMA TimesEnd ==
  /\ Pages!Max(Times) + 1 \in Int
  /\ \A t \in Times : t < Pages!Max(Times) + 1
<1> DEFINE last == Pages!Max(Times)
<1>1. PICK t \in Times : \A u \in Times : u =< t
  BY TimelineAssumption
<1>2. \A u \in Times : t >= u
  BY <1>1, TimelineAssumption
<1>3. last = CHOOSE x \in Times : \A y \in Times : x >= y
  BY DEF Pages!Max
<1> HIDE DEF last
<1>4. last \in Times /\ \A u \in Times : last >= u
  BY <1>2, <1>3
<1>5. last \in Int /\ \A u \in Times : u < last + 1
  BY <1>4, TimelineAssumption
<1> QED
  BY <1>5 DEF last

LEMMA LeastTime ==
  ASSUME NEW S \in SUBSET Nat, S # {}
  PROVE  Pages!Min(S) \in S /\ \A t \in S : Pages!Min(S) =< t
<1>1. PICK n \in S : \A m \in S : n =< m
  BY LeastOf
<1> QED
  BY <1>1 DEF Pages!Min

LEMMA PagesBegin == ASSUME Binding = "uniffi", Distinct PROVE Pages!Init => PagesInv
<1> SUFFICES ASSUME Pages!Init PROVE PagesInv
  OBVIOUS
<1>1. /\ createdAt = [m \in TimelineIds |-> 0] /\ seeded = {} /\ there = {}
      /\ pager = Pages!Unread
  BY DEF Pages!Init
<1>2. Arrived = {}
  BY <1>1 DEF Arrived
<1>3. IsFiniteSet(Arrived)
  BY <1>2, FS_EmptySet
<1>4. /\ Pages!Unread \in [step : {"idle", "paging", "done"}, spelling : Pages!Spellings,
                           before : Int, shown : Seq(TimelineIds)]
      /\ Pages!Unread.step = "idle"
  <2>1. <<>> \in Seq(TimelineIds)
    OBVIOUS
  <2> QED
    BY <2>1, TimesEnd DEF Pages!Unread, Pages!Spellings, Pages!Canonical
<1> QED
  BY <1>1, <1>2, <1>3, <1>4 DEF PagesInv

LEMMA MessageArrives ==
  ASSUME PagesInv, Distinct, NEW m \in TimelineIds, NEW time \in Times, Pages!Arrive(m, time)
  PROVE  PagesInv'
<1>1. /\ createdAt[m] = 0 /\ \A k \in TimelineIds : createdAt[k] # time
      /\ createdAt' = [createdAt EXCEPT ![m] = time]
      /\ UNCHANGED <<seeded, tombstones, pager, there>>
  BY DEF Pages!Arrive
<1>2. time \in Nat /\ time > 0
  BY TimelineAssumption
<1>3. /\ createdAt' \in [TimelineIds -> Nat]
      /\ createdAt'[m] = time /\ \A k \in TimelineIds \ {m} : createdAt'[k] = createdAt[k]
  BY <1>1, <1>2 DEF PagesInv
<1>4. Arrived' = Arrived \cup {m}
  BY <1>2, <1>3 DEF Arrived, PagesInv
<1>5. IsFiniteSet(Arrived')
  BY <1>4, FS_AddElement DEF PagesInv
<1>6. \A i, k \in Arrived' : createdAt'[i] = createdAt'[k] => i = k
  BY <1>1, <1>3, <1>4 DEF PagesInv, Arrived
<1>7. m \notin there /\ there \subseteq TimelineIds
  BY <1>1 DEF PagesInv, Pages!Live
<1>8. there \subseteq Pages!Live'
  BY <1>1, <1>3, <1>7 DEF PagesInv, Pages!Live
<1>9. \A k \in there : createdAt'[k] = createdAt[k]
  BY <1>3, <1>7
<1>10. \A k \in TimelineIds : createdAt'[k] \in Times \cup {0}
  BY <1>3 DEF PagesInv
<1> QED
  BY <1>1, <1>3, <1>5, <1>6, <1>8, <1>9, <1>10 DEF PagesInv, NotShown, ShownOnce

LEMMA MessageLeaves ==
  ASSUME PagesInv, NEW m \in TimelineIds, Pages!Delete(m)
  PROVE  PagesInv'
<1>1. /\ tombstones' = tombstones \cup {m} /\ there' = there \ {m}
      /\ UNCHANGED <<seeded, createdAt, pager>>
  BY DEF Pages!Delete
<1>2. there' \subseteq Pages!Live'
  BY <1>1 DEF PagesInv, Pages!Live
<1> QED
  BY <1>1, <1>2 DEF PagesInv, NotShown, ShownOnce, Arrived

LEMMA AllIsCleared == ASSUME PagesInv, Pages!Clear PROVE PagesInv'
<1>1. /\ seeded' = {} /\ createdAt' = [m \in TimelineIds |-> 0] /\ there' = {}
      /\ pager' = pager
  BY DEF Pages!Clear
<1>2. Arrived' = {}
  BY <1>1 DEF Arrived
<1>3. IsFiniteSet(Arrived')
  BY <1>2, FS_EmptySet
<1> QED
  BY <1>1, <1>2, <1>3 DEF PagesInv

LEMMA HostOpens ==
  ASSUME PagesInv, NEW s \in Pages!Spellings, Pages!Open(s)
  PROVE  PagesInv'
<1>1. /\ pager' = [Pages!Unread EXCEPT !.step = "paging", !.spelling = s]
      /\ there' = Pages!Live /\ UNCHANGED <<seeded, createdAt, tombstones>>
  BY DEF Pages!Open
<1>2. <<>> \in Seq(TimelineIds)
  OBVIOUS
<1>3. /\ pager' \in [step : {"idle", "paging", "done"}, spelling : Pages!Spellings,
                     before : Int, shown : Seq(TimelineIds)]
      /\ pager'.step = "paging" /\ pager'.shown = <<>> /\ pager'.before = Pages!Max(Times) + 1
  BY <1>1, <1>2, TimesEnd DEF Pages!Unread
<1>4. Pages!Live' = Pages!Live
  BY <1>1 DEF Pages!Live
<1>5. ASSUME NEW m \in there' PROVE createdAt'[m] < pager'.before /\ NotShown(m)'
  <2>1. m \in TimelineIds /\ createdAt[m] > 0
    BY <1>1, <1>5 DEF Pages!Live
  <2>2. createdAt[m] \in Times
    BY <2>1 DEF PagesInv
  <2> QED
    BY <1>1, <1>3, <2>2, TimesEnd DEF NotShown
<1> QED
  BY <1>1, <1>3, <1>4, <1>5 DEF PagesInv, Arrived

(* A page that is shown: what is in it was not shown before, what is newer   *)
(* than its oldest and not in it is gone, and what is older comes later.     *)
LEMMA PageComes ==
  ASSUME PagesInv, Binding = "uniffi", Pages!FetchPage
  PROVE  PagesInv'
<1> DEFINE earlier == {m \in Pages!RowsOf(pager.spelling) : createdAt[m] < pager.before}
           size == IF Pages!Cardinality(earlier) < PageSize THEN Pages!Cardinality(earlier) ELSE PageSize
<1>1. pager.step = "paging" /\ UNCHANGED <<seeded, createdAt, tombstones, there>>
  BY DEF Pages!FetchPage
<1>2. PICK page \in SUBSET earlier :
          /\ Pages!Cardinality(page) = size
          /\ \A m \in page, k \in earlier \ page : createdAt[m] >= createdAt[k]
          /\ pager' = IF page = {} THEN [pager EXCEPT !.step = "done"]
                      ELSE [pager EXCEPT !.before = Pages!Min({createdAt[m] : m \in page}),
                                         !.shown = pager.shown \o Pages!SetToSeq(page)]
  BY DEF Pages!FetchPage
<1>3. Pages!RowsOf(pager.spelling) = Pages!Live
  BY DEF Pages!RowsOf, Pages!Key
<1>4. /\ earlier \subseteq Arrived /\ IsFiniteSet(earlier)
      /\ \A m \in there : createdAt[m] < pager.before => m \in earlier
  <2>1. earlier \subseteq Arrived
    BY <1>3 DEF Pages!Live, Arrived
  <2> QED
    BY <1>3, <2>1, FS_Subset DEF PagesInv
<1>5. size = 0 => earlier = {}
  BY <1>4, FS_EmptySet, CountsInPages, TimelineAssumption
<1> HIDE DEF earlier, size
<1>6. /\ createdAt \in [TimelineIds -> Nat] /\ Arrived \subseteq TimelineIds
      /\ there \subseteq TimelineIds
      /\ pager.before \in Int /\ pager.shown \in Seq(TimelineIds)
      /\ \A m \in there :
            IF createdAt[m] < pager.before THEN NotShown(m) ELSE ShownOnce(m)
  BY <1>1 DEF PagesInv, Arrived, Pages!Live
<1>7. CASE page = {}
  <2>1. earlier = {}
    BY <1>2, <1>5, <1>7, FS_EmptySet, CountsInPages
  <2>2. \A m \in there : ShownOnce(m)
    BY <1>4, <1>6, <2>1
  <2>3. /\ pager' \in [step : {"idle", "paging", "done"}, spelling : Pages!Spellings,
                       before : Int, shown : Seq(TimelineIds)]
        /\ pager'.step = "done" /\ pager'.shown = pager.shown
    BY <1>2, <1>7 DEF PagesInv
  <2>4. Arrived' = Arrived /\ Pages!Live' = Pages!Live
    BY <1>1 DEF Arrived, Pages!Live
  <2> QED
    BY <1>1, <2>2, <2>3, <2>4 DEF PagesInv, ShownOnce
<1>8. CASE page # {}
  <2> DEFINE times == {createdAt[m] : m \in page}
             list == Pages!SetToSeq(page)
             all == pager.shown \o list
             least == Pages!Min(times)
  <2>1. page \subseteq Arrived /\ IsFiniteSet(page) /\ page \subseteq TimelineIds
    BY <1>4, <1>6, FS_Subset
  <2>2. times \in SUBSET Nat /\ times # {}
    BY <1>6, <1>8, <2>1
  <2>3. least \in times /\ \A t \in times : least =< t
    BY <2>2, LeastTime
  <2>4. PICK oldest \in page : createdAt[oldest] = least
    BY <2>3
  <2>5. /\ list \in Seq(TimelineIds)
        /\ \A i, j \in DOMAIN list : list[i] = list[j] => i = j
        /\ \A i \in DOMAIN list : list[i] \in page
        /\ \A m \in page : \E i \in DOMAIN list : list[i] = m
    BY <2>1, PageIsList
  <2>6. least \in Nat /\ least < pager.before /\ \A m \in page : least =< createdAt[m]
    <3>1. createdAt[oldest] < pager.before
      BY DEF earlier
    <3> QED
      BY <2>2, <2>3, <2>4, <3>1
  <2> HIDE DEF list, times
  <2>7. /\ all \in Seq(TimelineIds) /\ Len(all) = Len(pager.shown) + Len(list)
        /\ \A i \in 1..(Len(pager.shown) + Len(list)) :
              all[i] = IF i =< Len(pager.shown) THEN pager.shown[i] ELSE list[i - Len(pager.shown)]
    BY <1>6, <2>5, ConcatProperties
  <2> HIDE DEF all, least
  <2>8. /\ Len(pager.shown) \in Nat /\ Len(list) \in Nat
        /\ DOMAIN pager.shown = 1..Len(pager.shown) /\ DOMAIN list = 1..Len(list)
        /\ DOMAIN all = 1..(Len(pager.shown) + Len(list))
    BY <1>6, <2>5, <2>7, LenProperties
  <2>9. \A i \in DOMAIN pager.shown : i \in DOMAIN all /\ all[i] = pager.shown[i]
    BY <2>7, <2>8
  <2>10. \A i \in DOMAIN list :
            Len(pager.shown) + i \in DOMAIN all /\ all[Len(pager.shown) + i] = list[i]
    <3> TAKE i \in DOMAIN list
    <3>1. /\ Len(pager.shown) + i \in DOMAIN all /\ ~ (Len(pager.shown) + i =< Len(pager.shown))
          /\ (Len(pager.shown) + i) - Len(pager.shown) = i
      BY <2>8
    <3> QED
      BY <2>7, <2>8, <3>1
  <2>11. \A k \in DOMAIN all : \/ k \in DOMAIN pager.shown /\ all[k] = pager.shown[k]
                               \/ \E i \in DOMAIN list : k = Len(pager.shown) + i /\ all[k] = list[i]
    <3> TAKE k \in DOMAIN all
    <3>1. CASE k =< Len(pager.shown)
      BY <2>8, <2>9, <3>1
    <3>2. CASE ~ (k =< Len(pager.shown))
      <4>1. k - Len(pager.shown) \in DOMAIN list /\ k = Len(pager.shown) + (k - Len(pager.shown))
        BY <2>8, <3>2
      <4> QED
        BY <2>10, <4>1
    <3> QED
      BY <3>1, <3>2
  <2>12. /\ pager' \in [step : {"idle", "paging", "done"}, spelling : Pages!Spellings,
                        before : Int, shown : Seq(TimelineIds)]
         /\ pager'.step = "paging" /\ pager'.shown = all /\ pager'.before = least
    <3>1. pager' = [pager EXCEPT !.before = least, !.shown = all]
      BY <1>2, <1>8 DEF all, least, list, times
    <3>2. /\ pager \in [step : {"idle", "paging", "done"}, spelling : Pages!Spellings,
                       before : Int, shown : Seq(TimelineIds)]
          /\ least \in Int /\ all \in Seq(TimelineIds)
      BY <2>6, <2>7 DEF PagesInv
    <3> QED
      BY <1>1, <3>1, <3>2
  <2>13. ASSUME NEW m \in there
         PROVE  IF createdAt[m] < least THEN \A k \in DOMAIN all : all[k] # m
                ELSE \E k \in DOMAIN all : \A l \in DOMAIN all : all[l] = m <=> l = k
    <3>1. createdAt[m] \in Nat /\ m \in Arrived
      BY <1>6 DEF PagesInv, Pages!Live, Arrived
    <3>2. CASE m \in page
      <4>1. createdAt[m] < pager.before /\ ~ (createdAt[m] < least)
        BY <2>6, <3>1, <3>2 DEF earlier
      <4>2. \A k \in DOMAIN pager.shown : pager.shown[k] # m
        BY <1>6, <4>1 DEF NotShown
      <4>3. PICK i \in DOMAIN list : list[i] = m
        BY <2>5, <3>2
      <4>4. all[Len(pager.shown) + i] = m /\ Len(pager.shown) + i \in DOMAIN all
        BY <2>10, <4>3
      <4>5. ASSUME NEW l \in DOMAIN all, all[l] = m PROVE l = Len(pager.shown) + i
        <5>1. PICK j \in DOMAIN list : l = Len(pager.shown) + j /\ all[l] = list[j]
          BY <2>11, <4>2, <4>5
        <5>2. j = i
          BY <2>5, <4>3, <4>5, <5>1
        <5> QED
          BY <5>1, <5>2
      <4> QED
        BY <4>1, <4>4, <4>5
    <3>3. CASE m \notin page
      <4>1. \A i \in DOMAIN list : list[i] # m
        BY <2>5, <3>3
      <4>2. CASE createdAt[m] < pager.before
        <5>1. m \in earlier \ page
          BY <1>4, <3>3, <4>2
        <5>2. createdAt[oldest] >= createdAt[m]
          BY <1>2, <5>1
        <5>3. createdAt[oldest] # createdAt[m]
          BY <2>1, <3>1, <3>3 DEF PagesInv
        <5>4. createdAt[m] < least
          BY <2>4, <2>6, <3>1, <5>2, <5>3
        <5>5. \A k \in DOMAIN pager.shown : pager.shown[k] # m
          BY <1>6, <4>2 DEF NotShown
        <5> QED
          BY <2>11, <4>1, <5>4, <5>5
      <4>3. CASE ~ (createdAt[m] < pager.before)
        <5>1. ~ (createdAt[m] < least)
          BY <1>6, <2>6, <3>1, <4>3
        <5>2. PICK k \in DOMAIN pager.shown :
                 \A l \in DOMAIN pager.shown : pager.shown[l] = m <=> l = k
          BY <1>6, <4>3 DEF ShownOnce
        <5>3. k \in DOMAIN all /\ all[k] = m
          BY <2>9, <5>2
        <5>4. \A l \in DOMAIN all : all[l] = m => l = k
          BY <2>11, <4>1, <5>2
        <5> QED
          BY <5>1, <5>3, <5>4
      <4> QED
        BY <4>2, <4>3
    <3> QED
      BY <3>2, <3>3
  <2>14. Arrived' = Arrived /\ Pages!Live' = Pages!Live
    BY <1>1 DEF Arrived, Pages!Live
  <2>15. \A m \in there' : IF createdAt'[m] < pager'.before THEN NotShown(m)' ELSE ShownOnce(m)'
    BY <1>1, <2>12, <2>13 DEF NotShown, ShownOnce
  <2> QED
    BY <1>1, <2>12, <2>14, <2>15 DEF PagesInv
<1> QED
  BY <1>7, <1>8

LEMMA PagesNext ==
  ASSUME Binding = "uniffi", Distinct
  PROVE  PagesInv /\ [Pages!Next]_timelineVars => PagesInv'
<1> SUFFICES ASSUME PagesInv, [Pages!Next]_timelineVars PROVE PagesInv'
  OBVIOUS
<1>1. CASE UNCHANGED timelineVars
  BY <1>1 DEF timelineVars, PagesInv, Arrived, Pages!Live, NotShown, ShownOnce
<1>2. ASSUME NEW s \in Pages!Spellings, Pages!Seed(s) PROVE PagesInv'
  <2>1. /\ seeded' = seeded \cup {Pages!Canonical}
        /\ UNCHANGED <<createdAt, tombstones, pager, there>>
    BY <1>2 DEF Pages!Seed, Pages!Key
  <2> QED
    BY <2>1 DEF PagesInv, Arrived, Pages!Live, NotShown, ShownOnce
<1> QED
  BY <1>1, <1>2, MessageArrives, MessageLeaves, AllIsCleared, HostOpens, PageComes
  DEF Pages!Next, timelineVars

(* TimelineIsWhole: paging to the end shows each message of different times  *)
(* once, for any pages, messages and times, and a seeded conversation takes  *)
(* messages, with the binding that normalises its id (facade.rs).            *)
THEOREM PagingShowsAll ==
  ASSUME Binding = "uniffi", Distinct
  PROVE  Spec => []TimelineIsWhole
<1>1. Init => PagesInv
  BY PagesBegin DEF Init
<1>2. PagesInv /\ [Next]_vars => PagesInv'
  BY PartsMove, PagesNext
<1>3. PagesInv => TimelineIsWhole
  <2> SUFFICES ASSUME PagesInv PROVE TimelineIsWhole
    OBVIOUS
  <2>1. Pages!SeededTakesMessages
    BY DEF PagesInv, Pages!SeededTakesMessages
  <2>2. ASSUME pager.step = "done", NEW m \in there
        PROVE  Pages!Cardinality({i \in DOMAIN pager.shown : pager.shown[i] = m}) = 1
    <3>1. PICK i \in DOMAIN pager.shown : \A j \in DOMAIN pager.shown : pager.shown[j] = m <=> j = i
      BY <2>2 DEF PagesInv, ShownOnce
    <3>2. {j \in DOMAIN pager.shown : pager.shown[j] = m} = {i}
      BY <3>1
    <3> QED
      BY <3>2, FS_Singleton, CountsInPages
  <2> QED
    BY <2>1, <2>2 DEF TimelineIsWhole, Pages!PagesShowAll
<1> QED
  BY <1>1, <1>2, <1>3, PTL DEF Spec

--------------------------------------------------------------------------------

OneSearcher == \E t : CacheThreads = {t}

(* The stamps are those that were given, each to one entry at most, and with *)
(* one thread the stamp of the call that is under way is the latest.         *)
ShardsInv ==
    /\ counter \in Nat /\ entries \in [ShardKeys -> Nat]
    /\ \A k \in ShardKeys : entries[k] =< counter
    /\ \A j, k \in ShardCaching!Cached : entries[j] = entries[k] => j = k
    /\ IsFiniteSet(ShardCaching!Cached) /\ Cardinality(ShardCaching!Cached) =< MaxEntries
    /\ DOMAIN lookup = CacheThreads
    /\ \A t \in CacheThreads :
          lookup[t].method # "none" =>
             /\ lookup[t].key \in ShardKeys
             /\ lookup[t].ts \in 1..counter
             /\ \A k \in ShardKeys : entries[k] < lookup[t].ts

(* Which entries were used before which.                                     *)
Older ==
    [m \in ShardCaching!Cached |-> {j \in ShardCaching!Cached : entries[j] < entries[m]}]

(* Some keys stay and one of them, or a new one, gets the latest stamp.      *)
Touches(k, stay, ts) ==
    /\ k \in ShardKeys /\ stay \subseteq ShardCaching!Cached /\ ts \in 1..counter
    /\ \A j \in ShardKeys : entries[j] < ts
    /\ Cardinality(stay \cup {k}) =< MaxEntries
    /\ entries' = [j \in ShardKeys |-> IF j = k THEN ts ELSE IF j \in stay THEN entries[j] ELSE 0]
    /\ counter' = counter /\ DOMAIN lookup' = CacheThreads
    /\ \A t \in CacheThreads : lookup'[t].method = "none"

IsLast(k, stay) ==
    Older' = [m \in stay \cup {k} |-> IF m = k THEN stay \ {k} ELSE Older[m] \cap (stay \ {k})]

LEMMA CountsInShards ==
  \A T : /\ ShardCaching!Cardinality(T) = Cardinality(T)
         /\ ShardCaching!Lru!Cardinality(T) = Cardinality(T)
  BY Zenon DEF ShardCaching!Cardinality, ShardCaching!Lru!Cardinality, Cardinality

LEMMA HeldIsCached == ShardCaching!Lru!Held = ShardCaching!Cached
  BY DEF ShardCaching!Lru!Held

LEMMA TouchedIsLast ==
  ASSUME NEW k, NEW stay, NEW ts, ShardsInv, Touches(k, stay, ts)
  PROVE  ShardsInv' /\ IsLast(k, stay)
<1> DEFINE after == stay \cup {k}
<1>1. /\ counter \in Nat /\ entries \in [ShardKeys -> Nat]
      /\ \A j \in ShardKeys : entries[j] =< counter
      /\ \A i, j \in ShardCaching!Cached : entries[i] = entries[j] => i = j
      /\ IsFiniteSet(ShardCaching!Cached)
  BY DEF ShardsInv
<1>2. /\ k \in ShardKeys /\ ts \in Nat /\ ts > 0 /\ ts =< counter
      /\ stay \subseteq ShardKeys /\ \A j \in stay : entries[j] > 0
  BY <1>1 DEF Touches, ShardCaching!Cached
<1>3. /\ entries' \in [ShardKeys -> Nat] /\ entries'[k] = ts
      /\ \A j \in stay \ {k} : entries'[j] = entries[j] /\ entries[j] < ts
      /\ \A j \in ShardKeys \ after : entries'[j] = 0
  BY <1>1, <1>2 DEF Touches
<1>4. ShardCaching!Cached' = after
  BY <1>2, <1>3 DEF ShardCaching!Cached
<1>5. \A j \in ShardKeys : entries'[j] =< counter
  BY <1>1, <1>2, <1>3
<1>6. \A i, j \in after : entries'[i] = entries'[j] => i = j
  BY <1>1, <1>2, <1>3 DEF Touches
<1>7. IsFiniteSet(after) /\ Cardinality(after) =< MaxEntries
  <2>1. IsFiniteSet(stay)
    BY <1>1, FS_Subset DEF Touches
  <2> QED
    BY <2>1, FS_AddElement DEF Touches
<1>8. ShardsInv'
  BY <1>1, <1>3, <1>4, <1>5, <1>6, <1>7 DEF ShardsInv, Touches
<1>9. IsLast(k, stay)
  <2> DEFINE now == [m \in after |-> {j \in after : entries'[j] < entries'[m]}]
  <2>1. ASSUME NEW m \in after
        PROVE  now[m] = IF m = k THEN stay \ {k} ELSE Older[m] \cap (stay \ {k})
    <3>1. CASE m = k
      <4>1. \A j \in stay \ {k} : entries'[j] < entries'[k]
        BY <1>3
      <4>2. ~ (entries'[k] < entries'[k])
        BY <1>2, <1>3
      <4>3. now[k] = stay \ {k}
        BY <4>1, <4>2
      <4> QED
        BY <3>1, <4>3
    <3>2. CASE m # k
      <4>1. m \in stay \ {k} /\ m \in ShardCaching!Cached /\ stay \subseteq ShardCaching!Cached
        BY <3>2 DEF Touches
      <4>2. entries'[m] = entries[m] /\ ~ (entries'[k] < entries'[m])
        BY <1>1, <1>2, <1>3, <4>1
      <4>3. \A j \in after : entries'[j] < entries'[m] <=> j \in stay \ {k} /\ entries[j] < entries[m]
        BY <1>3, <4>2
      <4>4. now[m] = Older[m] \cap (stay \ {k})
        BY <4>1, <4>3 DEF Older
      <4> QED
        BY <3>2, <4>4
    <3> QED
      BY <3>1, <3>2
  <2>2. now = [m \in after |-> IF m = k THEN stay \ {k} ELSE Older[m] \cap (stay \ {k})]
    BY <2>1
  <2>3. Older' = now
    BY <1>4 DEF Older
  <2> QED
    BY <2>2, <2>3 DEF IsLast
<1> QED
  BY <1>8, <1>9

LEMMA ShardsBegin == ShardCaching!Init => ShardsInv /\ ShardCaching!Lru!Init
<1> SUFFICES ASSUME ShardCaching!Init PROVE ShardsInv /\ ShardCaching!Lru!Init
  OBVIOUS
<1>1. /\ counter = 0 /\ entries = [k \in ShardKeys |-> 0] /\ served = "none"
      /\ lookup = [t \in CacheThreads |-> ShardCaching!NoCall]
  BY DEF ShardCaching!Init, ShardCaching!NoKey
<1>2. ShardCaching!Cached = {}
  BY <1>1 DEF ShardCaching!Cached
<1>3. ShardCaching!NoCall.method = "none"
  BY DEF ShardCaching!NoCall
<1>4. ShardsInv
  BY <1>1, <1>2, <1>3, FS_EmptySet, ShardCacheAssumption DEF ShardsInv
<1>5. ShardCaching!Lru!Init
  BY <1>1, <1>2, HeldIsCached, ShardCacheAssumption DEF ShardCaching!Lru!Init
<1> QED
  BY <1>4, <1>5

(* The least recent of the entries is one of them, and is before the others. *)
LEMMA OldestIsFirst ==
  ASSUME ShardsInv, ShardCaching!Cached # {}
  PROVE  /\ ShardCaching!Oldest \in ShardCaching!Cached
         /\ \A j \in ShardCaching!Cached : entries[ShardCaching!Oldest] =< entries[j]
<1> DEFINE stamps == {entries[k] : k \in ShardCaching!Cached}
<1>1. stamps \in SUBSET Nat /\ stamps # {}
  BY DEF ShardsInv, ShardCaching!Cached
<1>2. PICK n \in stamps : \A m \in stamps : n =< m
  BY <1>1, LeastOf
<1>3. \E k \in ShardCaching!Cached : \A j \in ShardCaching!Cached : entries[k] =< entries[j]
  BY <1>2
<1> QED
  BY <1>3 DEF ShardCaching!Oldest

LEMMA KeyIsFound ==
  ASSUME ShardsInv, OneSearcher, NEW t \in CacheThreads, ShardCaching!Get(t)
  PROVE  ShardsInv' /\ [ShardCaching!Lru!Next]_(ShardCaching!Lru!vars)
<1>. PICK k, ts : k = lookup[t].key /\ ts = lookup[t].ts
  OBVIOUS
<1>1. /\ k \in ShardKeys /\ ts \in 1..counter
      /\ \A j \in ShardKeys : entries[j] < ts
  BY DEF ShardsInv, ShardCaching!Get
<1>2. /\ DOMAIN lookup' = CacheThreads /\ \A u \in CacheThreads : lookup'[u].method = "none"
      /\ counter' = counter
  <2>1. lookup' = [lookup EXCEPT ![t] = ShardCaching!NoCall] /\ UNCHANGED counter
    BY DEF ShardCaching!Get
  <2>2. CacheThreads = {t} /\ DOMAIN lookup = CacheThreads
    BY DEF OneSearcher, ShardsInv
  <2> QED
    BY <2>1, <2>2 DEF ShardCaching!NoCall
<1>3. CASE k \notin ShardCaching!Cached
  <2>1. UNCHANGED <<entries, served>>
    BY <1>3 DEF ShardCaching!Get
  <2>2. UNCHANGED ShardCaching!Cached
    BY <2>1 DEF ShardCaching!Cached
  <2>3. UNCHANGED ShardCaching!Lru!vars
    BY <2>1, <2>2 DEF ShardCaching!Lru!vars
  <2> QED
    BY <1>2, <2>1, <2>2, <2>3 DEF ShardsInv
<1>4. CASE k \in ShardCaching!Cached
  <2>1. entries' = [entries EXCEPT ![k] = ts] /\ served' = k
    BY <1>4 DEF ShardCaching!Get
  <2>2. /\ entries \in [ShardKeys -> Nat]
        /\ \A j \in ShardKeys : j \notin ShardCaching!Cached => entries[j] = 0
    BY DEF ShardsInv, ShardCaching!Cached
  <2>3. ShardCaching!Cached \cup {k} = ShardCaching!Cached
    BY <1>4
  <2>. PICK stay : stay = ShardCaching!Cached
    OBVIOUS
  <2>4. entries' = [j \in ShardKeys |->
                      IF j = k THEN ts ELSE IF j \in stay THEN entries[j] ELSE 0]
    BY <2>1, <2>2
  <2>5. Touches(k, stay, ts)
    BY <1>1, <1>2, <2>3, <2>4 DEF Touches, ShardsInv
  <2>6. ShardsInv' /\ IsLast(k, stay)
    BY <2>5, TouchedIsLast
  <2>7. ShardCaching!Lru!Use(k)
    BY <1>4, <2>1, <2>6, HeldIsCached DEF ShardCaching!Lru!Use, ShardCaching!Lru!UseLast, IsLast, Older
  <2> QED
    BY <1>1, <2>6, <2>7 DEF ShardCaching!Lru!Next
<1> QED
  BY <1>3, <1>4

LEMMA KeyIsPutIn ==
  ASSUME ShardsInv, OneSearcher, NEW t \in CacheThreads, ShardCaching!Insert(t)
  PROVE  ShardsInv' /\ [ShardCaching!Lru!Next]_(ShardCaching!Lru!vars)
<1>. PICK k, ts : k = lookup[t].key /\ ts = lookup[t].ts
  OBVIOUS
<1> DEFINE full == Cardinality(ShardCaching!Cached) >= MaxEntries /\ k \notin ShardCaching!Cached
<1>1. /\ k \in ShardKeys /\ ts \in 1..counter
      /\ \A j \in ShardKeys : entries[j] < ts
  BY DEF ShardsInv, ShardCaching!Insert
<1>2. /\ DOMAIN lookup' = CacheThreads /\ \A u \in CacheThreads : lookup'[u].method = "none"
      /\ counter' = counter
  <2>1. lookup' = [lookup EXCEPT ![t] = ShardCaching!NoCall] /\ UNCHANGED counter
    BY DEF ShardCaching!Insert
  <2>2. CacheThreads = {t} /\ DOMAIN lookup = CacheThreads
    BY DEF OneSearcher, ShardsInv
  <2> QED
    BY <2>1, <2>2 DEF ShardCaching!NoCall
<1>3. /\ entries' = [(IF full THEN [entries EXCEPT ![ShardCaching!Oldest] = 0] ELSE entries)
                        EXCEPT ![k] = ts]
      /\ served' = k
  BY CountsInShards DEF ShardCaching!Insert
<1>4. /\ entries \in [ShardKeys -> Nat] /\ IsFiniteSet(ShardCaching!Cached)
      /\ Cardinality(ShardCaching!Cached) =< MaxEntries
      /\ ShardCaching!Cached \subseteq ShardKeys
      /\ \A j \in ShardKeys : j \notin ShardCaching!Cached => entries[j] = 0
  BY DEF ShardsInv, ShardCaching!Cached
<1>5. MaxEntries \in Nat \ {0} /\ Cardinality(ShardCaching!Cached) \in Nat
  BY <1>4, FS_CardinalityType, ShardCacheAssumption
<1>6. CASE ~full
  <2>1. Cardinality(ShardCaching!Cached \cup {k}) =< MaxEntries
    <3>1. Cardinality(ShardCaching!Cached \cup {k}) =
             IF k \in ShardCaching!Cached
             THEN Cardinality(ShardCaching!Cached) ELSE Cardinality(ShardCaching!Cached) + 1
      BY <1>4, FS_AddElement
    <3> QED
      BY <1>4, <1>5, <1>6, <3>1
  <2>. PICK stay : stay = ShardCaching!Cached
    OBVIOUS
  <2>2. entries' = [j \in ShardKeys |->
                      IF j = k THEN ts ELSE IF j \in stay THEN entries[j] ELSE 0]
    BY <1>3, <1>4, <1>6
  <2>3. Touches(k, stay, ts)
    BY <1>1, <1>2, <2>1, <2>2 DEF Touches
  <2>4. ShardsInv' /\ IsLast(k, stay)
    BY <2>3, TouchedIsLast
  <2>5. ShardCaching!Lru!UseLast(k, ShardCaching!Lru!Held)
    BY <1>3, <2>4, HeldIsCached DEF ShardCaching!Lru!UseLast, IsLast, Older
  <2>6. k \in ShardCaching!Lru!Held \/ ShardCaching!Lru!Cardinality(ShardCaching!Lru!Held) < MaxEntries
    BY <1>5, <1>6, HeldIsCached, CountsInShards
  <2>7. ShardCaching!Lru!Use(k) \/ ShardCaching!Lru!Add(k)
    BY <2>5, <2>6 DEF ShardCaching!Lru!Use, ShardCaching!Lru!Add
  <2> QED
    BY <1>1, <2>4, <2>7 DEF ShardCaching!Lru!Next
<1>7. CASE full
  <2>. PICK first, stay : first = ShardCaching!Oldest /\ stay = ShardCaching!Cached \ {first}
    OBVIOUS
  <2>1. Cardinality(ShardCaching!Cached) = MaxEntries /\ ShardCaching!Cached # {}
    BY <1>4, <1>5, <1>7, FS_EmptySet
  <2>2. /\ first \in ShardCaching!Cached
        /\ \A j \in ShardCaching!Cached : entries[first] =< entries[j]
    BY <2>1, OldestIsFirst
  <2>3. entries' = [[entries EXCEPT ![first] = 0] EXCEPT ![k] = ts]
    BY <1>3, <1>7
  <2>4. Cardinality(stay \cup {k}) =< MaxEntries
    <3>1. IsFiniteSet(stay) /\ Cardinality(stay) = MaxEntries - 1
      BY <1>4, <2>1, <2>2, FS_RemoveElement
    <3>2. Cardinality(stay \cup {k}) = IF k \in stay THEN Cardinality(stay) ELSE Cardinality(stay) + 1
      BY <3>1, FS_AddElement
    <3> QED
      BY <1>5, <3>1, <3>2
  <2>5. entries' = [j \in ShardKeys |->
                      IF j = k THEN ts ELSE IF j \in stay THEN entries[j] ELSE 0]
    BY <1>4, <2>2, <2>3
  <2>6. Touches(k, stay, ts)
    BY <1>1, <1>2, <2>4, <2>5 DEF Touches
  <2>7. ShardsInv' /\ IsLast(k, stay)
    BY <2>6, TouchedIsLast
  <2>8. Older[first] = {}
    <3>1. \A j \in ShardCaching!Cached : ~ (entries[j] < entries[first])
      BY <1>4, <2>2
    <3> QED
      BY <2>2, <3>1 DEF Older
  <2>9. ShardCaching!Lru!UseLast(k, ShardCaching!Lru!Held \ {first})
    BY <1>3, <2>7, HeldIsCached DEF ShardCaching!Lru!UseLast, IsLast, Older
  <2>10. ShardCaching!Lru!Cardinality(ShardCaching!Lru!Held) = MaxEntries
    BY <2>1, HeldIsCached, CountsInShards
  <2>11. ShardCaching!Lru!Replace(k, first) /\ first \in ShardCaching!Lru!Held
    BY <1>7, <2>2, <2>8, <2>9, <2>10, HeldIsCached DEF ShardCaching!Lru!Replace, Older
  <2> QED
    BY <1>1, <2>7, <2>11 DEF ShardCaching!Lru!Next
<1> QED
  BY <1>6, <1>7

LEMMA ShardsNext ==
  ASSUME OneSearcher
  PROVE  ShardsInv /\ [ShardCaching!Next]_shardsVars
            => ShardsInv' /\ [ShardCaching!Lru!Next]_(ShardCaching!Lru!vars)
<1> SUFFICES ASSUME ShardsInv, [ShardCaching!Next]_shardsVars
             PROVE  ShardsInv' /\ [ShardCaching!Lru!Next]_(ShardCaching!Lru!vars)
  OBVIOUS
<1>1. ASSUME UNCHANGED <<entries, served>>
      PROVE  UNCHANGED ShardCaching!Cached /\ UNCHANGED ShardCaching!Lru!vars
  <2>1. UNCHANGED ShardCaching!Cached
    BY <1>1 DEF ShardCaching!Cached
  <2> QED
    BY <1>1, <2>1 DEF ShardCaching!Lru!vars
<1>2. CASE UNCHANGED shardsVars
  <2>1. UNCHANGED <<counter, entries, lookup, served>>
    BY <1>2 DEF shardsVars
  <2> QED
    BY <1>1, <2>1 DEF ShardsInv
<1>3. ASSUME NEW t \in CacheThreads, NEW k \in ShardKeys, NEW method \in {"get", "insert"},
             ShardCaching!Stamp(t, method, k)
      PROVE  ShardsInv' /\ [ShardCaching!Lru!Next]_(ShardCaching!Lru!vars)
  <2>1. /\ counter' = counter + 1 /\ UNCHANGED <<entries, served>>
        /\ lookup' = [lookup EXCEPT ![t] = [method |-> method, key |-> k, ts |-> counter + 1]]
    BY <1>3 DEF ShardCaching!Stamp
  <2>2. CacheThreads = {t} /\ DOMAIN lookup = CacheThreads
    BY DEF OneSearcher, ShardsInv
  <2>3. DOMAIN lookup' = CacheThreads /\ lookup'[t].key = k /\ lookup'[t].ts = counter + 1
    BY <2>1, <2>2
  <2>4. \A j \in ShardKeys : entries[j] =< counter' /\ entries[j] < counter + 1
    BY <2>1 DEF ShardsInv
  <2> QED
    BY <1>1, <2>1, <2>2, <2>3, <2>4 DEF ShardsInv
<1>4. CASE ShardCaching!Clear
  <2>1. entries' = [k \in ShardKeys |-> 0] /\ UNCHANGED <<counter, lookup, served>>
    BY <1>4 DEF ShardCaching!Clear
  <2>2. ShardCaching!Cached' = {}
    BY <2>1 DEF ShardCaching!Cached
  <2>3. ShardsInv'
    BY <2>1, <2>2, FS_EmptySet, ShardCacheAssumption DEF ShardsInv
  <2>4. ShardCaching!Lru!Held' = {}
    BY <2>2 DEF ShardCaching!Lru!Held
  <2>5. ShardCaching!Lru!Clear
    BY <2>1, <2>4 DEF ShardCaching!Lru!Clear
  <2> QED
    BY <2>3, <2>5 DEF ShardCaching!Lru!Next
<1> QED
  BY <1>2, <1>3, <1>4, KeyIsFound, KeyIsPutIn DEF ShardCaching!Next

(* With one thread that searches, any number of shards and any capacity, the *)
(* shard cache is one that drops the least recently used entry: every call   *)
(* of get, insert and clear is a step of LruCache or leaves it as it is.     *)
THEOREM LeastRecentIsDropped == ASSUME OneSearcher PROVE Spec => DropsLeastRecent
<1>1. Init => ShardsInv /\ ShardCaching!Lru!Init
  BY ShardsBegin DEF Init
<1>2. ShardsInv /\ [Next]_vars => ShardsInv' /\ [ShardCaching!Lru!Next]_(ShardCaching!Lru!vars)
  BY PartsMove, ShardsNext
<1> QED
  BY <1>1, <1>2, PTL DEF Spec, DropsLeastRecent, ShardCaching!DropsLeastRecent, ShardCaching!Lru!Spec

--------------------------------------------------------------------------------

Scored == [id : Engine!Ids, score : Int, snippet : Engine!Texts \cup {"none"}]

(* The index has the text of each message but the deleted and the captions,  *)
(* and nothing of a deleted one that no edit has found.  From its first step *)
(* on a search has what matches since its beginning, until a limit cuts, and *)
(* nothing that was deleted before it.                                       *)
IsWitness(w) ==
    w = [late |-> w.late, captions |-> w.captions, deleted |-> w.deleted,
         matched |-> w.matched, cut |-> w.cut]

SearchInv ==
    /\ content \in [Engine!Ids -> Engine!Texts \cup {"none"}]
    /\ indexed \in [Engine!Ids -> SUBSET Engine!Texts]
    /\ grams \subseteq Engine!Ids /\ deleted \subseteq Engine!Ids
    /\ \A m \in Engine!Ids \ (deleted \cup witness.captions) :
          content[m] = "none" \/ content[m] \in indexed[m]
    /\ \A m \in deleted \ witness.late : indexed[m] = {}
    /\ engine = [step |-> engine.step, results |-> engine.results]
    /\ engine.results \in Seq(Scored)
    /\ IsWitness(witness)
    /\ witness.deleted \subseteq deleted
    /\ engine.step \notin {"idle", "panicked"} /\ ~witness.cut =>
          witness.matched \subseteq Engine!Found \cap Wanted
    /\ Engine!Found \cap witness.deleted = {}

LEMMA CountsInSearch == \A T : Engine!Cardinality(T) = Cardinality(T)
  BY Zenon DEF Engine!Cardinality, Cardinality

(* A list without repetition that is as long as a set has all of it.         *)
LEMMA ListedAll ==
  ASSUME NEW S, IsFiniteSet(S), NEW s \in [1..Cardinality(S) -> S],
         \A i, j \in 1..Cardinality(S) : i < j => s[i] # s[j]
  PROVE  \A x \in S : \E i \in 1..Cardinality(S) : s[i] = x
<1> DEFINE D == 1..Cardinality(S)
<1>1. Cardinality(S) \in Nat
  BY FS_CardinalityType
<1>2. IsFiniteSet(D) /\ Cardinality(D) = Cardinality(S)
  BY <1>1, FS_Interval
<1>3. \A i, j \in D : s[i] = s[j] => i = j
  BY <1>1
<1>4. s \in Injection(D, S)
  BY <1>3, Fun_IsInj
<1>5. s \in Surjection(D, S)
  BY <1>2, <1>4, FS_Injection
<1> HIDE DEF D
<1>6. \A x \in S : \E i \in D : s[i] = x
  BY <1>5, Fun_SurjectionProperties
<1> QED
  BY <1>6 DEF D

(* UpTo gives the list up to the limit.                                      *)
LEMMA ListIsCut ==
  ASSUME NEW T, NEW s \in Seq(T), NEW n \in Nat
  PROVE  /\ Engine!UpTo(n, s) \in Seq(T)
         /\ DOMAIN Engine!UpTo(n, s) = 1..(IF n < Len(s) THEN n ELSE Len(s))
         /\ \A i \in DOMAIN Engine!UpTo(n, s) : i \in DOMAIN s /\ Engine!UpTo(n, s)[i] = s[i]
<1> DEFINE to == IF n < Len(s) THEN n ELSE Len(s)
           cut == SubSeq(s, 1, to)
<1>1. Len(s) \in Nat /\ DOMAIN s = 1..Len(s) /\ s \in [1..Len(s) -> T]
  BY LenProperties
<1>2. to \in Nat /\ to =< Len(s)
  BY <1>1
<1> HIDE DEF to
<1>3. \A i \in 1..to : s[i] \in T
  BY <1>1, <1>2
<1>4. cut \in Seq(T) /\ Len(cut) = to /\ \A i \in 1..to : cut[i] = s[i]
  <2>1. /\ cut \in Seq(T) /\ Len(cut) = IF 1 =< to THEN to - 1 + 1 ELSE 0
        /\ \A i \in 1..(to - 1 + 1) : cut[i] = s[1 + i - 1]
    BY <1>2, <1>3, SubSeqProperties
  <2>2. to - 1 + 1 = to /\ \A i \in 1..to : 1 + i - 1 = i
    BY <1>2
  <2> QED
    BY <1>2, <2>1, <2>2
<1>5. DOMAIN cut = 1..to
  BY <1>4, LenProperties
<1>6. Engine!UpTo(n, s) = cut
  BY DEF Engine!UpTo, to
<1> QED
  BY <1>1, <1>2, <1>4, <1>5, <1>6 DEF to

LEMMA ListIsWhole ==
  ASSUME NEW T, NEW s \in Seq(T), NEW n \in Nat, Len(s) =< n
  PROVE  Engine!UpTo(n, s) = s
<1>1. Len(s) \in Nat
  BY LenProperties
<1>2. Engine!UpTo(n, s) = SubSeq(s, 1, Len(s))
  BY <1>1 DEF Engine!UpTo
<1> QED
  BY <1>1, <1>2, SubSeqFull

LEMMA MessagesAreFew ==
  ASSUME NEW S \in SUBSET Engine!Ids
  PROVE  IsFiniteSet(S) /\ Cardinality(S) \in Nat /\ Cardinality(S) =< MessageCount
<1>1. IsFiniteSet(Engine!Ids) /\ Cardinality(Engine!Ids) = MessageCount
  BY SearchAssumption, FS_Interval DEF Engine!Ids
<1> QED
  BY <1>1, FS_Subset, FS_CardinalityType

LEMMA SearchBegins == Engine!Init => SearchInv
<1> SUFFICES ASSUME Engine!Init PROVE SearchInv
  OBVIOUS
<1>1. /\ content = [m \in Engine!Ids |-> "none"] /\ indexed = [m \in Engine!Ids |-> {}]
      /\ grams = {} /\ deleted = {}
      /\ engine = [step |-> "idle", results |-> <<>>]
  BY DEF Engine!Init
<1>2. IsWitness(witness) /\ witness.deleted = {}
  BY DEF Engine!Init, IsWitness
<1>3. engine.results = <<>> /\ engine.results \in Seq(Scored) /\ Engine!Found = {}
  BY <1>1 DEF Engine!Found
<1> QED
  BY <1>1, <1>2, <1>3 DEF SearchInv

(* What a change makes of the witness, of whatever kind it is.               *)
LEMMA WitnessChanges ==
  ASSUME SearchInv, NEW w, NEW m \in Engine!Ids, NEW t, Engine!Changed(w, m, t)
  PROVE  /\ IsWitness(witness') /\ engine' = engine
         /\ witness'.late = IF w = "edit" /\ m \in deleted THEN witness.late \cup {m}
                            ELSE IF w = "edit" THEN witness.late ELSE witness.late \ {m}
         /\ witness'.captions = IF w = "caption" THEN witness.captions \cup {m}
                                ELSE IF w = "delete" THEN witness.captions
                                ELSE witness.captions \ {m}
         /\ witness'.deleted = IF w = "delete" THEN witness.deleted ELSE witness.deleted \ {m}
         /\ witness'.matched \subseteq witness.matched /\ witness'.cut = witness.cut
<1> DEFINE late == IF w = "edit" /\ m \in deleted THEN witness.late \cup {m}
                   ELSE IF w = "edit" THEN witness.late ELSE witness.late \ {m}
           captions == IF w = "caption" THEN witness.captions \cup {m}
                       ELSE IF w = "delete" THEN witness.captions ELSE witness.captions \ {m}
           dead == IF w = "delete" THEN witness.deleted ELSE witness.deleted \ {m}
           matched == IF w # "delete" /\ t \in Engine!Exact THEN witness.matched
                      ELSE witness.matched \ {m}
<1>1. witness' = [witness EXCEPT !.late = late, !.captions = captions, !.deleted = dead,
                                 !.matched = matched] /\ engine' = engine
  BY DEF Engine!Changed
<1>2. matched \subseteq witness.matched
  OBVIOUS
<1>3. witness = [late |-> witness.late, captions |-> witness.captions, deleted |-> witness.deleted,
                 matched |-> witness.matched, cut |-> witness.cut]
  BY DEF SearchInv, IsWitness
<1> HIDE DEF late, captions, dead, matched
<1>4. witness' = [late |-> late, captions |-> captions, deleted |-> dead, matched |-> matched,
                  cut |-> witness.cut]
  BY <1>1, <1>3
<1>5. IsWitness(witness')
  BY <1>4 DEF IsWitness
<1> QED
  BY <1>1, <1>2, <1>4, <1>5 DEF late, captions, dead

(* What happens to a message while a search is under way or not.             *)
LEMMA MessageChanges ==
  ASSUME SearchInv, NEW w, NEW m \in Engine!Ids, NEW t, Engine!Changed(w, m, t),
         \/ w \in {"ingest", "edit"} /\ t \in Engine!Texts /\ Engine!Becomes(w, m, t)
         \/ w = "delete" /\ Engine!Becomes(w, m, t)
         \/ Engine!SendMedia(m, t) /\ t \in Engine!Texts /\ w = "caption"
  PROVE  SearchInv'
<1>1. /\ IsWitness(witness') /\ engine' = engine
      /\ witness'.late = IF w = "edit" /\ m \in deleted THEN witness.late \cup {m}
                         ELSE IF w = "edit" THEN witness.late ELSE witness.late \ {m}
      /\ witness'.captions = IF w = "caption" THEN witness.captions \cup {m}
                             ELSE IF w = "delete" THEN witness.captions
                             ELSE witness.captions \ {m}
      /\ witness'.deleted = IF w = "delete" THEN witness.deleted ELSE witness.deleted \ {m}
      /\ witness'.matched \subseteq witness.matched /\ witness'.cut = witness.cut
  BY WitnessChanges
<1>2. /\ content \in [Engine!Ids -> Engine!Texts \cup {"none"}]
      /\ indexed \in [Engine!Ids -> SUBSET Engine!Texts]
      /\ grams \subseteq Engine!Ids /\ deleted \subseteq Engine!Ids
      /\ \A k \in Engine!Ids \ (deleted \cup witness.captions) :
            content[k] = "none" \/ content[k] \in indexed[k]
      /\ \A k \in deleted \ witness.late : indexed[k] = {}
      /\ witness.deleted \subseteq deleted
  BY DEF SearchInv
<1>3. /\ content' \in [Engine!Ids -> Engine!Texts \cup {"none"}]
      /\ indexed' \in [Engine!Ids -> SUBSET Engine!Texts]
      /\ grams' \subseteq Engine!Ids /\ deleted' \subseteq Engine!Ids
      /\ \A k \in Engine!Ids \ (deleted' \cup witness'.captions) :
            content'[k] = "none" \/ content'[k] \in indexed'[k]
      /\ \A k \in deleted' \ witness'.late : indexed'[k] = {}
      /\ witness'.deleted \subseteq deleted'
  <2>1. CASE w = "ingest"
    <3>1. /\ content' = [content EXCEPT ![m] = t] /\ t \in Engine!Texts
          /\ indexed' = [indexed EXCEPT ![m] = indexed[m] \cup {t}]
          /\ grams' \in {grams, grams \cup {m}} /\ deleted' = deleted \ {m}
      BY <2>1 DEF Engine!Becomes
    <3>2. /\ witness'.late = witness.late \ {m} /\ witness'.captions = witness.captions \ {m}
          /\ witness'.deleted = witness.deleted \ {m}
      BY <1>1, <2>1
    <3>3. content'[m] = t /\ indexed'[m] = indexed[m] \cup {t}
          /\ \A k \in Engine!Ids \ {m} : content'[k] = content[k] /\ indexed'[k] = indexed[k]
      BY <1>2, <3>1
    <3> QED
      BY <1>2, <3>1, <3>2, <3>3
  <2>2. CASE w = "edit"
    <3>1. /\ content' = [content EXCEPT ![m] = IF content[m] = "none" THEN "none" ELSE t]
          /\ t \in Engine!Texts /\ indexed' = [indexed EXCEPT ![m] = {t}]
          /\ grams' \in {grams \ {m}, grams \cup {m}} /\ deleted' = deleted
      BY <2>2 DEF Engine!Becomes
    <3>2. /\ m \in deleted => witness'.late = witness.late \cup {m}
          /\ witness.late \subseteq witness'.late
          /\ witness'.captions = witness.captions \ {m}
          /\ witness'.deleted = witness.deleted \ {m}
      BY <1>1, <2>2
    <3>3. content'[m] \in {"none", t} /\ indexed'[m] = {t}
          /\ \A k \in Engine!Ids \ {m} : content'[k] = content[k] /\ indexed'[k] = indexed[k]
      BY <1>2, <3>1
    <3> QED
      BY <1>2, <3>1, <3>2, <3>3
  <2>3. CASE w = "delete"
    <3>1. /\ content' = [content EXCEPT ![m] = IF t = "none" THEN "none" ELSE content[m]]
          /\ indexed' = [indexed EXCEPT ![m] = {}]
          /\ grams' = grams \ {m} /\ deleted' = deleted \cup {m}
      BY <2>3 DEF Engine!Becomes
    <3>2. /\ witness'.late = witness.late \ {m} /\ witness'.captions = witness.captions
          /\ witness'.deleted = witness.deleted
      BY <1>1, <2>3
    <3>3. content'[m] \in {"none", content[m]} /\ indexed'[m] = {}
          /\ \A k \in Engine!Ids \ {m} : content'[k] = content[k] /\ indexed'[k] = indexed[k]
      BY <1>2, <3>1
    <3> QED
      BY <1>2, <3>1, <3>2, <3>3
  <2>4. CASE w = "caption"
    <3>1. /\ content' = [content EXCEPT ![m] = t] /\ t \in Engine!Texts
          /\ UNCHANGED <<indexed, grams, deleted>> /\ m \notin deleted
      BY <2>4 DEF Engine!SendMedia, Engine!HasRow
    <3>2. /\ witness'.late = witness.late \ {m} /\ witness'.captions = witness.captions \cup {m}
          /\ witness'.deleted = witness.deleted \ {m}
      BY <1>1, <2>4
    <3>3. \A k \in Engine!Ids \ {m} : content'[k] = content[k]
      BY <1>2, <3>1
    <3> QED
      BY <1>2, <3>1, <3>2, <3>3
  <2> QED
    BY <2>1, <2>2, <2>3, <2>4
<1>4. Engine!Found' = Engine!Found /\ engine' = engine
  BY <1>1 DEF Engine!Found
<1>5. /\ engine' = [step |-> engine'.step, results |-> engine'.results]
      /\ engine'.results \in Seq(Scored)
      /\ engine'.step \notin {"idle", "panicked"} /\ ~witness'.cut =>
            witness'.matched \subseteq Engine!Found' \cap Wanted
      /\ Engine!Found' \cap witness'.deleted = {}
  BY <1>1, <1>4 DEF SearchInv
<1> QED
  BY <1>1, <1>3, <1>5 DEF SearchInv

(* A list of hits, one for each of n rows.                                   *)
AreHits(hits, rows, n) ==
    /\ n \in Nat /\ rows \in [1..n -> Engine!Ids]
    /\ hits = [i \in 1..n |-> hits[i]]
    /\ \A i \in 1..n : \E score \in Int : hits[i] = Engine!Hit(rows[i], score)

LEMMA RowsAreHits ==
  ASSUME NEW hits, NEW rows, NEW n, AreHits(hits, rows, n)
  PROVE  hits \in Seq(Scored) /\ Len(hits) = n /\ \A i \in 1..n : hits[i].id = rows[i]
<1> USE DEF AreHits
<1>1. ASSUME NEW i \in 1..n PROVE hits[i] \in Scored /\ hits[i].id = rows[i]
  <2>1. PICK score \in Int : hits[i] = [id |-> rows[i], score |-> score, snippet |-> "none"]
    BY DEF Engine!Hit
  <2>2. rows[i] \in Engine!Ids
    OBVIOUS
  <2> QED
    BY <2>1, <2>2 DEF Scored
<1>2. hits \in [1..n -> Scored]
  BY <1>1
<1> QED
  BY <1>1, <1>2

(* The rows of the full-text index are finitely many.                        *)
LEMMA MatchesAreFew ==
  /\ Engine!FtsMatches \subseteq Engine!Ids \X Engine!Exact
  /\ IsFiniteSet(Engine!FtsMatches) /\ Cardinality(Engine!FtsMatches) \in Nat
<1>1. IsFiniteSet(Engine!Ids) /\ IsFiniteSet(Engine!Exact)
  <2>1. {"once", "twice"} = {"once"} \cup {"twice"} /\ IsFiniteSet({"once"})
    BY FS_Singleton
  <2>2. IsFiniteSet({"once"} \cup {"twice"})
    BY <2>1, FS_AddElement
  <2> QED
    BY <2>1, <2>2, MessagesAreFew DEF Engine!Exact
<1>2. IsFiniteSet(Engine!Ids \X Engine!Exact)
  BY <1>1, FS_Product
<1>3. InScope \subseteq Engine!Ids
  BY SearchAssumption DEF Engine!Ids
<1>4. Engine!FtsMatches \subseteq Engine!Ids \X Engine!Exact
  BY <1>3 DEF Engine!FtsMatches
<1> QED
  BY <1>2, <1>4, FS_Subset, FS_CardinalityType

(* The rows that the query gives are all of them, each once.                 *)
LEMMA RowsOfTheQuery ==
  ASSUME SearchInv, NEW rows \in Engine!FtsRows
  PROVE  LET n == Cardinality(Engine!FtsMatches)
         IN /\ rows \in [1..n -> Engine!FtsMatches]
            /\ \A pair \in Engine!FtsMatches : \E i \in 1..n : rows[i] = pair
<1> DEFINE n == Cardinality(Engine!FtsMatches)
<1>1. /\ rows \in [1..n -> Engine!FtsMatches]
      /\ \A i, j \in DOMAIN rows : i < j =>
            \/ rows[i][2] = "twice" /\ rows[j][2] = "once"
            \/ rows[i][2] = rows[j][2] /\ rows[i][1] < rows[j][1]
  BY CountsInSearch DEF Engine!FtsRows, Engine!Sorted
<1>2. \A i \in 1..n : rows[i][1] \in Nat
  BY <1>1, MatchesAreFew DEF Engine!Ids
<1>3. \A i, j \in 1..n : i < j => rows[i] # rows[j]
  BY <1>1, <1>2
<1>4. \A pair \in Engine!FtsMatches : \E i \in 1..n : rows[i] = pair
  BY <1>1, <1>3, MatchesAreFew, ListedAll
<1> QED
  BY <1>1, <1>4

LEMMA TextIsSearched ==
  ASSUME SearchInv, Engine!TextSearch
  PROVE  SearchInv'
<1> DEFINE n == Cardinality(Engine!FtsMatches)
<1>1. PICK rows \in Engine!FtsRows :
         engine' = [step |-> "fuzzy", results |-> Engine!UpTo(Limit, Engine!TextHits(rows))]
  BY DEF Engine!TextSearch
<1>2. /\ n \in Nat /\ rows \in [1..n -> Engine!FtsMatches]
      /\ \A pair \in Engine!FtsMatches : \E i \in 1..n : rows[i] = pair
  BY MatchesAreFew, RowsOfTheQuery
<1> HIDE DEF n
<1>3. PICK hits : hits = Engine!TextHits(rows)
  OBVIOUS
<1>4. hits \in Seq(Scored) /\ Len(hits) = n /\ \A i \in 1..n : hits[i].id = rows[i][1]
  <2>1. hits = [i \in 1..n |-> Engine!Hit(rows[i][1], Engine!FtsScore(rows[i][2]))]
    BY <1>2, <1>3 DEF Engine!TextHits
  <2>2. \A i \in 1..n : Engine!FtsScore(rows[i][2]) \in Int
    BY DEF Engine!FtsScore
  <2>3. PICK ids : ids = [i \in 1..n |-> rows[i][1]]
    OBVIOUS
  <2>4. ids \in [1..n -> Engine!Ids]
    BY <1>2, <2>3, MatchesAreFew
  <2>5. hits = [i \in 1..n |-> hits[i]]
    BY <2>1
  <2>6. \A i \in 1..n : \E score \in Int : hits[i] = Engine!Hit(ids[i], score)
    BY <2>1, <2>2, <2>3
  <2>7. AreHits(hits, ids, n)
    BY <1>2, <2>4, <2>5, <2>6 DEF AreHits
  <2> QED
    BY <2>3, <2>7, RowsAreHits
<1>5. /\ engine' = [step |-> "fuzzy", results |-> Engine!UpTo(Limit, hits)]
      /\ UNCHANGED <<content, indexed, grams, deleted>>
      /\ witness' = [witness EXCEPT
            !.deleted = deleted \ witness.late,
            !.matched = {m \in (InScope \cap Wanted) \ (deleted \cup witness.captions) :
                            content[m] \in Engine!Exact},
            !.cut = Limit < n]
  BY <1>1, <1>3, CountsInSearch DEF Engine!TextSearch, n
<1>6. /\ IsWitness(witness') /\ witness'.late = witness.late
      /\ witness'.captions = witness.captions /\ witness'.deleted = deleted \ witness.late
      /\ \A m \in witness'.matched : /\ m \in (InScope \cap Wanted) \ (deleted \cup witness.captions)
                                     /\ content[m] \in Engine!Exact
      /\ witness'.cut <=> Limit < n
  <2> DEFINE matched == {m \in (InScope \cap Wanted) \ (deleted \cup witness.captions) :
                            content[m] \in Engine!Exact}
             cut == Limit < n
  <2>1. witness = [late |-> witness.late, captions |-> witness.captions, deleted |-> witness.deleted,
                   matched |-> witness.matched, cut |-> witness.cut]
    BY DEF SearchInv, IsWitness
  <2>2. witness' = [late |-> witness.late, captions |-> witness.captions,
                    deleted |-> deleted \ witness.late, matched |-> matched, cut |-> cut]
    <3> HIDE DEF matched, cut
    <3>1. witness' = [witness EXCEPT !.deleted = deleted \ witness.late, !.matched = matched,
                                     !.cut = cut]
      BY <1>5 DEF matched, cut
    <3> QED
      BY <2>1, <3>1
  <2> HIDE DEF matched, cut
  <2>3. IsWitness(witness') /\ witness'.late = witness.late
        /\ witness'.captions = witness.captions /\ witness'.deleted = deleted \ witness.late
        /\ witness'.matched = matched /\ witness'.cut = cut
    BY <2>2 DEF IsWitness
  <2> QED
    BY <2>3 DEF matched, cut
<1>7. /\ engine'.results \in Seq(Scored)
      /\ \A i \in DOMAIN engine'.results : i \in 1..n /\ engine'.results[i].id = rows[i][1]
      /\ ~ (Limit < n) => DOMAIN engine'.results = 1..n
  <2>1. Limit \in Nat /\ DOMAIN hits = 1..n
    BY <1>4, LenProperties, SearchAssumption
  <2>2. PICK few : few = Engine!UpTo(Limit, hits)
    OBVIOUS
  <2>3. /\ few \in Seq(Scored) /\ DOMAIN few = 1..(IF Limit < Len(hits) THEN Limit ELSE Len(hits))
        /\ \A i \in DOMAIN few : i \in DOMAIN hits /\ few[i] = hits[i]
    BY <1>4, <2>1, <2>2, ListIsCut
  <2>4. engine'.results = few
    BY <1>5, <2>2
  <2> QED
    BY <1>4, <2>1, <2>3, <2>4
<1>8. \A m \in Engine!Found' : \E pair \in Engine!FtsMatches : pair[1] = m
  BY <1>2, <1>7 DEF Engine!Found
<1>9. Engine!Found' \cap witness'.deleted = {}
  <2>1. \A pair \in Engine!FtsMatches : pair[2] \in indexed[pair[1]]
    BY DEF Engine!FtsMatches
  <2> QED
    BY <1>6, <1>8, <2>1 DEF SearchInv
<1>10. ASSUME ~witness'.cut, NEW m \in witness'.matched PROVE m \in Engine!Found' \cap Wanted
  <2>1. m \in InScope /\ m \in Wanted /\ content[m] \in Engine!Exact /\ m \in Engine!Ids
        /\ m \notin deleted \cup witness.captions
    BY <1>6, <1>10, SearchAssumption DEF Engine!Ids
  <2>2. content[m] \in indexed[m]
    BY <2>1 DEF SearchInv, Engine!Exact
  <2>3. <<m, content[m]>> \in Engine!FtsMatches
    BY <2>1, <2>2 DEF Engine!FtsMatches
  <2>4. PICK i \in 1..n : rows[i] = <<m, content[m]>>
    BY <1>2, <2>3
  <2>5. i \in DOMAIN engine'.results /\ engine'.results[i].id = m
    <3>1. rows[i][1] = m /\ DOMAIN engine'.results = 1..n
      BY <1>6, <1>7, <1>10, <2>4
    <3> QED
      BY <1>7, <3>1
  <2> QED
    BY <2>1, <2>5 DEF Engine!Found
<1>11. witness'.deleted \subseteq deleted
  BY <1>6
<1>12. engine' = [step |-> engine'.step, results |-> engine'.results]
  BY <1>5
<1> QED
  BY <1>5, <1>6, <1>7, <1>9, <1>10, <1>11, <1>12 DEF SearchInv

LEMMA FuzzyIsSearched ==
  ASSUME SearchInv, Engine!FuzzySearch
  PROVE  SearchInv'
<1>1. /\ UNCHANGED <<content, indexed, grams, deleted, witness>>
      /\ engine.results \in Seq(Scored) /\ engine.step = "fuzzy"
  BY DEF Engine!FuzzySearch, SearchInv
<1>2. CASE engine' = [step |-> "bodies", results |-> engine.results]
  <2>1. engine'.results = engine.results /\ Engine!Found' = Engine!Found
    BY <1>2 DEF Engine!Found
  <2> QED
    BY <1>1, <1>2, <2>1 DEF SearchInv, IsWitness
<1>3. ASSUME NEW rows \in Engine!FuzzyRows,
             engine' = [step |-> "bodies", results |->
                          engine.results \o Engine!UpTo(Limit, Engine!FuzzyHits(rows))]
      PROVE  SearchInv'
  <2> DEFINE S == {m \in grams \ deleted : content[m] # "none"}
             n == Cardinality(S)
  <2>1. S \in SUBSET Engine!Ids /\ n \in Nat
    BY MessagesAreFew DEF SearchInv
  <2>2. rows \in [1..n -> S]
    BY <1>3, CountsInSearch DEF Engine!FuzzyRows, Engine!Sorted
  <2>3. S \subseteq Engine!Ids \ deleted /\ \A m \in S : content[m] \in {"once", "twice", "near"}
    BY <2>1 DEF SearchInv, Engine!Texts
  <2> HIDE DEF S, n
  <2>4. PICK hits : hits = Engine!FuzzyHits(rows)
    OBVIOUS
  <2>5. hits \in Seq(Scored) /\ Len(hits) = n /\ \A i \in 1..n : hits[i].id = rows[i]
    <3>1. hits = [i \in 1..n |-> Engine!Hit(rows[i], Engine!Similarity(content[rows[i]]))]
      BY <2>2, <2>4 DEF Engine!FuzzyHits
    <3>2. \A i \in 1..n : content[rows[i]] \in {"once", "twice", "near"}
      BY <2>2, <2>3
    <3>3. \A t \in {"once", "twice", "near"} : Engine!Similarity(t) \in Int
      BY DEF Engine!Similarity
    <3>4. hits = [i \in 1..n |-> hits[i]] /\ rows \in [1..n -> Engine!Ids]
      BY <2>1, <2>2, <3>1
    <3>5. \A i \in 1..n : \E score \in Int : hits[i] = Engine!Hit(rows[i], score)
      BY <3>1, <3>2, <3>3
    <3>6. AreHits(hits, rows, n)
      BY <2>1, <3>4, <3>5 DEF AreHits
    <3> QED
      BY <3>6, RowsAreHits
  <2>6. PICK cut : cut = Engine!UpTo(Limit, hits)
    OBVIOUS
  <2>7. /\ cut \in Seq(Scored) /\ DOMAIN cut = 1..Len(cut)
        /\ \A i \in 1..Len(cut) : cut[i].id \in Engine!Ids \ deleted
    <3>1. Limit \in Nat
      BY SearchAssumption
    <3>2. cut \in Seq(Scored) /\ \A i \in DOMAIN cut : i \in DOMAIN hits /\ cut[i] = hits[i]
      BY <2>5, <2>6, <3>1, ListIsCut
    <3>3. DOMAIN cut = 1..Len(cut) /\ DOMAIN hits = 1..n
      BY <2>5, <3>2, LenProperties
    <3> QED
      BY <2>2, <2>3, <2>5, <3>2, <3>3
  <2> DEFINE now == engine.results \o cut
  <2>8. engine' = [step |-> "bodies", results |-> now]
    BY <1>3, <2>4, <2>6
  <2>9. /\ now \in Seq(Scored) /\ Len(now) = Len(engine.results) + Len(cut)
        /\ \A i \in 1..(Len(engine.results) + Len(cut)) :
              now[i] = IF i =< Len(engine.results) THEN engine.results[i]
                       ELSE cut[i - Len(engine.results)]
    BY <1>1, <2>7, ConcatProperties
  <2>10. /\ Len(engine.results) \in Nat /\ Len(cut) \in Nat
         /\ DOMAIN engine.results = 1..Len(engine.results) /\ DOMAIN now = 1..Len(now)
    BY <1>1, <2>7, <2>9, LenProperties
  <2> HIDE DEF now
  <2>11. engine'.results = now
    BY <2>8
  <2>12. Engine!Found \subseteq Engine!Found'
    <3>1. \A i \in DOMAIN engine.results : i \in DOMAIN now /\ now[i] = engine.results[i]
      BY <2>9, <2>10
    <3> QED
      BY <2>11, <3>1 DEF Engine!Found
  <2>13. Engine!Found' \subseteq Engine!Found \cup (Engine!Ids \ deleted)
    <3>1. ASSUME NEW i \in DOMAIN now
          PROVE  now[i].id \in Engine!Found \cup (Engine!Ids \ deleted)
      <4>1. CASE i =< Len(engine.results)
        BY <2>9, <2>10, <4>1 DEF Engine!Found
      <4>2. CASE ~(i =< Len(engine.results))
        <5>1. i - Len(engine.results) \in 1..Len(cut)
          BY <2>9, <2>10, <4>2
        <5> QED
          BY <2>7, <2>9, <2>10, <4>2, <5>1
      <4> QED
        BY <4>1, <4>2
    <3> QED
      BY <2>11, <3>1 DEF Engine!Found
  <2>14. engine'.step = "bodies" /\ engine' = [step |-> engine'.step, results |-> engine'.results]
    BY <2>8
  <2>15. witness.deleted \subseteq deleted /\ witness' = witness
         /\ (~witness.cut => witness.matched \subseteq Engine!Found \cap Wanted)
         /\ Engine!Found \cap witness.deleted = {}
    BY <1>1 DEF SearchInv
  <2>16. Engine!Found' \cap witness'.deleted = {}
         /\ (~witness'.cut => witness'.matched \subseteq Engine!Found' \cap Wanted)
    BY <2>12, <2>13, <2>15
  <2> QED
    BY <1>1, <2>9, <2>11, <2>14, <2>15, <2>16 DEF SearchInv, IsWitness
<1> QED
  BY <1>2, <1>3 DEF Engine!FuzzySearch

LEMMA BodiesAreFetched ==
  ASSUME SearchInv, Engine!FetchBodies
  PROVE  SearchInv'
<1> DEFINE r == engine.results
           now == [i \in DOMAIN r |-> [r[i] EXCEPT !.snippet = content[r[i].id]]]
<1>1. /\ engine' = [step |-> "rank", results |-> now] /\ engine.step = "bodies"
      /\ UNCHANGED <<content, indexed, grams, deleted, witness>>
  BY DEF Engine!FetchBodies
<1>2. r \in Seq(Scored) /\ Len(r) \in Nat /\ DOMAIN r = 1..Len(r) /\ \A i \in DOMAIN r : r[i] \in Scored
  BY LenProperties DEF SearchInv
<1> HIDE DEF r
<1>3. ASSUME NEW i \in DOMAIN r PROVE now[i] \in Scored /\ now[i].id = r[i].id
  <2>1. r[i] = [id |-> r[i].id, score |-> r[i].score, snippet |-> r[i].snippet]
        /\ r[i].id \in Engine!Ids /\ r[i].score \in Int
    BY <1>2 DEF Scored
  <2>2. now[i] = [id |-> r[i].id, score |-> r[i].score, snippet |-> content[r[i].id]]
    BY <2>1
  <2>3. content[r[i].id] \in Engine!Texts \cup {"none"}
    BY <2>1 DEF SearchInv
  <2> QED
    BY <2>1, <2>2, <2>3 DEF Scored
<1>4. now \in [1..Len(r) -> Scored] /\ DOMAIN now = DOMAIN r
  BY <1>2, <1>3
<1>5. now \in Seq(Scored)
  BY <1>2, <1>4
<1> HIDE DEF now
<1>6. Engine!Found' = Engine!Found
  BY <1>1, <1>3, <1>4 DEF Engine!Found, r
<1>7. engine'.results = now /\ engine'.step = "rank"
      /\ engine' = [step |-> engine'.step, results |-> engine'.results]
  BY <1>1
<1> QED
  BY <1>1, <1>5, <1>6, <1>7 DEF SearchInv, IsWitness

(* A search that ends without an answer.                                     *)
LEMMA SearchIsGivenUp ==
  ASSUME SearchInv, Engine!PanicOnSnippet \/ Engine!FailToRead
  PROVE  SearchInv'
<1>1. PICK end \in {"idle", "panicked"} : engine' = [step |-> end, results |-> <<>>]
  BY DEF Engine!PanicOnSnippet, Engine!FailToRead
<1>2. UNCHANGED <<content, indexed, grams, deleted, witness>>
  BY DEF Engine!PanicOnSnippet, Engine!FailToRead
<1>3. engine'.results = <<>> /\ engine'.step = end /\ <<>> \in Seq(Scored)
      /\ engine' = [step |-> engine'.step, results |-> engine'.results]
  BY <1>1
<1>4. Engine!Found' = {}
  BY <1>3 DEF Engine!Found
<1> QED
  BY <1>1, <1>2, <1>3, <1>4 DEF SearchInv, IsWitness

LEMMA HitsAreRanked ==
  ASSUME SearchInv, Engine!Rank
  PROVE  SearchInv'
<1>1. PICK r : r = engine.results
  OBVIOUS
<1>0. PICK first : first = {i \in DOMAIN r :
                             r[i].id \in Wanted /\ \A j \in 1..(i - 1) : r[j].id # r[i].id}
  OBVIOUS
<1> DEFINE n == Cardinality(first)
<1>2. PICK ranked \in Engine!Ranked(r, first) :
         engine' = [step |-> "done", results |-> Engine!UpTo(Limit, ranked)]
  BY <1>0, <1>1 DEF Engine!Rank
<1>3. /\ UNCHANGED <<content, indexed, grams, deleted>> /\ engine.step = "rank"
      /\ IsWitness(witness') /\ witness'.late = witness.late
      /\ witness'.captions = witness.captions /\ witness'.deleted = witness.deleted
      /\ witness'.matched = witness.matched /\ (witness'.cut <=> witness.cut \/ Limit < n)
  <2>1. UNCHANGED <<content, indexed, grams, deleted>> /\ engine.step = "rank"
    BY DEF Engine!Rank
  <2> DEFINE cut == witness.cut \/ Limit < n
  <2>2. witness' = [witness EXCEPT !.cut = cut]
    BY <1>0, <1>1, CountsInSearch DEF Engine!Rank
  <2>3. witness = [late |-> witness.late, captions |-> witness.captions, deleted |-> witness.deleted,
                   matched |-> witness.matched, cut |-> witness.cut]
    BY DEF SearchInv, IsWitness
  <2> HIDE DEF cut
  <2>4. witness' = [late |-> witness.late, captions |-> witness.captions, deleted |-> witness.deleted,
                    matched |-> witness.matched, cut |-> cut]
    BY <2>2, <2>3
  <2>5. IsWitness(witness') /\ witness'.late = witness.late
        /\ witness'.captions = witness.captions /\ witness'.deleted = witness.deleted
        /\ witness'.matched = witness.matched /\ witness'.cut = cut
    BY <2>4 DEF IsWitness
  <2> QED
    BY <2>1, <2>5 DEF cut
<1>4. /\ r \in Seq(Scored) /\ Len(r) \in Nat /\ DOMAIN r = 1..Len(r)
      /\ \A i \in DOMAIN r : r[i].id \in Engine!Ids /\ r[i].score \in Int /\ r[i] \in Scored
      /\ \A m \in Engine!Ids : m \in Nat
  <2>1. r \in Seq(Scored) /\ MessageCount \in Nat
    BY <1>1, SearchAssumption DEF SearchInv
  <2>2. Len(r) \in Nat /\ DOMAIN r = 1..Len(r) /\ \A i \in DOMAIN r : r[i] \in Scored
    BY <2>1, LenProperties
  <2>3. \A x \in Scored : x.id \in Engine!Ids /\ x.score \in Int
    BY DEF Scored
  <2> QED
    BY <2>1, <2>2, <2>3 DEF Engine!Ids
<1>5. IsFiniteSet(first) /\ n \in Nat /\ n =< MessageCount
  <2> DEFINE ids == [i \in first |-> r[i].id]
  <2>1. ids \in [first -> Engine!Ids]
    BY <1>0, <1>4
  <2>2. \A i, j \in first : ids[i] = ids[j] => i = j
    <3>1. \A i, j \in first : i < j => i \in 1..(j - 1) /\ r[i].id # r[j].id
      BY <1>0, <1>4
    <3>2. \A i, j \in first : i < j \/ j < i \/ i = j
      BY <1>0, <1>4
    <3> QED
      BY <3>1, <3>2
  <2>3. ids \in Injection(first, Engine!Ids)
    BY <2>1, <2>2, Fun_IsInj
  <2>4. IsFiniteSet(Engine!Ids) /\ Cardinality(Engine!Ids) =< MessageCount
        /\ Cardinality(Engine!Ids) \in Nat
    BY MessagesAreFew
  <2> HIDE DEF ids
  <2>5. IsFiniteSet(first) /\ n =< Cardinality(Engine!Ids)
    BY <2>3, <2>4, FS_Injection
  <2> QED
    BY <2>4, <2>5, FS_CardinalityType, SearchAssumption
<1>6. PICK order \in [1..n -> first] :
         /\ \A k, l \in 1..n : k < l => order[k] # order[l]
         /\ ranked = [k \in 1..n |-> r[order[k]]]
  <2>1. PICK order \in [1..n -> first] :
           /\ \A k, l \in DOMAIN order : k < l =>
                 \/ r[order[k]].score > r[order[l]].score
                 \/ r[order[k]].score = r[order[l]].score /\ r[order[k]].id > r[order[l]].id
           /\ ranked = [k \in DOMAIN order |-> r[order[k]]]
    BY <1>2, CountsInSearch DEF Engine!Ranked, Engine!Sorted
  <2>2. \A k \in 1..n : order[k] \in DOMAIN r
    BY <1>0, <2>1
  <2>3. \A i \in DOMAIN r : ~ (r[i].score > r[i].score) /\ ~ (r[i].id > r[i].id)
    BY <1>4
  <2>4. DOMAIN order = 1..n
    BY <2>1
  <2>5. \A k, l \in 1..n : k < l => order[k] # order[l]
    BY <2>1, <2>2, <2>3, <2>4
  <2> QED
    BY <2>1, <2>4, <2>5
<1>7. \A i \in first : \E k \in 1..n : order[k] = i
  <2>1. \A k, l \in 1..n : k < l => order[k] # order[l]
    BY <1>6
  <2> QED
    BY <1>5, <2>1, ListedAll
<1>8. first \subseteq DOMAIN r /\ \A i \in first : r[i].id \in Wanted
  BY <1>0
<1>9. \A m \in Engine!Found \cap Wanted : \E i \in first : r[i].id = m
  <2> SUFFICES ASSUME NEW m \in Engine!Found \cap Wanted PROVE \E i \in first : r[i].id = m
    OBVIOUS
  <2> DEFINE at == {i \in DOMAIN r : r[i].id = m}
  <2>1. at \in SUBSET Nat /\ at # {}
    BY <1>1, <1>4 DEF Engine!Found
  <2>2. PICK i \in at : \A j \in at : i =< j
    BY <2>1, LeastOf
  <2>3. \A j \in 1..(i - 1) : j \in DOMAIN r /\ j \notin at
    BY <1>4, <2>2
  <2> QED
    BY <1>0, <2>2, <2>3
<1> HIDE DEF n
<1>10. ranked \in Seq(Scored) /\ Len(ranked) = n
  <2>1. ranked \in [1..n -> Scored]
    BY <1>4, <1>6, <1>8
  <2> QED
    BY <1>5, <2>1
<1>11. /\ engine' = [step |-> engine'.step, results |-> engine'.results]
       /\ engine'.results \in Seq(Scored) /\ engine'.step = "done"
       /\ \A k \in DOMAIN engine'.results : k \in 1..n /\ engine'.results[k] = r[order[k]]
       /\ ~ (Limit < n) => DOMAIN engine'.results = 1..n
  <2>1. PICK few : few = Engine!UpTo(Limit, ranked)
    OBVIOUS
  <2>2. Limit \in Nat /\ DOMAIN ranked = 1..n
    BY <1>10, LenProperties, SearchAssumption
  <2>3. /\ few \in Seq(Scored)
        /\ DOMAIN few = 1..(IF Limit < Len(ranked) THEN Limit ELSE Len(ranked))
        /\ \A k \in DOMAIN few : k \in DOMAIN ranked /\ few[k] = ranked[k]
    BY <1>10, <2>1, <2>2, ListIsCut
  <2>4. engine' = [step |-> "done", results |-> few]
    BY <1>2, <2>1
  <2>5. \A k \in 1..n : ranked[k] = r[order[k]]
    BY <1>6
  <2> QED
    BY <1>10, <2>2, <2>3, <2>4, <2>5
<1>12. Engine!Found' \subseteq Engine!Found \cap Wanted
  <2>1. \A k \in DOMAIN engine'.results : order[k] \in first
    BY <1>6, <1>11
  <2> QED
    BY <1>1, <1>8, <1>11, <2>1 DEF Engine!Found
<1>13. ~ (Limit < n) => Engine!Found \cap Wanted \subseteq Engine!Found'
  <2> SUFFICES ASSUME ~ (Limit < n), NEW m \in Engine!Found \cap Wanted PROVE m \in Engine!Found'
    OBVIOUS
  <2>1. PICK i \in first : r[i].id = m
    BY <1>9
  <2>2. PICK k \in 1..n : order[k] = i
    BY <1>7
  <2>3. k \in DOMAIN engine'.results /\ engine'.results[k] = r[i]
    BY <1>11, <2>2
  <2> QED
    BY <2>1, <2>3 DEF Engine!Found
<1>14. ~witness'.cut => witness'.matched \subseteq Engine!Found' \cap Wanted
  <2> SUFFICES ASSUME ~witness'.cut PROVE witness'.matched \subseteq Engine!Found' \cap Wanted
    OBVIOUS
  <2>1. ~witness.cut /\ ~ (Limit < n)
    BY <1>3
  <2>2. witness.matched \subseteq Engine!Found \cap Wanted
    BY <1>3, <2>1 DEF SearchInv
  <2> QED
    BY <1>3, <1>13, <2>1, <2>2
<1>15. Engine!Found' \cap witness'.deleted = {}
  BY <1>3, <1>12 DEF SearchInv
<1> QED
  BY <1>3, <1>11, <1>14, <1>15 DEF SearchInv

LEMMA SearchNext == SearchInv /\ [Engine!Next]_searchVars => SearchInv'
<1> SUFFICES ASSUME SearchInv, [Engine!Next]_searchVars PROVE SearchInv'
  OBVIOUS
<1>1. CASE UNCHANGED searchVars
  BY <1>1 DEF searchVars, SearchInv, IsWitness, Engine!Found
<1>2. ASSUME NEW m \in Engine!Ids, NEW w \in Engine!Writes, Engine!Check(w, m) PROVE SearchInv'
  BY <1>2 DEF Engine!Check, SearchInv, IsWitness, Engine!Found
<1>3. ASSUME NEW m \in Engine!Ids, NEW t \in Engine!Texts, Engine!SendMedia(m, t) PROVE SearchInv'
  BY <1>3, MessageChanges DEF Engine!SendMedia
<1>4. ASSUME NEW m \in Engine!Ids, NEW t \in Engine!Texts, NEW w \in {"ingest", "edit"},
             Engine!Write(w, m, t) \/ Engine!WriteLate(w, m, t)
      PROVE  SearchInv'
  <2>1. Engine!Changed(w, m, t) /\ Engine!Becomes(w, m, t)
    BY <1>4 DEF Engine!Write, Engine!WriteLate
  <2> QED
    BY <2>1, MessageChanges
<1>5. ASSUME NEW m \in Engine!Ids, NEW t \in {"none", "kept"},
             Engine!Write("delete", m, t) \/ Engine!WriteLate("delete", m, t)
      PROVE  SearchInv'
  <2>1. Engine!Changed("delete", m, t) /\ Engine!Becomes("delete", m, t)
    BY <1>5 DEF Engine!Write, Engine!WriteLate
  <2> QED
    BY <2>1, MessageChanges
<1> QED
  BY <1>1, <1>2, <1>3, <1>4, <1>5, TextIsSearched, FuzzyIsSearched, BodiesAreFetched,
     SearchIsGivenUp, HitsAreRanked
  DEF Engine!Next

(* The first part of SearchFinds: a search over a store that changes between *)
(* its reads finds each message that matches word for word throughout it and *)
(* passes the filters, unless a limit cuts or its text is a caption, and     *)
(* none that was deleted before it, unless a delivery or an edit that had    *)
(* been checked before the delete is written after it (execute_search).      *)
THEOREM MatchesAreFound == Spec => [](Engine!MatchIsFound /\ Engine!DeletedNotFound)
<1>1. Init => SearchInv
  BY SearchBegins DEF Init
<1>2. SearchInv /\ [Next]_vars => SearchInv'
  BY PartsMove, SearchNext
<1>3. SearchInv => Engine!MatchIsFound /\ Engine!DeletedNotFound
  BY DEF SearchInv, Engine!MatchIsFound, Engine!DeletedNotFound, Engine!Finished
<1> QED
  BY <1>1, <1>2, <1>3, PTL DEF Spec

--------------------------------------------------------------------------------

LEMMA CountsInFuzzy == \A T : Fuzzy!Cardinality(T) = Cardinality(T)
  BY Zenon DEF Fuzzy!Cardinality, Cardinality

(* An alignment pairs a character with one other at most.                    *)
LEMMA PairsAreFew ==
  ASSUME NEW i \in Nat, NEW j \in Nat, NEW a \in Fuzzy!Alignments(i, j)
  PROVE  /\ IsFiniteSet(a) /\ Cardinality(a) \in Nat /\ Cardinality(a) =< i /\ Cardinality(a) =< j
         /\ IsFiniteSet(Fuzzy!Substitutions(a)) /\ Cardinality(Fuzzy!Substitutions(a)) \in Nat
<1>1. /\ IsFiniteSet(1..i) /\ Cardinality(1..i) = i
      /\ IsFiniteSet(1..j) /\ Cardinality(1..j) = j
  <2>1. ASSUME NEW k \in Nat PROVE IsFiniteSet(1..k) /\ Cardinality(1..k) = k
    <3>1. IsFiniteSet(1..k) /\ Cardinality(1..k) = IF 1 > k THEN 0 ELSE k - 1 + 1
      BY FS_Interval
    <3> QED
      BY <3>1
  <2> QED
    BY <2>1
<1>2. /\ a \subseteq (1..i) \X (1..j)
      /\ \A p, r \in a : p = r \/ (p[1] < r[1] /\ p[2] < r[2]) \/ (p[1] > r[1] /\ p[2] > r[2])
  BY DEF Fuzzy!Alignments
<1> DEFINE first == [p \in a |-> p[1]]
           second == [p \in a |-> p[2]]
<1>3. first \in Injection(a, 1..i)
  <2>1. first \in [a -> 1..i]
    BY <1>2
  <2>2. \A p, r \in a : first[p] = first[r] => p = r
    BY <1>2
  <2> HIDE DEF first
  <2> QED
    BY <2>1, <2>2, Fun_IsInj
<1>4. second \in Injection(a, 1..j)
  <2>1. second \in [a -> 1..j]
    BY <1>2
  <2>2. \A p, r \in a : second[p] = second[r] => p = r
    BY <1>2
  <2> HIDE DEF second
  <2> QED
    BY <2>1, <2>2, Fun_IsInj
<1> HIDE DEF first, second
<1>5. IsFiniteSet(a) /\ Cardinality(a) =< i /\ Cardinality(a) =< j
  BY <1>1, <1>3, <1>4, FS_Injection
<1>6. Fuzzy!Substitutions(a) \in SUBSET a
  BY DEF Fuzzy!Substitutions
<1> QED
  BY <1>5, <1>6, FS_Subset, FS_CardinalityType

CostOf(a, i, j) == i + j - 2 * Cardinality(a) + Cardinality(Fuzzy!Substitutions(a))

LeastCost(d, i, j) ==
    /\ d \in Nat
    /\ \E a \in Fuzzy!Alignments(i, j) : d = CostOf(a, i, j)
    /\ \A a \in Fuzzy!Alignments(i, j) : CostOf(a, i, j) \in Nat /\ d =< CostOf(a, i, j)

(* The distance of two prefixes is the cost of one alignment and no more     *)
(* than that of any other.                                                   *)
LEMMA DistanceIsLeast ==
  ASSUME NEW i \in Nat, NEW j \in Nat PROVE LeastCost(Fuzzy!Distance(i, j), i, j)
<1>1. Fuzzy!Costs(i, j) = {CostOf(a, i, j) : a \in Fuzzy!Alignments(i, j)}
  BY CountsInFuzzy, Zenon DEF Fuzzy!Costs, CostOf
<1>2. \A a \in Fuzzy!Alignments(i, j) : CostOf(a, i, j) \in Nat
  BY PairsAreFew DEF CostOf
<1>3. {} \in Fuzzy!Alignments(i, j)
  BY DEF Fuzzy!Alignments
<1>4. Fuzzy!Costs(i, j) \in SUBSET Nat /\ Fuzzy!Costs(i, j) # {}
  BY <1>1, <1>2, <1>3
<1>5. \E d \in Fuzzy!Costs(i, j) : \A e \in Fuzzy!Costs(i, j) : d =< e
  BY <1>4, LeastOf
<1>6. /\ Fuzzy!Distance(i, j) \in Fuzzy!Costs(i, j)
      /\ \A e \in Fuzzy!Costs(i, j) : Fuzzy!Distance(i, j) =< e
  BY <1>5, Zenon DEF Fuzzy!Distance
<1> QED
  BY <1>1, <1>2, <1>4, <1>6 DEF LeastCost

(* What the rows compute: the first row and the first column ...             *)
LEMMA DistanceToNothing ==
  ASSUME NEW i \in Nat PROVE Fuzzy!Distance(0, i) = i /\ Fuzzy!Distance(i, 0) = i
<1>1. \A a \in Fuzzy!Alignments(0, i) : a = {}
  BY DEF Fuzzy!Alignments
<1>2. \A a \in Fuzzy!Alignments(i, 0) : a = {}
  BY DEF Fuzzy!Alignments
<1>3. Fuzzy!Substitutions({}) = {} /\ Cardinality({}) = 0
  BY FS_EmptySet DEF Fuzzy!Substitutions
<1>4. CostOf({}, 0, i) = i /\ CostOf({}, i, 0) = i
  <2> DEFINE c == Cardinality({})
             s == Cardinality(Fuzzy!Substitutions({}))
  <2>1. c = 0 /\ s = 0
    BY <1>3
  <2>2. CostOf({}, 0, i) = 0 + i - 2 * c + s /\ CostOf({}, i, 0) = i + 0 - 2 * c + s
    BY DEF CostOf
  <2> HIDE DEF c, s
  <2> QED
    BY <2>1, <2>2
<1>5. LeastCost(Fuzzy!Distance(0, i), 0, i) /\ LeastCost(Fuzzy!Distance(i, 0), i, 0)
  BY DistanceIsLeast
<1> QED
  BY <1>1, <1>2, <1>4, <1>5 DEF LeastCost

(* ... and each further cell from three that are there.                      *)
LEMMA DistanceFromThree ==
  ASSUME NEW i \in Nat, NEW j \in Nat
  PROVE  Fuzzy!Distance(i + 1, j + 1)
            = Fuzzy!Smaller(Fuzzy!Smaller(Fuzzy!Distance(i, j + 1) + 1, Fuzzy!Distance(i + 1, j) + 1),
                            Fuzzy!Distance(i, j) + Fuzzy!Cost(i + 1, j + 1))
<1> DEFINE c == Fuzzy!Cost(i + 1, j + 1)
           cell == <<i + 1, j + 1>>
           up == Fuzzy!Distance(i, j + 1)
           leftward == Fuzzy!Distance(i + 1, j)
           across == Fuzzy!Distance(i, j)
           this == Fuzzy!Distance(i + 1, j + 1)
<1>1. c \in {0, 1} /\ (c = 1 <=> Fuzzy!Lower(query[i + 1]) # Fuzzy!Lower(text[j + 1]))
  BY DEF Fuzzy!Cost
<1>2. /\ LeastCost(up, i, j + 1) /\ LeastCost(leftward, i + 1, j)
      /\ LeastCost(across, i, j) /\ LeastCost(this, i + 1, j + 1)
  <2>1. i + 1 \in Nat /\ j + 1 \in Nat
    OBVIOUS
  <2>2. \A m, n \in Nat : LeastCost(Fuzzy!Distance(m, n), m, n)
    BY DistanceIsLeast
  <2> QED
    BY <2>1, <2>2
<1>2a. up \in Nat /\ leftward \in Nat /\ across \in Nat /\ this \in Nat
  BY <1>2 DEF LeastCost
<1> HIDE DEF c, up, leftward, across, this
<1>3. this =< up + 1
  <2>1. PICK a \in Fuzzy!Alignments(i, j + 1) : up = CostOf(a, i, j + 1)
    BY <1>2 DEF LeastCost
  <2>2. a \in Fuzzy!Alignments(i + 1, j + 1)
    BY DEF Fuzzy!Alignments
  <2>3. CostOf(a, i + 1, j + 1) = CostOf(a, i, j + 1) + 1
    BY PairsAreFew DEF CostOf
  <2>4. this =< CostOf(a, i + 1, j + 1)
    BY <1>2, <2>2 DEF LeastCost
  <2> QED
    BY <2>1, <2>3, <2>4
<1>4. this =< leftward + 1
  <2>1. PICK a \in Fuzzy!Alignments(i + 1, j) : leftward = CostOf(a, i + 1, j)
    BY <1>2 DEF LeastCost
  <2>2. a \in Fuzzy!Alignments(i + 1, j + 1)
    BY DEF Fuzzy!Alignments
  <2>3. CostOf(a, i + 1, j + 1) = CostOf(a, i + 1, j) + 1
    BY PairsAreFew DEF CostOf
  <2>4. this =< CostOf(a, i + 1, j + 1)
    BY <1>2, <2>2 DEF LeastCost
  <2> QED
    BY <2>1, <2>3, <2>4
<1>5. ASSUME NEW a \in Fuzzy!Alignments(i, j)
      PROVE  /\ a \cup {cell} \in Fuzzy!Alignments(i + 1, j + 1)
             /\ CostOf(a \cup {cell}, i + 1, j + 1) = CostOf(a, i, j) + c
  <2>1. /\ a \subseteq (1..i) \X (1..j)
        /\ \A p, r \in a : p = r \/ (p[1] < r[1] /\ p[2] < r[2]) \/ (p[1] > r[1] /\ p[2] > r[2])
    BY DEF Fuzzy!Alignments
  <2>2. \A p \in a : p \in (1..(i + 1)) \X (1..(j + 1)) /\ p[1] < cell[1] /\ p[2] < cell[2]
    BY <2>1
  <2>3. cell \in (1..(i + 1)) \X (1..(j + 1)) /\ cell \notin a
    BY <2>2
  <2>4. a \cup {cell} \in Fuzzy!Alignments(i + 1, j + 1)
    BY <2>1, <2>2, <2>3 DEF Fuzzy!Alignments
  <2>5. /\ IsFiniteSet(a) /\ Cardinality(a) \in Nat
        /\ IsFiniteSet(Fuzzy!Substitutions(a)) /\ Cardinality(Fuzzy!Substitutions(a)) \in Nat
    BY PairsAreFew
  <2>6. Cardinality(a \cup {cell}) = Cardinality(a) + 1
    <3>1. Cardinality(a \cup {cell}) = IF cell \in a THEN Cardinality(a) ELSE Cardinality(a) + 1
      BY <2>5, FS_AddElement
    <3> QED
      BY <2>3, <3>1
  <2>7. Cardinality(Fuzzy!Substitutions(a \cup {cell})) = Cardinality(Fuzzy!Substitutions(a)) + c
    <3>1. CASE c = 1
      <4>1. Fuzzy!Substitutions(a \cup {cell}) = Fuzzy!Substitutions(a) \cup {cell}
        BY <1>1, <3>1 DEF Fuzzy!Substitutions
      <4>2. cell \notin Fuzzy!Substitutions(a)
        BY <2>3 DEF Fuzzy!Substitutions
      <4>3. Cardinality(Fuzzy!Substitutions(a) \cup {cell})
               = IF cell \in Fuzzy!Substitutions(a) THEN Cardinality(Fuzzy!Substitutions(a))
                 ELSE Cardinality(Fuzzy!Substitutions(a)) + 1
        BY <2>5, FS_AddElement
      <4> HIDE DEF cell
      <4> QED
        BY <3>1, <4>1, <4>2, <4>3
    <3>2. CASE c = 0
      <4>1. Fuzzy!Substitutions(a \cup {cell}) = Fuzzy!Substitutions(a)
        BY <1>1, <3>2 DEF Fuzzy!Substitutions
      <4> QED
        BY <2>5, <3>2, <4>1
    <3> QED
      BY <1>1, <3>1, <3>2
  <2> HIDE DEF cell
  <2> QED
    BY <1>1, <2>4, <2>5, <2>6, <2>7 DEF CostOf
<1>6. this =< across + c
  <2>1. PICK a \in Fuzzy!Alignments(i, j) : across = CostOf(a, i, j)
    BY <1>2 DEF LeastCost
  <2>2. this =< CostOf(a \cup {cell}, i + 1, j + 1)
    BY <1>2, <1>5 DEF LeastCost
  <2> QED
    BY <1>5, <2>1, <2>2
<1>7. this >= up + 1 \/ this >= leftward + 1 \/ this >= across + c
  <2>1. PICK a \in Fuzzy!Alignments(i + 1, j + 1) : this = CostOf(a, i + 1, j + 1)
    BY <1>2 DEF LeastCost
  <2>2. /\ a \subseteq (1..(i + 1)) \X (1..(j + 1))
        /\ \A p, r \in a : p = r \/ (p[1] < r[1] /\ p[2] < r[2]) \/ (p[1] > r[1] /\ p[2] > r[2])
    BY DEF Fuzzy!Alignments
  <2>3. CASE cell \in a
    <3> DEFINE b == a \ {cell}
    <3>1. b \in Fuzzy!Alignments(i, j)
      <4>1. \A p \in b : p[1] \in 1..i /\ p[2] \in 1..j /\ p \in (1..i) \X (1..j)
        BY <2>2, <2>3
      <4> QED
        BY <2>2, <4>1 DEF Fuzzy!Alignments
    <3>2. b \cup {cell} = a
      BY <2>3
    <3> HIDE DEF b, cell
    <3>3. this = CostOf(b, i, j) + c
      BY <1>5, <2>1, <3>1, <3>2
    <3>4. across =< CostOf(b, i, j) /\ CostOf(b, i, j) \in Nat
      BY <1>2, <3>1 DEF LeastCost
    <3> QED
      BY <1>1, <1>2a, <3>3, <3>4
  <2>4. CASE cell \notin a /\ \A p \in a : p[1] # i + 1
    <3>1. \A p \in a : p[1] \in 1..i /\ p \in (1..i) \X (1..(j + 1))
      BY <2>2, <2>4
    <3>2. a \in Fuzzy!Alignments(i, j + 1)
      BY <2>2, <3>1 DEF Fuzzy!Alignments
    <3>3. CostOf(a, i + 1, j + 1) = CostOf(a, i, j + 1) + 1
      BY <3>2, PairsAreFew DEF CostOf
    <3>4. up =< CostOf(a, i, j + 1) /\ CostOf(a, i, j + 1) \in Nat
      BY <1>2, <3>2 DEF LeastCost
    <3> QED
      BY <1>2a, <2>1, <3>3, <3>4
  <2>5. CASE cell \notin a /\ \E p \in a : p[1] = i + 1
    <3>1. PICK p \in a : p[1] = i + 1
      BY <2>5
    <3>2. p[2] \in 1..j
      BY <2>2, <2>5, <3>1
    <3>3. \A r \in a : r[1] =< i + 1 /\ r[2] \in Nat /\ r[1] \in Nat
      BY <2>2
    <3>4. \A r \in a : r[2] =< p[2]
      BY <2>2, <3>1, <3>2, <3>3
    <3>5. \A r \in a : r \in (1..(i + 1)) \X (1..j)
      BY <2>2, <3>2, <3>4
    <3>6. a \in Fuzzy!Alignments(i + 1, j)
      BY <2>2, <3>5 DEF Fuzzy!Alignments
    <3>7. CostOf(a, i + 1, j + 1) = CostOf(a, i + 1, j) + 1
      BY <3>6, PairsAreFew DEF CostOf
    <3>8. leftward =< CostOf(a, i + 1, j) /\ CostOf(a, i + 1, j) \in Nat
      BY <1>2, <3>6 DEF LeastCost
    <3> QED
      BY <1>2a, <2>1, <3>7, <3>8
  <2> QED
    BY <2>3, <2>4, <2>5
<1>8. this = Fuzzy!Smaller(Fuzzy!Smaller(up + 1, leftward + 1), across + c)
  BY <1>2a, <1>1, <1>3, <1>4, <1>6, <1>7 DEF Fuzzy!Smaller
<1> QED
  BY <1>8 DEF up, leftward, across, this, c

(* Each row is the distances from a prefix of the query, none of them more   *)
(* than the longer prefix.                                                   *)
FuzzyInv ==
    /\ Fuzzy!TypeOK
    /\ \A j \in 0..Len(text) : prev[j] = Fuzzy!Distance(row, j) /\ prev[j] =< Fuzzy!Larger(row, j)

IsRow(f) ==
    f = [j \in 0..Len(text) |->
            IF j = 0 THEN row + 1
            ELSE Fuzzy!Smaller(Fuzzy!Smaller(prev[j] + 1, f[j - 1] + 1),
                               prev[j - 1] + Fuzzy!Cost(row + 1, j))]

(* The recursion over a row comes to something.                              *)
LEMMA RowExists == ASSUME FuzzyInv PROVE \E f : IsRow(f)
<1> DEFINE n == Len(text)
           cell(before, j) == Fuzzy!Smaller(Fuzzy!Smaller(prev[j] + 1, before + 1),
                                            prev[j - 1] + Fuzzy!Cost(row + 1, j))
           upTo(k, f) == /\ f = [j \in 0..k |-> f[j]] /\ f[0] = row + 1
                         /\ \A j \in 1..k : f[j] = cell(f[j - 1], j)
           S == {k \in Nat : \E f : upTo(k, f)}
<1>1. n \in Nat
  BY DEF FuzzyInv, Fuzzy!TypeOK
<1> HIDE DEF n, cell
<1>2. 0 \in S
  <2>1. upTo(0, [j \in 0..0 |-> row + 1])
    OBVIOUS
  <2> QED
    BY <2>1
<1>3. ASSUME NEW k \in Nat, k \in S PROVE k + 1 \in S
  <2>1. PICK f : upTo(k, f)
    BY <1>3
  <2> DEFINE g == [j \in 0..(k + 1) |-> IF j =< k THEN f[j] ELSE cell(f[k], k + 1)]
  <2>2. g[0] = row + 1 /\ \A j \in 0..k : g[j] = f[j]
    BY <2>1
  <2>3. ASSUME NEW j \in 1..(k + 1) PROVE g[j] = cell(g[j - 1], j)
    <3>1. CASE j =< k
      <4>1. j \in 1..k /\ j \in 0..k /\ j - 1 \in 0..k
        BY <3>1
      <4>2. g[j] = f[j] /\ g[j - 1] = f[j - 1]
        BY <2>2, <4>1
      <4> QED
        BY <2>1, <4>1, <4>2
    <3>2. CASE ~ (j =< k)
      <4>1. j = k + 1 /\ j - 1 = k /\ k \in 0..k /\ j \in 0..(k + 1)
        BY <3>2
      <4>2. g[j] = cell(f[k], k + 1)
        BY <3>2, <4>1
      <4> HIDE DEF g
      <4> QED
        BY <2>2, <4>1, <4>2
    <3> QED
      BY <3>1, <3>2
  <2>4. g = [j \in 0..(k + 1) |-> g[j]]
    OBVIOUS
  <2> HIDE DEF g
  <2>5. upTo(k + 1, g)
    BY <2>2, <2>3, <2>4
  <2> HIDE DEF upTo
  <2> QED
    BY <2>5
<1> HIDE DEF upTo
<1>4. n \in S
  <2> HIDE DEF S
  <2> QED
    BY <1>1, <1>2, <1>3, Inductive
<1>5. PICK f : upTo(n, f)
  BY <1>4
<1>6. f = [j \in 0..n |-> f[j]] /\ f[0] = row + 1 /\ \A j \in 1..n : f[j] = cell(f[j - 1], j)
  BY <1>5 DEF upTo
<1>7. \A j \in 0..n : f[j] = IF j = 0 THEN row + 1 ELSE cell(f[j - 1], j)
  <2> TAKE j \in 0..n
  <2>1. j = 0 \/ j \in 1..n
    BY <1>1
  <2>2. CASE j = 0
    BY <1>6, <2>2
  <2>3. CASE j # 0
    <3>1. f[j] = cell(f[j - 1], j)
      BY <1>6, <2>1, <2>3
    <3> QED
      BY <2>3, <3>1
  <2> QED
    BY <2>2, <2>3
<1>8. f = [j \in 0..n |-> IF j = 0 THEN row + 1 ELSE cell(f[j - 1], j)]
  BY <1>6, <1>7
<1> QED
  BY <1>8, Zenon DEF IsRow, n, cell

(* It is the next row of distances.                                          *)
LEMMA RowIsNext ==
  ASSUME FuzzyInv, row < Len(query), NEW f, IsRow(f)
  PROVE  /\ f \in [0..Len(text) -> 0..Fuzzy!Larger(row + 1, Len(text))]
         /\ \A j \in 0..Len(text) : /\ f[j] = Fuzzy!Distance(row + 1, j)
                                    /\ f[j] =< Fuzzy!Larger(row + 1, j)
<1> DEFINE n == Len(text)
           S == {k \in Nat : k =< n => /\ f[k] \in Nat /\ f[k] = Fuzzy!Distance(row + 1, k)
                                      /\ f[k] =< Fuzzy!Larger(row + 1, k)}
<1>1. /\ n \in Nat /\ row \in Nat /\ prev \in [0..n -> Nat]
      /\ \A j \in 0..n : prev[j] = Fuzzy!Distance(row, j) /\ prev[j] =< Fuzzy!Larger(row, j)
  <2>1. n \in Nat /\ row \in Nat
    BY DEF FuzzyInv, Fuzzy!TypeOK
  <2>2. prev \in [0..n -> Nat]
    BY <2>1 DEF FuzzyInv, Fuzzy!TypeOK
  <2> QED
    BY <2>1, <2>2 DEF FuzzyInv
<1> HIDE DEF n
<1>2. /\ f[0] = row + 1 /\ f = [j \in 0..n |-> f[j]]
      /\ \A j \in 1..n : f[j] = Fuzzy!Smaller(Fuzzy!Smaller(prev[j] + 1, f[j - 1] + 1),
                                              prev[j - 1] + Fuzzy!Cost(row + 1, j))
  <2>1. \A j \in 0..n : f[j] = IF j = 0 THEN row + 1
                               ELSE Fuzzy!Smaller(Fuzzy!Smaller(prev[j] + 1, f[j - 1] + 1),
                                                  prev[j - 1] + Fuzzy!Cost(row + 1, j))
    BY DEF IsRow, n
  <2>2. f = [j \in 0..n |-> f[j]]
    BY DEF IsRow, n
  <2>3. f[0] = row + 1
    BY <1>1, <2>1
  <2>4. ASSUME NEW j \in 1..n
        PROVE  f[j] = Fuzzy!Smaller(Fuzzy!Smaller(prev[j] + 1, f[j - 1] + 1),
                                    prev[j - 1] + Fuzzy!Cost(row + 1, j))
    <3>1. j \in 0..n /\ j # 0
      BY <1>1
    <3> QED
      BY <2>1, <3>1
  <2> QED
    BY <2>2, <2>3, <2>4
<1>3. 0 \in S
  <2>1. Fuzzy!Distance(row + 1, 0) = row + 1
    BY <1>1, DistanceToNothing
  <2>2. Fuzzy!Larger(row + 1, 0) = row + 1
    BY <1>1 DEF Fuzzy!Larger
  <2> QED
    BY <1>1, <1>2, <2>1, <2>2
<1>4. ASSUME NEW k \in Nat, k \in S PROVE k + 1 \in S
  <2> SUFFICES ASSUME k + 1 =< n
               PROVE  /\ f[k + 1] \in Nat /\ f[k + 1] = Fuzzy!Distance(row + 1, k + 1)
                      /\ f[k + 1] =< Fuzzy!Larger(row + 1, k + 1)
    OBVIOUS
  <2> DEFINE c == Fuzzy!Cost(row + 1, k + 1)
  <2>1. /\ k =< n /\ f[k] \in Nat /\ f[k] = Fuzzy!Distance(row + 1, k)
        /\ f[k] =< Fuzzy!Larger(row + 1, k)
    BY <1>1, <1>4
  <2>2. /\ prev[k + 1] = Fuzzy!Distance(row, k + 1) /\ prev[k + 1] \in Nat
        /\ prev[k] = Fuzzy!Distance(row, k) /\ prev[k] \in Nat
        /\ prev[k] =< Fuzzy!Larger(row, k)
    BY <1>1, <2>1
  <2>3. c \in {0, 1}
    BY DEF Fuzzy!Cost
  <2>4. f[k + 1] = Fuzzy!Smaller(Fuzzy!Smaller(prev[k + 1] + 1, f[k] + 1), prev[k] + c)
    <3>1. k + 1 \in 1..n /\ (k + 1) - 1 = k
      BY <1>1
    <3> QED
      BY <1>2, <3>1
  <2>5. Fuzzy!Distance(row + 1, k + 1)
           = Fuzzy!Smaller(Fuzzy!Smaller(Fuzzy!Distance(row, k + 1) + 1, Fuzzy!Distance(row + 1, k) + 1),
                           Fuzzy!Distance(row, k) + c)
    BY <1>1, DistanceFromThree
  <2>6. f[k + 1] = Fuzzy!Distance(row + 1, k + 1)
    BY <2>1, <2>2, <2>4, <2>5
  <2> HIDE DEF c
  <2>7. f[k + 1] \in Nat /\ f[k + 1] =< prev[k] + 1
    BY <2>1, <2>2, <2>3, <2>4 DEF Fuzzy!Smaller
  <2>8. prev[k] + 1 =< Fuzzy!Larger(row + 1, k + 1) /\ Fuzzy!Larger(row + 1, k + 1) \in Nat
    BY <1>1, <2>2 DEF Fuzzy!Larger
  <2> QED
    BY <2>2, <2>6, <2>7, <2>8
<1>5. Nat \subseteq S
  <2> HIDE DEF S
  <2> QED
    BY <1>3, <1>4, Inductive
<1>6. \A j \in 0..n : /\ f[j] \in Nat /\ f[j] = Fuzzy!Distance(row + 1, j)
                      /\ f[j] =< Fuzzy!Larger(row + 1, j)
  BY <1>1, <1>5
<1>7. \A j \in 0..n : f[j] \in 0..Fuzzy!Larger(row + 1, n)
  <2> TAKE j \in 0..n
  <2>1. f[j] \in Nat /\ f[j] =< Fuzzy!Larger(row + 1, j)
    BY <1>6
  <2>2. Fuzzy!Larger(row + 1, j) =< Fuzzy!Larger(row + 1, n) /\ Fuzzy!Larger(row + 1, n) \in Nat
        /\ Fuzzy!Larger(row + 1, j) \in Nat
    BY <1>1 DEF Fuzzy!Larger
  <2> QED
    BY <2>1, <2>2
<1> QED
  BY <1>2, <1>6, <1>7 DEF n

LEMMA FirstRow == \A j \in Nat : Fuzzy!Distance(0, j) = j
  BY DistanceToNothing

LEMMA FuzzyBegins == Fuzzy!Init => FuzzyInv
<1> SUFFICES ASSUME Fuzzy!Init PROVE FuzzyInv
  OBVIOUS
<1>1. query = <<>> /\ text = <<>> /\ row = 0 /\ prev = [j \in 0..0 |-> 0]
  BY DEF Fuzzy!Init, Fuzzy!NoCall
<1>2. Len(query) = 0 /\ Len(text) = 0 /\ query \in Seq(Alphabet) /\ text \in Seq(Alphabet)
  BY <1>1
<1>3. Fuzzy!Distance(0, 0) = 0
  BY FirstRow
<1>4. Fuzzy!Larger(0, 0) = 0
  BY DEF Fuzzy!Larger
<1>5. Fuzzy!TypeOK
  BY <1>1, <1>2, <1>4 DEF Fuzzy!TypeOK
<1>6. \A j \in 0..0 : prev[j] = Fuzzy!Distance(0, j) /\ prev[j] =< Fuzzy!Larger(0, j)
  BY <1>1, <1>3, <1>4
<1> QED
  BY <1>1, <1>2, <1>5, <1>6 DEF FuzzyInv

(* A call begins with the distances from nothing.                            *)
LEMMA RowsBegin ==
  ASSUME NEW q \in Seq(Alphabet), NEW s \in Seq(Alphabet), query' = q, text' = s, row' = 0,
         prev' = [j \in 0..Len(s) |-> j]
  PROVE  FuzzyInv'
<1>1. \A j \in Nat : Fuzzy!Distance(0, j)' = j
  <2>1. (\A j \in Nat : Fuzzy!Distance(0, j) = j)'
    BY FirstRow, PTL
  <2> QED
    BY <2>1
<1>2. Len(s) \in Nat /\ Len(q) \in Nat
  OBVIOUS
<1>3. \A j \in Nat : Fuzzy!Larger(0, j) = j
  BY DEF Fuzzy!Larger
<1>4. prev' \in [0..Len(s) -> 0..Fuzzy!Larger(0, Len(s))]
  BY <1>2, <1>3
<1>5. Fuzzy!TypeOK'
  BY <1>2, <1>4 DEF Fuzzy!TypeOK
<1>6. ASSUME NEW j \in 0..Len(s)
      PROVE  prev'[j] = Fuzzy!Distance(0, j)' /\ prev'[j] =< Fuzzy!Larger(0, j)
  <2>1. j \in Nat /\ prev'[j] = j
    BY <1>2
  <2> QED
    BY <1>1, <1>3, <2>1
<1> QED
  BY <1>5, <1>6 DEF FuzzyInv

LEMMA FuzzyNext == FuzzyInv /\ [Fuzzy!Next]_fuzzyVars => FuzzyInv'
<1> SUFFICES ASSUME FuzzyInv, [Fuzzy!Next]_fuzzyVars PROVE FuzzyInv'
  OBVIOUS
<1>1. ASSUME query' = query, text' = text PROVE \A i, j : Fuzzy!Distance(i, j)' = Fuzzy!Distance(i, j)
  BY <1>1 DEF Fuzzy!Distance, Fuzzy!Costs, Fuzzy!Substitutions, Fuzzy!Alignments
<1>2. CASE UNCHANGED fuzzyVars
  BY <1>1, <1>2 DEF fuzzyVars, FuzzyInv, Fuzzy!TypeOK
<1>3. CASE Fuzzy!Row
  <2>1. row < Len(query) /\ row' = row + 1 /\ query' = query /\ text' = text
    BY <1>3 DEF Fuzzy!Row
  <2>2. prev' = CHOOSE f : IsRow(f)
    BY <1>3, Zenon DEF Fuzzy!Row, IsRow
  <2>3. \E f : IsRow(f)
    BY RowExists
  <2> DEFINE f == CHOOSE g : IsRow(g)
  <2>4. IsRow(f)
    BY <2>3, Zenon
  <2> HIDE DEF f
  <2>5. /\ f \in [0..Len(text) -> 0..Fuzzy!Larger(row + 1, Len(text))]
        /\ \A j \in 0..Len(text) : /\ f[j] = Fuzzy!Distance(row + 1, j)
                                   /\ f[j] =< Fuzzy!Larger(row + 1, j)
    BY <2>1, <2>4, RowIsNext
  <2>6. prev' = f
    BY <2>2, Zenon DEF f
  <2>7. query \in Seq(Alphabet) /\ text \in Seq(Alphabet) /\ row \in 0..Len(query) /\ Len(query) \in Nat
    BY DEF FuzzyInv, Fuzzy!TypeOK
  <2>8. Fuzzy!TypeOK'
    BY <2>1, <2>5, <2>6, <2>7 DEF Fuzzy!TypeOK
  <2>9. ASSUME NEW j \in 0..Len(text)
        PROVE  prev'[j] = Fuzzy!Distance(row, j)' /\ prev'[j] =< Fuzzy!Larger(row', j)
    BY <1>1, <2>1, <2>5, <2>6
  <2> QED
    BY <2>1, <2>8, <2>9 DEF FuzzyInv
<1>4. CASE Fuzzy!Return
  <2>1. query' = <<>> /\ text' = <<>> /\ row' = 0 /\ prev' = [j \in 0..0 |-> 0]
    BY <1>4 DEF Fuzzy!Return
  <2>2. Len(<<>>) = 0 /\ <<>> \in Seq(Alphabet) /\ prev' = [j \in 0..0 |-> j]
    BY <2>1
  <2> QED
    BY <2>1, <2>2, RowsBegin
<1>5. CASE Fuzzy!Call
  <2>1. /\ query' \in Seq(Alphabet) /\ text' \in Seq(Alphabet) /\ row' = 0
        /\ prev' = [j \in 0..Len(text') |-> j]
    BY <1>5 DEF Fuzzy!Call, Fuzzy!Strings
  <2> QED
    BY <2>1, RowsBegin
<1> QED
  BY <1>2, <1>3, <1>4, <1>5 DEF Fuzzy!Next, fuzzyVars

(* Nothing is to be paid for prefixes that are the same in lower case, and   *)
(* for no others.                                                            *)
LEMMA NothingToPay ==
  ASSUME NEW i \in Nat, NEW j \in Nat
  PROVE  Fuzzy!Distance(i, j) = 0
            <=> i = j /\ \A k \in 1..i : Fuzzy!Lower(query[k]) = Fuzzy!Lower(text[k])
<1> DEFINE same(m) == \A k \in 1..m : Fuzzy!Lower(query[k]) = Fuzzy!Lower(text[k])
           S == {m \in Nat : \A n \in Nat : Fuzzy!Distance(m, n) = 0 <=> m = n /\ same(m)}
<1>1. \A m, n \in Nat : Fuzzy!Distance(m, n) \in Nat
  BY DistanceIsLeast DEF LeastCost
<1>2. \A n \in Nat : Fuzzy!Distance(0, n) = n /\ Fuzzy!Distance(n, 0) = n
  BY DistanceToNothing
<1>3. 0 \in S
  BY <1>2
<1>4. ASSUME NEW m \in Nat, m \in S PROVE m + 1 \in S
  <2> SUFFICES ASSUME NEW n \in Nat
               PROVE  Fuzzy!Distance(m + 1, n) = 0 <=> m + 1 = n /\ same(m + 1)
    OBVIOUS
  <2>1. CASE n = 0
    BY <1>2, <2>1
  <2>2. CASE n # 0
    <3> DEFINE o == n - 1
               c == Fuzzy!Cost(m + 1, o + 1)
    <3>1. o \in Nat /\ n = o + 1 /\ m + 1 \in Nat
      BY <2>2
    <3>2. Fuzzy!Distance(m + 1, o + 1)
             = Fuzzy!Smaller(Fuzzy!Smaller(Fuzzy!Distance(m, o + 1) + 1, Fuzzy!Distance(m + 1, o) + 1),
                             Fuzzy!Distance(m, o) + c)
      BY <3>1, DistanceFromThree
    <3>3. c \in {0, 1} /\ (c = 0 <=> Fuzzy!Lower(query[m + 1]) = Fuzzy!Lower(text[o + 1]))
      BY DEF Fuzzy!Cost
    <3> HIDE DEF o, c
    <3>4. /\ Fuzzy!Distance(m, o + 1) \in Nat /\ Fuzzy!Distance(m + 1, o) \in Nat
          /\ Fuzzy!Distance(m, o) \in Nat
      BY <1>1, <3>1
    <3>5. Fuzzy!Distance(m + 1, o + 1) = 0 <=> Fuzzy!Distance(m, o) = 0 /\ c = 0
      BY <3>2, <3>3, <3>4 DEF Fuzzy!Smaller
    <3>6. Fuzzy!Distance(m, o) = 0 <=> m = o /\ same(m)
      BY <1>4, <3>1
    <3>7. same(m + 1) <=> same(m) /\ Fuzzy!Lower(query[m + 1]) = Fuzzy!Lower(text[m + 1])
      <4>1. \A k \in 1..(m + 1) : k \in 1..m \/ k = m + 1
        OBVIOUS
      <4>2. 1..m \subseteq 1..(m + 1) /\ m + 1 \in 1..(m + 1)
        OBVIOUS
      <4> QED
        BY <4>1, <4>2
    <3> HIDE DEF same
    <3>8. m + 1 = o + 1 <=> m = o
      BY <3>1
    <3> QED
      BY <3>1, <3>3, <3>5, <3>6, <3>7, <3>8
  <2> QED
    BY <2>1, <2>2
<1>5. Nat \subseteq S
  <2> HIDE DEF S
  <2> QED
    BY <1>3, <1>4, Inductive
<1> QED
  BY <1>5

LEMMA LowerAllIs ==
  ASSUME NEW s \in Seq(Alphabet)
  PROVE  /\ Len(Fuzzy!LowerAll(s)) = Len(s) /\ DOMAIN Fuzzy!LowerAll(s) = 1..Len(s)
         /\ Fuzzy!LowerAll(s) = [k \in 1..Len(s) |-> Fuzzy!Lower(s[k])]
         /\ Len(s) \in Nat
<1>1. DOMAIN s = 1..Len(s) /\ Len(s) \in Nat
  OBVIOUS
<1>2. Fuzzy!LowerAll(s) = [k \in 1..Len(s) |-> Fuzzy!Lower(s[k])]
  BY <1>1 DEF Fuzzy!LowerAll
<1> QED
  BY <1>1, <1>2

(* A string has at least as many bytes as characters.                        *)
LEMMA BytesAreMore ==
  ASSUME NEW s \in Seq(Alphabet)
  PROVE  Fuzzy!Bytes(Fuzzy!LowerAll(s)) \in Nat /\ Fuzzy!Bytes(Fuzzy!LowerAll(s)) >= Len(s)
<1> DEFINE low == Fuzzy!LowerAll(s)
           wide == {i \in DOMAIN low : low[i] \in Fuzzy!Han}
<1>1. Len(low) = Len(s) /\ DOMAIN low = 1..Len(s) /\ Len(s) \in Nat
  BY LowerAllIs
<1>2. IsFiniteSet(1..Len(s)) /\ wide \in SUBSET (1..Len(s))
  BY <1>1, FS_Interval
<1>3. Cardinality(wide) \in Nat
  <2> HIDE DEF wide
  <2> QED
    BY <1>2, FS_Subset, FS_CardinalityType
<1>4. Fuzzy!Bytes(low) = Len(low) + 2 * Cardinality(wide)
  BY CountsInFuzzy DEF Fuzzy!Bytes
<1> HIDE DEF low, wide
<1>5. Fuzzy!Bytes(low) \in Nat /\ Fuzzy!Bytes(low) >= Len(s)
  BY <1>1, <1>3, <1>4
<1> QED
  BY <1>5 DEF low

(* A word is of one script.                                                  *)
IsWord(v) ==
    /\ v \in Seq(Alphabet) /\ Len(v) \in Nat \ {0}
    /\ \A k \in 1..Len(v) : Fuzzy!Script(v[k]) = Fuzzy!Script(v[1])

LEMMA TokensAreWords ==
  ASSUME NEW s \in Seq(Alphabet), NEW v \in Fuzzy!Tokens(s) PROVE IsWord(v)
<1>1. PICK t \in (DOMAIN s) \X (DOMAIN s) :
         /\ v = SubSeq(s, t[1], t[2]) /\ t[1] =< t[2]
         /\ \A i \in t[1]..(t[2] - 1) : Fuzzy!GoesOn(s, i)
  BY DEF Fuzzy!Tokens
<1>2. PICK a \in 1..Len(s), b \in 1..Len(s) : a = t[1] /\ b = t[2]
  BY <1>1
<1>3. /\ v = SubSeq(s, a, b) /\ a =< b /\ a \in Nat /\ b \in Nat /\ Len(s) \in Nat
      /\ \A i \in a..(b - 1) : Fuzzy!Script(s[i]) = Fuzzy!Script(s[i + 1])
  <2>1. \A i : Fuzzy!GoesOn(s, i) => Fuzzy!Script(s[i]) = Fuzzy!Script(s[i + 1])
    BY Zenon DEF Fuzzy!GoesOn
  <2> QED
    BY <1>1, <1>2, <2>1
<1>4. /\ v \in Seq(Alphabet) /\ Len(v) = b - a + 1
      /\ \A k \in 1..(b - a + 1) : v[k] = s[a + k - 1]
  <2>1. a \in 1..(Len(s) + 1) /\ b \in (a - 1)..Len(s)
    BY <1>2, <1>3
  <2>2. /\ SubSeq(s, a, b) \in Seq(Alphabet)
        /\ Len(SubSeq(s, a, b)) = IF a <= b THEN b - a + 1 ELSE 0
        /\ \A k \in 1..(b - a + 1) : SubSeq(s, a, b)[k] = s[a + k - 1]
    BY <2>1, SubSeqProperties
  <2> QED
    BY <1>3, <2>2
<1> DEFINE n == b - a
           S == {k \in Nat : k =< n => Fuzzy!Script(v[k + 1]) = Fuzzy!Script(v[1])}
<1>5. n \in Nat /\ Len(v) = n + 1
  BY <1>3, <1>4
<1>6. 0 \in S
  OBVIOUS
<1>7. ASSUME NEW k \in Nat, k \in S PROVE k + 1 \in S
  <2> SUFFICES ASSUME k + 1 =< n PROVE Fuzzy!Script(v[k + 2]) = Fuzzy!Script(v[1])
    OBVIOUS
  <2>1. k + 1 \in 1..(b - a + 1) /\ k + 2 \in 1..(b - a + 1) /\ a + k \in a..(b - 1)
    BY <1>3
  <2>2. v[k + 1] = s[a + k] /\ v[k + 2] = s[a + k + 1]
    <3>1. a + (k + 1) - 1 = a + k /\ a + (k + 2) - 1 = a + k + 1
      BY <1>3
    <3> QED
      BY <1>4, <2>1, <3>1
  <2>3. Fuzzy!Script(v[k + 1]) = Fuzzy!Script(v[1])
    BY <1>5, <1>7
  <2> QED
    BY <1>3, <2>1, <2>2, <2>3
<1>8. Nat \subseteq S
  <2> HIDE DEF S
  <2> QED
    BY <1>6, <1>7, Inductive
<1>9. ASSUME NEW k \in 1..Len(v) PROVE Fuzzy!Script(v[k]) = Fuzzy!Script(v[1])
  <2>1. k - 1 \in Nat /\ k - 1 =< n /\ (k - 1) + 1 = k
    BY <1>5
  <2>2. k - 1 \in S
    BY <1>8, <2>1
  <2>3. Fuzzy!Script(v[(k - 1) + 1]) = Fuzzy!Script(v[1])
    BY <2>1, <2>2
  <2> QED
    BY <2>1, <2>3
<1> QED
  BY <1>4, <1>5, <1>9 DEF IsWord

LEMMA ScriptOfLower ==
  \A c : /\ Fuzzy!Script(Fuzzy!Lower(c)) = Fuzzy!Script(c)
         /\ Fuzzy!Script(c) = "Hani" => Fuzzy!Lower(c) = c
  BY DEF Fuzzy!Script, Fuzzy!Lower, Fuzzy!Han

(* Two words that are the same in lower case have a gram in common.          *)
LEMMA WordsShareGram ==
  ASSUME NEW v, NEW w, IsWord(v), IsWord(w), Fuzzy!LowerAll(v) = Fuzzy!LowerAll(w)
  PROVE  Fuzzy!Grams(v) \cap Fuzzy!Grams(w) # {}
<1>1. /\ v \in Seq(Alphabet) /\ w \in Seq(Alphabet) /\ Len(v) \in Nat \ {0} /\ Len(w) \in Nat \ {0}
      /\ \A k \in 1..Len(v) : Fuzzy!Script(v[k]) = Fuzzy!Script(v[1])
      /\ \A k \in 1..Len(w) : Fuzzy!Script(w[k]) = Fuzzy!Script(w[1])
  BY DEF IsWord
<1>2. Len(v) = Len(w)
  <2>1. Len(Fuzzy!LowerAll(v)) = Len(v) /\ Len(Fuzzy!LowerAll(w)) = Len(w)
    BY <1>1, LowerAllIs
  <2> QED
    BY <2>1
<1>3. \A k \in 1..Len(v) : Fuzzy!Lower(v[k]) = Fuzzy!Lower(w[k])
  <2>1. /\ Fuzzy!LowerAll(v) = [k \in 1..Len(v) |-> Fuzzy!Lower(v[k])]
        /\ Fuzzy!LowerAll(w) = [k \in 1..Len(w) |-> Fuzzy!Lower(w[k])]
    BY <1>1, LowerAllIs
  <2>2. \A k \in 1..Len(v) : [i \in 1..Len(v) |-> Fuzzy!Lower(v[i])][k]
                             = [i \in 1..Len(v) |-> Fuzzy!Lower(w[i])][k]
    BY <1>2, <2>1
  <2> QED
    BY <2>2
<1>4. Fuzzy!Script(v[1]) = Fuzzy!Script(w[1])
  <2>1. 1 \in 1..Len(v)
    BY <1>1
  <2> QED
    BY <1>3, <2>1, ScriptOfLower
<1>5. CASE Fuzzy!Script(v[1]) = "Hani"
  <2>1. \A k \in 1..Len(v) : v[k] = w[k]
    BY <1>1, <1>2, <1>3, <1>4, <1>5, ScriptOfLower
  <2>2. v = w
    BY <1>1, <1>2, <2>1, SeqEqual
  <2>3. Fuzzy!Grams(v) = IF Len(v) < 2 THEN {v} ELSE Fuzzy!Windows(v, 2)
    BY <1>5 DEF Fuzzy!Grams
  <2>4. ~ (Len(v) < 2) => SubSeq(v, 1, 1 + 2 - 1) \in Fuzzy!Windows(v, 2)
    <3>1. ~ (Len(v) < 2) => 1 \in 1..(Len(v) - 2 + 1)
      BY <1>1
    <3> QED
      BY <3>1 DEF Fuzzy!Windows
  <2> QED
    BY <2>2, <2>3, <2>4
<1>6. CASE Fuzzy!Script(v[1]) # "Hani"
  <2> DEFINE of(u) == IF Len(u) < 3 THEN {u} ELSE Fuzzy!Windows(u, 3)
  <2>1. /\ Fuzzy!Grams(v) = {Fuzzy!LowerAll(g) : g \in of(v)}
        /\ Fuzzy!Grams(w) = {Fuzzy!LowerAll(g) : g \in of(w)}
    BY <1>4, <1>6 DEF Fuzzy!Grams
  <2>2. CASE Len(v) < 3
    <3>1. v \in of(v) /\ w \in of(w)
      BY <1>2, <2>2
    <3> HIDE DEF of
    <3>2. Fuzzy!LowerAll(v) \in Fuzzy!Grams(v) /\ Fuzzy!LowerAll(w) \in Fuzzy!Grams(w)
      BY <2>1, <3>1
    <3> QED
      BY <3>2
  <2>3. CASE ~ (Len(v) < 3)
    <3> DEFINE a == SubSeq(v, 1, 1 + 3 - 1)
               b == SubSeq(w, 1, 1 + 3 - 1)
    <3>1. a \in of(v) /\ b \in of(w)
      <4>1. 1 \in 1..(Len(v) - 3 + 1) /\ 1 \in 1..(Len(w) - 3 + 1)
        BY <1>1, <1>2, <2>3
      <4> QED
        BY <1>2, <2>3, <4>1 DEF Fuzzy!Windows
    <3>2. /\ a \in Seq(Alphabet) /\ Len(a) = 3 /\ \A k \in 1..3 : a[k] = v[k]
          /\ b \in Seq(Alphabet) /\ Len(b) = 3 /\ \A k \in 1..3 : b[k] = w[k]
      <4>1. ASSUME NEW u \in Seq(Alphabet), ~ (Len(u) < 3)
            PROVE  LET x == SubSeq(u, 1, 3)
                   IN x \in Seq(Alphabet) /\ Len(x) = 3 /\ \A k \in 1..3 : x[k] = u[k]
        <5>1. 1 \in 1..(Len(u) + 1) /\ 3 \in (1 - 1)..Len(u)
          BY <4>1
        <5>2. /\ SubSeq(u, 1, 3) \in Seq(Alphabet)
              /\ Len(SubSeq(u, 1, 3)) = IF 1 <= 3 THEN 3 - 1 + 1 ELSE 0
              /\ \A k \in 1..(3 - 1 + 1) : SubSeq(u, 1, 3)[k] = u[1 + k - 1]
          BY <5>1, SubSeqProperties
        <5> QED
          BY <5>2
      <4>2. a = SubSeq(v, 1, 3) /\ b = SubSeq(w, 1, 3)
        OBVIOUS
      <4> QED
        BY <1>1, <1>2, <2>3, <4>1, <4>2
    <3> HIDE DEF of, a, b
    <3>3. \A k \in 1..3 : Fuzzy!Lower(a[k]) = Fuzzy!Lower(b[k])
      <4>1. \A k \in 1..3 : k \in 1..Len(v)
        BY <1>1, <2>3
      <4> QED
        BY <1>3, <3>2, <4>1
    <3>4. Fuzzy!LowerAll(a) = Fuzzy!LowerAll(b)
      <4>1. /\ Fuzzy!LowerAll(a) = [k \in 1..3 |-> Fuzzy!Lower(a[k])]
            /\ Fuzzy!LowerAll(b) = [k \in 1..3 |-> Fuzzy!Lower(b[k])]
        BY <3>2, LowerAllIs
      <4> QED
        BY <3>3, <4>1
    <3>5. Fuzzy!LowerAll(a) \in Fuzzy!Grams(v) /\ Fuzzy!LowerAll(b) \in Fuzzy!Grams(w)
      BY <2>1, <3>1
    <3> QED
      BY <3>4, <3>5
  <2> QED
    BY <2>2, <2>3
<1> QED
  BY <1>5, <1>6

LEMMA FuzzyHolds == FuzzyInv => Fuzzy!WordIsCandidate /\ Fuzzy!RowsAreDistances
<1> SUFFICES ASSUME FuzzyInv PROVE Fuzzy!WordIsCandidate /\ Fuzzy!RowsAreDistances
  OBVIOUS
<1>1. /\ query \in Seq(Alphabet) /\ text \in Seq(Alphabet) /\ Len(query) \in Nat /\ Len(text) \in Nat
      /\ prev \in [0..Len(text) -> 0..Fuzzy!Larger(row, Len(text))]
  BY DEF FuzzyInv, Fuzzy!TypeOK
<1>2. Fuzzy!RowsAreDistances
  BY DEF FuzzyInv, Fuzzy!RowsAreDistances
<1>3. ASSUME NEW v \in Fuzzy!Tokens(query), NEW w \in Fuzzy!Tokens(text),
             Fuzzy!LowerAll(v) = Fuzzy!LowerAll(w)
      PROVE  Fuzzy!Candidate(query, text)
  <2>1. Fuzzy!Grams(v) \cap Fuzzy!Grams(w) # {}
    BY <1>1, <1>3, TokensAreWords, WordsShareGram
  <2> QED
    BY <2>1 DEF Fuzzy!Candidate, Fuzzy!GramsOf
<1>4. ASSUME row = Len(query)
      PROVE  LET score == Fuzzy!Similarity(prev[Len(text)], query, text)
             IN /\ score.num \in 0..score.den
                /\ query # <<>> => ((score.num = score.den)
                                       <=> Fuzzy!LowerAll(query) = Fuzzy!LowerAll(text))
  <2> DEFINE dist == prev[Len(text)]
             qb == Fuzzy!Bytes(Fuzzy!LowerAll(query))
             tb == Fuzzy!Bytes(Fuzzy!LowerAll(text))
             max == Fuzzy!Larger(qb, tb)
             score == Fuzzy!Similarity(dist, query, text)
  <2>1. dist = Fuzzy!Distance(Len(query), Len(text)) /\ dist \in 0..Fuzzy!Larger(Len(query), Len(text))
    <3>1. Len(text) \in 0..Len(text)
      BY <1>1
    <3> QED
      BY <1>1, <1>4, <3>1 DEF FuzzyInv
  <2>2. qb \in Nat /\ qb >= Len(query) /\ tb \in Nat /\ tb >= Len(text)
    BY <1>1, BytesAreMore
  <2>3. score = IF max = 0 THEN [num |-> 0, den |-> 1] ELSE [num |-> max - dist, den |-> max]
    BY DEF Fuzzy!Similarity
  <2> HIDE DEF score, dist, qb, tb
  <2>4. max \in Nat /\ dist \in Nat /\ dist =< max /\ (Len(query) > 0 => max > 0)
    BY <1>1, <2>1, <2>2 DEF Fuzzy!Larger
  <2> HIDE DEF max
  <2>5. dist = 0 <=> Fuzzy!LowerAll(query) = Fuzzy!LowerAll(text)
    <3>1. dist = 0 <=> /\ Len(query) = Len(text)
                       /\ \A k \in 1..Len(query) : Fuzzy!Lower(query[k]) = Fuzzy!Lower(text[k])
      BY <1>1, <2>1, NothingToPay
    <3>2. /\ Fuzzy!LowerAll(query) = [k \in 1..Len(query) |-> Fuzzy!Lower(query[k])]
          /\ Fuzzy!LowerAll(text) = [k \in 1..Len(text) |-> Fuzzy!Lower(text[k])]
          /\ Len(Fuzzy!LowerAll(query)) = Len(query) /\ Len(Fuzzy!LowerAll(text)) = Len(text)
      BY <1>1, LowerAllIs
    <3>3. ASSUME Fuzzy!LowerAll(query) = Fuzzy!LowerAll(text)
          PROVE  /\ Len(query) = Len(text)
                 /\ \A k \in 1..Len(query) : Fuzzy!Lower(query[k]) = Fuzzy!Lower(text[k])
      <4>1. Len(query) = Len(text)
        BY <3>2, <3>3
      <4>2. \A k \in 1..Len(query) : [i \in 1..Len(query) |-> Fuzzy!Lower(query[i])][k]
                                     = [i \in 1..Len(query) |-> Fuzzy!Lower(text[i])][k]
        BY <3>2, <3>3, <4>1
      <4> QED
        BY <4>1, <4>2
    <3>4. ASSUME Len(query) = Len(text),
                 \A k \in 1..Len(query) : Fuzzy!Lower(query[k]) = Fuzzy!Lower(text[k])
          PROVE  Fuzzy!LowerAll(query) = Fuzzy!LowerAll(text)
      BY <3>2, <3>4
    <3> QED
      BY <3>1, <3>3, <3>4
  <2>6. score.num \in 0..score.den
    BY <2>3, <2>4
  <2>7. query # <<>> => Len(query) > 0
    BY <1>1
  <2>8. max > 0 => (score.num = score.den <=> dist = 0)
    BY <2>3, <2>4
  <2> QED
    BY <2>4, <2>5, <2>6, <2>7, <2>8 DEF score, dist
<1>5. Fuzzy!WordIsCandidate
  BY <1>3, <1>4 DEF Fuzzy!WordIsCandidate
<1> QED
  BY <1>2, <1>5

(* The second part of SearchFinds: every cell that levenshtein computes is   *)
(* the edit distance of two prefixes, a text with a word of the query is a   *)
(* candidate, and its score is between 0 and 1, and 1 for the query alone.   *)
THEOREM ScoresAreDistances == Spec => [](Fuzzy!WordIsCandidate /\ Fuzzy!RowsAreDistances)
<1>1. Init => FuzzyInv
  BY FuzzyBegins DEF Init
<1>2. FuzzyInv /\ [Next]_vars => FuzzyInv'
  BY PartsMove, FuzzyNext
<1> QED
  BY <1>1, <1>2, FuzzyHolds, PTL DEF Spec

(* SearchFinds: both parts, for any messages, scope, filters, limit and any  *)
(* calls that write between the check of another and its savepoint.          *)
THEOREM SearchesFind == Spec => []SearchFinds
<1>1. Spec => [](Engine!MatchIsFound /\ Engine!DeletedNotFound)
  BY MatchesAreFound
<1>2. Spec => [](Fuzzy!WordIsCandidate /\ Fuzzy!RowsAreDistances)
  BY ScoresAreDistances
<1> QED
  BY <1>1, <1>2, PTL DEF SearchFinds

--------------------------------------------------------------------------------

OneRegistrar == \E r : Registrars = {r}

(* A registration that is under way has the keys of all that were answered   *)
(* since a read or a write last failed.                                      *)
VaultInv ==
    /\ vaultFile \in (SUBSET Devices) \cup {Torn} /\ safe \subseteq Devices
    /\ DOMAIN enrolling = Registrars
    /\ \A r \in Registrars :
          LET mine == enrolling[r]
          IN /\ DOMAIN mine = {"step", "device", "vault"}
             /\ mine.step \in {"idle", "empty", "write"}
             /\ mine.step # "idle" => /\ mine.vault \subseteq Devices /\ mine.device \in mine.vault
                                      /\ safe \subseteq mine.vault
             /\ safe # {} /\ mine.step # "write" => vaultFile # Torn /\ safe \subseteq vaultFile

LEMMA VaultBegins == Vault!Init => VaultInv
  BY DeviceVaultAssumption DEF Vault!Init, Vault!Resting, VaultInv

LEMMA VaultNext ==
  ASSUME OneRegistrar
  PROVE  VaultInv /\ [Vault!Next]_vaultVars => VaultInv'
<1> SUFFICES ASSUME VaultInv, [Vault!Next]_vaultVars PROVE VaultInv'
  OBVIOUS
<1>1. PICK r : Registrars = {r}
  BY DEF OneRegistrar
<1>0. DOMAIN Vault!Resting = {"step", "device", "vault"} /\ Vault!Resting.step = "idle"
  BY DEF Vault!Resting
<1>2. CASE UNCHANGED vaultVars
  BY <1>2 DEF vaultVars, VaultInv
<1>3. ASSUME NEW d \in Devices, Vault!Load(r, d) PROVE VaultInv'
  <2> DEFINE old == IF vaultFile = Torn THEN {} ELSE vaultFile
  <2>1. /\ enrolling[r].step = "idle" /\ UNCHANGED <<vaultFile, registered, safe>>
        /\ enrolling' = [enrolling EXCEPT ![r] =
                            [step |-> "empty", device |-> d, vault |-> old \cup {d}]]
    BY <1>3 DEF Vault!Load
  <2>2. old \subseteq Devices /\ safe \subseteq old /\ (safe # {} => vaultFile # Torn)
        /\ (safe # {} => safe \subseteq vaultFile)
    <3>1. safe # {} => vaultFile # Torn /\ safe \subseteq vaultFile
      BY <1>1, <2>1 DEF VaultInv
    <3>2. vaultFile = Torn \/ vaultFile \subseteq Devices
      BY DEF VaultInv
    <3> QED
      BY <3>1, <3>2
  <2> HIDE DEF old
  <2> QED
    BY <1>1, <1>3, <2>1, <2>2 DEF VaultInv
<1>4. ASSUME NEW d \in Devices, Vault!FailToLoad(r, d) PROVE VaultInv'
  BY <1>1, <1>4 DEF Vault!FailToLoad, VaultInv
<1>5. CASE Vault!Empty(r)
  <2>1. /\ enrolling[r].step = "empty" /\ vaultFile' = Torn /\ UNCHANGED <<registered, safe>>
        /\ enrolling' = [enrolling EXCEPT ![r] = [enrolling[r] EXCEPT !.step = "write"]]
    BY <1>5 DEF Vault!Empty
  <2>2. /\ DOMAIN enrolling'[r] = {"step", "device", "vault"} /\ enrolling'[r].step = "write"
        /\ enrolling'[r].device = enrolling[r].device /\ enrolling'[r].vault = enrolling[r].vault
        /\ DOMAIN enrolling' = Registrars
    BY <1>1, <2>1 DEF VaultInv
  <2> QED
    BY <1>1, <2>1, <2>2 DEF VaultInv
<1>6. CASE Vault!Write(r)
  <2>1. /\ enrolling[r].step = "write" /\ vaultFile' = enrolling[r].vault
        /\ safe' = safe \cup {enrolling[r].device}
        /\ enrolling' = [enrolling EXCEPT ![r] = Vault!Resting]
    BY <1>6 DEF Vault!Write
  <2> QED
    BY <1>0, <1>1, <2>1, DeviceVaultAssumption DEF VaultInv
<1>7. CASE Vault!FailToWrite(r)
  <2>1. /\ enrolling[r].step \in {"empty", "write"} /\ UNCHANGED vaultFile
        /\ safe' = IF enrolling[r].step = "write" THEN {} ELSE safe
        /\ enrolling' = [enrolling EXCEPT ![r] = Vault!Resting]
    BY <1>7 DEF Vault!FailToWrite
  <2> QED
    BY <1>0, <1>1, <2>1 DEF VaultInv
<1>8. CASE Vault!Crash
  <2>1. /\ safe' = IF enrolling[r].step = "write" THEN {} ELSE safe
        /\ enrolling' = [t \in Registrars |-> Vault!Resting] /\ UNCHANGED vaultFile
    BY <1>1, <1>8 DEF Vault!Crash
  <2> QED
    BY <1>0, <1>1, <2>1 DEF VaultInv
<1> QED
  BY <1>1, <1>2, <1>3, <1>4, <1>5, <1>6, <1>7, <1>8 DEF Vault!Next, vaultVars

(* The second part of FilesAreKept: with one thread that registers devices,  *)
(* and any number of them, the keys of each that was answered stay in the    *)
(* vault file until a read of it or a write to it fails, or a process ends   *)
(* while it writes it (register_device).                                     *)
THEOREM DeviceKeysStay == ASSUME OneRegistrar PROVE Spec => []Vault!KeysStay
<1>1. Init => VaultInv
  BY VaultBegins DEF Init
<1>2. VaultInv /\ [Next]_vars => VaultInv'
  BY PartsMove, VaultNext
<1>3. VaultInv => Vault!KeysStay
  BY DEF VaultInv, Vault!KeysStay, OneRegistrar
<1> QED
  BY <1>1, <1>2, <1>3, PTL DEF Spec

--------------------------------------------------------------------------------

(* Bytes of files are counted one by one; in a finite set there are finitely *)
(* many.                                                                     *)
LEMMA CountsInMedia == \A T : MediaFiles!Cardinality(T) = Cardinality(T)
  BY Zenon DEF MediaFiles!Cardinality, Cardinality

Disks == [Files -> 0..MaxCount]

LEMMA BytesAreFinite ==
  ASSUME NEW disk \in Disks, NEW F, IsFiniteSet(F)
  PROVE  /\ IsFiniteSet(MediaFiles!Stored(disk, F))
         /\ MediaFiles!Bytes(disk, F) = Cardinality(MediaFiles!Stored(disk, F))
         /\ MediaFiles!Bytes(disk, F) \in Nat
<1>1. IsFiniteSet(F \X (1..MaxCount))
  <2>1. IsFiniteSet(1..MaxCount)
    BY FS_Interval, MediaCacheAssumption
  <2> QED
    BY <2>1, FS_Product
<1>2. MediaFiles!Stored(disk, F) \in SUBSET (F \X (1..MaxCount))
  BY DEF MediaFiles!Stored
<1>3. IsFiniteSet(MediaFiles!Stored(disk, F))
  BY <1>1, <1>2, FS_Subset
<1>4. MediaFiles!Bytes(disk, F) = Cardinality(MediaFiles!Stored(disk, F))
  BY CountsInMedia DEF MediaFiles!Bytes
<1> QED
  BY <1>3, <1>4, FS_CardinalityType

(* More files have more bytes.                                               *)
LEMMA MoreFiles ==
  ASSUME NEW disk \in Disks, NEW G, IsFiniteSet(G), NEW F \in SUBSET G
  PROVE  MediaFiles!Bytes(disk, F) =< MediaFiles!Bytes(disk, G)
<1>1. IsFiniteSet(F)
  BY FS_Subset
<1>2. MediaFiles!Stored(disk, F) \in SUBSET MediaFiles!Stored(disk, G)
  BY DEF MediaFiles!Stored
<1> QED
  BY <1>1, <1>2, BytesAreFinite, FS_Subset

(* The bytes of separate files add up.                                       *)
LEMMA SeparateFiles ==
  ASSUME NEW disk \in Disks, NEW F, NEW G, IsFiniteSet(F), IsFiniteSet(G), F \cap G = {}
  PROVE  MediaFiles!Bytes(disk, F \cup G) = MediaFiles!Bytes(disk, F) + MediaFiles!Bytes(disk, G)
<1> DEFINE SF == MediaFiles!Stored(disk, F)
           SG == MediaFiles!Stored(disk, G)
<1>1. MediaFiles!Stored(disk, F \cup G) = SF \cup SG /\ SF \cap SG = {}
  BY DEF MediaFiles!Stored
<1>2. IsFiniteSet(SF) /\ IsFiniteSet(SG) /\ IsFiniteSet(F \cup G)
  BY BytesAreFinite, FS_Union
<1>3. MediaFiles!Bytes(disk, F \cup G) = Cardinality(SF \cup SG)
  BY <1>1, <1>2, BytesAreFinite
<1>4. MediaFiles!Bytes(disk, F) = Cardinality(SF) /\ MediaFiles!Bytes(disk, G) = Cardinality(SG)
  BY BytesAreFinite
<1> HIDE DEF SF, SG
<1>5. Cardinality(SF \cup SG) = Cardinality(SF) + Cardinality(SG) - Cardinality(SF \cap SG)
  BY <1>2, FS_Union
<1>6. Cardinality(SF \cap SG) = 0
  BY <1>1, FS_EmptySet
<1>7. Cardinality(SF) \in Nat /\ Cardinality(SG) \in Nat
  BY <1>2, FS_CardinalityType
<1> QED
  BY <1>3, <1>4, <1>5, <1>6, <1>7

(* A file has as many as it is said to have.                                 *)
LEMMA OneFile ==
  ASSUME NEW disk \in Disks, NEW f \in Files
  PROVE  MediaFiles!Bytes(disk, {f}) = disk[f]
<1> DEFINE S == MediaFiles!Stored(disk, {f})
           nth == [n \in 1..disk[f] |-> <<f, n>>]
<1>1. disk[f] \in Nat /\ disk[f] =< MaxCount /\ MaxCount \in Nat
  BY MediaCacheAssumption DEF Disks
<1>2. nth \in [1..disk[f] -> S]
  BY <1>1 DEF MediaFiles!Stored
<1>3. \A m, n \in 1..disk[f] : nth[m] = nth[n] => m = n
  BY <1>1
<1>4. \A b \in S : b[2] \in 1..disk[f] /\ nth[b[2]] = b
  BY <1>1 DEF MediaFiles!Stored
<1> HIDE DEF nth, S
<1>5. nth \in Bijection(1..disk[f], S)
  <2>1. nth \in Injection(1..disk[f], S)
    BY <1>2, <1>3, Fun_IsInj
  <2>2. nth \in Surjection(1..disk[f], S)
    BY <1>2, <1>4 DEF Surjection
  <2> QED
    BY <2>1, <2>2 DEF Bijection
<1>6. IsFiniteSet(1..disk[f]) /\ Cardinality(1..disk[f]) = disk[f]
  <2>1. ASSUME NEW k \in Nat PROVE IsFiniteSet(1..k) /\ Cardinality(1..k) = k
    <3>1. IsFiniteSet(1..k) /\ Cardinality(1..k) = IF 1 > k THEN 0 ELSE k - 1 + 1
      BY FS_Interval
    <3> QED
      BY <3>1
  <2> QED
    BY <1>1, <2>1
<1>7. Cardinality(S) = disk[f]
  BY <1>5, <1>6, FS_Bijection DEF ExistsBijection
<1>8. IsFiniteSet({f})
  BY FS_Singleton
<1> QED
  BY <1>7, <1>8, BytesAreFinite DEF S

(* The files that are there are in the order of their ages, finitely many,   *)
(* and undisturbed they are counted in full and within the budget, but for   *)
(* one that is alone.                                                        *)
Fits(total) == total =< MaxBytes \/ \E f \in Files : MediaFiles!There \subseteq {f}

MediaInv ==
    /\ MediaFiles!TypeOK
    /\ IsFiniteSet(MediaFiles!There)
    /\ ~disturbed => LET total == MediaFiles!Bytes(onDisk, MediaFiles!There)
                     IN total =< current /\ Fits(total)

LEMMA NoBytes == \A disk \in Disks : MediaFiles!Bytes(disk, {}) = 0
<1> TAKE disk \in Disks
<1>1. IsFiniteSet({}) /\ Cardinality({}) = 0
  BY FS_EmptySet
<1>2. MediaFiles!Stored(disk, {}) = {}
  BY DEF MediaFiles!Stored
<1> QED
  BY <1>1, <1>2, BytesAreFinite

LEMMA CacheBegins == MediaFiles!Init => MediaInv
<1> SUFFICES ASSUME MediaFiles!Init PROVE MediaInv
  OBVIOUS
<1>1. MediaFiles!There = {} /\ onDisk \in Disks
  BY MediaCacheAssumption DEF MediaFiles!Init, MediaFiles!There, Disks
<1>2. MediaFiles!TypeOK
  <2>1. /\ older = [f \in Files |-> {}] /\ \A f \in Files : older[f] = {}
        /\ current = 0 /\ disturbed = FALSE
    BY DEF MediaFiles!Init
  <2>2. older \in [Files -> SUBSET MediaFiles!There]
    BY <2>1
  <2>3. /\ \A f, g \in MediaFiles!There : f \in older[g] <=> (f # g /\ g \notin older[f])
        /\ \A f, g \in Files : f \in older[g] => older[f] \subseteq older[g]
        /\ \A f \in Files \ MediaFiles!There : older[f] = {}
    BY <1>1, <2>1
  <2>4. current \in 0..MaxCount /\ disturbed \in BOOLEAN
    <3>1. MaxCount \in Nat
      BY MediaCacheAssumption
    <3>2. current = 0
      BY <2>1
    <3>3. disturbed \in BOOLEAN
      BY <2>1, Zenon
    <3> QED
      BY <3>1, <3>2, <3>3
  <2> QED
    BY <1>1, <2>2, <2>3, <2>4 DEF MediaFiles!TypeOK, Disks
<1>3. IsFiniteSet(MediaFiles!There)
  BY <1>1, FS_EmptySet
<1>4. MediaFiles!Bytes(onDisk, MediaFiles!There) = 0
  BY <1>1, NoBytes
<1> QED
  BY <1>2, <1>3, <1>4, MediaCacheAssumption DEF MediaFiles!Init, MediaInv, Fits

(* A write, with what is removed before it: the ages stay an order, and the  *)
(* bytes are those of the files that are left and of what is written.        *)
LEMMA FileIsWritten ==
  ASSUME MediaInv, NEW f \in Files, NEW out \in SUBSET MediaFiles!There, NEW left \in 0..MaxCount,
         MediaFiles!Written(f, out, left), current' \in 0..MaxCount, disturbed' \in BOOLEAN
  PROVE  /\ MediaFiles!TypeOK' /\ IsFiniteSet(MediaFiles!There')
         /\ MediaFiles!Bytes(onDisk', MediaFiles!There')
               = MediaFiles!Bytes(onDisk, MediaFiles!There \ (out \cup {f})) + left
         /\ MediaFiles!There' \subseteq (MediaFiles!There \ out) \cup {f}
<1> DEFINE present == MediaFiles!There
           rest == present \ (out \cup {f})
<1>1. /\ onDisk \in Disks /\ older \in [Files -> SUBSET present]
      /\ \A g \in Files : g \in present <=> onDisk[g] > 0
      /\ present \subseteq Files /\ MaxCount \in Nat
      /\ \A g, h \in present : g \in older[h] <=> (g # h /\ h \notin older[g])
      /\ \A g, h \in Files : g \in older[h] => older[g] \subseteq older[h]
      /\ \A g \in Files \ present : older[g] = {}
  BY MediaCacheAssumption DEF MediaInv, MediaFiles!TypeOK, MediaFiles!There, Disks
<1>2. /\ DOMAIN onDisk' = Files /\ DOMAIN older' = Files
      /\ onDisk' \in Disks /\ onDisk'[f] = left
      /\ \A g \in Files \ {f} : onDisk'[g] = IF g \in out THEN 0 ELSE onDisk[g]
  BY <1>1 DEF MediaFiles!Written, Disks
<1>3. \A g \in Files : older'[g] = IF onDisk'[g] = 0 THEN {}
                                   ELSE (IF g = f THEN present ELSE older[g]) \ (out \cup {f})
  BY DEF MediaFiles!Written
<1>4. /\ MediaFiles!There' = rest \cup (IF left > 0 THEN {f} ELSE {})
      /\ \A g \in Files : g \in MediaFiles!There' <=> onDisk'[g] > 0
  <2>1. \A g \in Files : g \in MediaFiles!There' <=> onDisk'[g] > 0
    BY DEF MediaFiles!There
  <2>2. \A g \in Files : onDisk'[g] > 0 <=> g \in rest \/ (g = f /\ left > 0)
    BY <1>1, <1>2
  <2>3. MediaFiles!There' \subseteq Files
    BY DEF MediaFiles!There
  <2> QED
    BY <1>1, <2>1, <2>2, <2>3
<1>5. \A g \in rest : g \in Files /\ g \in present /\ onDisk'[g] = onDisk[g] /\ onDisk'[g] > 0
                      /\ older'[g] = older[g] \cap rest
  BY <1>1, <1>2, <1>3
<1>6. older'[f] = IF left = 0 THEN {} ELSE rest
  BY <1>2, <1>3
<1>7. \A g \in Files \ MediaFiles!There' : older'[g] = {}
  BY <1>2, <1>3, <1>4 DEF Disks
<1> HIDE DEF rest, present
<1>8. MediaFiles!TypeOK'
  <2>1. older' \in [Files -> SUBSET MediaFiles!There']
    <3>1. \A g \in Files : older'[g] \subseteq MediaFiles!There'
      BY <1>4, <1>5, <1>6, <1>7
    <3> QED
      BY <1>2, <3>1 DEF MediaFiles!Written
  <2>2. ASSUME NEW g \in MediaFiles!There', NEW h \in MediaFiles!There'
        PROVE  g \in older'[h] <=> (g # h /\ h \notin older'[g])
    <3>1. CASE g \in rest /\ h \in rest
      BY <1>1, <1>5, <3>1
    <3>2. CASE g = f \/ h = f
      <4>1. f \notin rest
        BY DEF rest
      <4> QED
        BY <1>4, <1>5, <1>6, <3>2, <4>1
    <3> QED
      BY <1>4, <3>1, <3>2
  <2>3. ASSUME NEW g \in Files, NEW h \in Files, g \in older'[h]
        PROVE  older'[g] \subseteq older'[h]
    <3>1. g \in rest
      <4>1. h \in rest \/ h = f \/ older'[h] = {}
        BY <1>4, <1>7
      <4> QED
        BY <1>5, <1>6, <2>3, <4>1
    <3>2. CASE h \in rest
      BY <1>1, <1>5, <2>3, <3>1, <3>2
    <3>3. CASE h = f
      BY <1>5, <1>6, <2>3, <3>1, <3>3
    <3> QED
      BY <1>4, <1>7, <2>3, <3>2, <3>3
  <2> QED
    BY <1>2, <1>7, <2>1, <2>2, <2>3 DEF MediaFiles!TypeOK, Disks
<1>9. IsFiniteSet(rest) /\ IsFiniteSet({f}) /\ IsFiniteSet(MediaFiles!There')
  <2>1. IsFiniteSet(rest)
    BY FS_Difference DEF MediaInv, rest, present
  <2>2. IsFiniteSet({f}) /\ IsFiniteSet(rest \cup {f})
    BY <2>1, FS_AddElement, FS_Singleton
  <2> QED
    BY <1>4, <2>1, <2>2
<1>10. MediaFiles!Bytes(onDisk', rest) = MediaFiles!Bytes(onDisk, rest)
  <2>1. MediaFiles!Stored(onDisk', rest) = MediaFiles!Stored(onDisk, rest)
    BY <1>5 DEF MediaFiles!Stored
  <2> QED
    BY <1>1, <1>2, <1>9, <2>1, BytesAreFinite
<1>11. MediaFiles!Bytes(onDisk', MediaFiles!There') = MediaFiles!Bytes(onDisk', rest) + left
  <2>1. CASE left = 0
    <3>1. MediaFiles!There' = rest
      BY <1>4, <2>1
    <3>2. MediaFiles!Bytes(onDisk', rest) \in Nat
      BY <1>2, <1>9, BytesAreFinite
    <3> QED
      BY <2>1, <3>1, <3>2
  <2>2. CASE left > 0
    <3>1. MediaFiles!There' = rest \cup {f} /\ rest \cap {f} = {}
      BY <1>4, <2>2 DEF rest
    <3>2. MediaFiles!Bytes(onDisk', rest \cup {f})
             = MediaFiles!Bytes(onDisk', rest) + MediaFiles!Bytes(onDisk', {f})
      BY <1>2, <1>9, <3>1, SeparateFiles
    <3>3. MediaFiles!Bytes(onDisk', {f}) = left
      BY <1>2, OneFile
    <3> QED
      BY <3>1, <3>2, <3>3
  <2> QED
    BY <2>1, <2>2
<1>12. MediaFiles!There' \subseteq (present \ out) \cup {f}
  BY <1>4 DEF rest
<1> QED
  BY <1>8, <1>9, <1>10, <1>11, <1>12 DEF rest, present

(* Dropping the oldest files leaves no more than was wanted, or none; all    *)
(* go for a file that is larger than the budget.                             *)
LEMMA OldestAreDropped ==
  ASSUME MediaInv, NEW size \in Sizes
  PROVE  LET drop == MediaFiles!Dropped(size)
             left == MediaFiles!There \ drop.files
         IN /\ drop.files \in SUBSET MediaFiles!There /\ drop.count \in Nat
            /\ drop.count = MediaFiles!Minus(current, MediaFiles!Bytes(onDisk, drop.files))
            /\ ~disturbed => drop.count + size =< MaxBytes \/ left = {}
<1> DEFINE present == MediaFiles!There
           target == MediaFiles!Minus(MaxBytes, size)
           bytes(F) == MediaFiles!Bytes(onDisk, F)
           out == {f \in present : MediaFiles!Minus(current, bytes(older[f])) > target}
<1>1. /\ onDisk \in Disks /\ older \in [Files -> SUBSET present]
      /\ IsFiniteSet(present) /\ present \subseteq Files
      /\ \A g, h \in present : g \in older[h] <=> (g # h /\ h \notin older[g])
      /\ \A g, h \in Files : g \in older[h] => older[g] \subseteq older[h]
      /\ \A g \in present : onDisk[g] > 0
      /\ current \in Nat
  BY DEF MediaInv, MediaFiles!TypeOK, MediaFiles!There, Disks
<1>2. MediaFiles!Dropped(size) = [files |-> out, count |-> MediaFiles!Minus(current, bytes(out))]
  BY DEF MediaFiles!Dropped, MediaFiles!There
<1>3. /\ size \in Nat /\ target \in Nat
      /\ size =< MaxBytes => target + size = MaxBytes
      /\ size > MaxBytes => target = 0
  BY MediaCacheAssumption DEF MediaFiles!Minus
<1>4. \A F \in SUBSET present : IsFiniteSet(F) /\ bytes(F) \in Nat
  BY <1>1, FS_Subset, BytesAreFinite
<1>5. out \in SUBSET present /\ MediaFiles!Minus(current, bytes(out)) \in Nat
  <2>1. out \in SUBSET present
    OBVIOUS
  <2> HIDE DEF out
  <2> QED
    BY <1>1, <1>4, <2>1 DEF MediaFiles!Minus
<1>6. ASSUME present \ out # {} PROVE MediaFiles!Minus(current, bytes(out)) =< target
  <2> DEFINE weights == {bytes(older[g]) : g \in present \ out}
  <2>1. weights \in SUBSET Nat /\ weights # {}
    BY <1>1, <1>4, <1>6
  <2> HIDE DEF weights
  <2>2. PICK w \in weights : \A v \in weights : w =< v
    BY <2>1, LeastOf
  <2>3. PICK g \in present \ out : bytes(older[g]) = w
    BY DEF weights
  <2>4. \A h \in present \ out : w =< bytes(older[h])
    BY <2>2 DEF weights
  <2>5. older[g] \subseteq out
    <3>1. SUFFICES ASSUME NEW h \in older[g], h \notin out PROVE FALSE
      OBVIOUS
    <3>2. h \in present /\ h \in present \ out /\ g \in present
      BY <1>1, <3>1
    <3>3. older[h] \subseteq older[g] /\ h \notin older[h] /\ older[g] \subseteq present
      BY <1>1, <3>2
    <3>4. older[h] \cup {h} \subseteq older[g] /\ older[h] \cap {h} = {}
      BY <3>1, <3>3
    <3>5. IsFiniteSet(older[h]) /\ IsFiniteSet({h}) /\ IsFiniteSet(older[g])
      BY <1>4, <3>3, FS_Singleton
    <3>6. bytes(older[h] \cup {h}) = bytes(older[h]) + bytes({h})
      BY <1>1, <3>4, <3>5, SeparateFiles
    <3>7. bytes(older[h] \cup {h}) =< bytes(older[g])
      BY <1>1, <3>4, <3>5, MoreFiles
    <3>8. bytes({h}) = onDisk[h] /\ onDisk[h] > 0
      BY <1>1, <3>2, OneFile
    <3>9. w =< bytes(older[h])
      BY <2>4, <3>2
    <3>10. bytes(older[h]) \in Nat /\ bytes(older[g]) \in Nat /\ onDisk[h] \in Nat
      BY <1>1, <1>4, <3>2, <3>3 DEF Disks
    <3> HIDE DEF bytes
    <3> QED
      BY <2>3, <3>6, <3>7, <3>8, <3>9, <3>10
  <2>6. bytes(older[g]) =< bytes(out)
    BY <1>1, <1>4, <1>5, <2>5, MoreFiles
  <2>7. ~ (MediaFiles!Minus(current, bytes(older[g])) > target)
    BY <2>3
  <2>8. bytes(older[g]) \in Nat /\ bytes(out) \in Nat
    BY <1>1, <1>4, <1>5, <2>3
  <2> HIDE DEF bytes, out, target
  <2> QED
    BY <1>1, <1>3, <2>6, <2>7, <2>8 DEF MediaFiles!Minus
<1>8. ASSUME ~disturbed, size > MaxBytes PROVE present \ out = {}
  <2>1. SUFFICES ASSUME NEW g \in present \ out PROVE FALSE
    OBVIOUS
  <2>2. bytes(present) =< current
    BY <1>8 DEF MediaInv
  <2>3. out \cup {g} \in SUBSET present /\ out \cap {g} = {} /\ {g} \in SUBSET present
    BY <1>5, <2>1
  <2>4. bytes(out \cup {g}) = bytes(out) + bytes({g})
    BY <1>1, <1>4, <1>5, <2>3, SeparateFiles
  <2>5. bytes(out \cup {g}) =< bytes(present)
    BY <1>1, <2>3, MoreFiles
  <2>6. bytes({g}) = onDisk[g] /\ onDisk[g] > 0 /\ onDisk[g] \in Nat
    BY <1>1, <2>1, OneFile DEF Disks
  <2>7. MediaFiles!Minus(current, bytes(out)) =< 0
    BY <1>3, <1>6, <1>8, <2>1
  <2>8. bytes(out) \in Nat /\ bytes(present) \in Nat
    BY <1>4, <1>5
  <2> HIDE DEF bytes, out, present
  <2> QED
    BY <1>1, <2>2, <2>4, <2>5, <2>6, <2>7, <2>8 DEF MediaFiles!Minus
<1> HIDE DEF out, target, bytes
<1>7. MediaFiles!Dropped(size).files = out
      /\ MediaFiles!Dropped(size).count = MediaFiles!Minus(current, bytes(out))
  BY <1>2
<1>9. ~disturbed => MediaFiles!Minus(current, bytes(out)) + size =< MaxBytes \/ present \ out = {}
  BY <1>3, <1>5, <1>6, <1>8, MediaCacheAssumption
<1> QED
  BY <1>5, <1>7, <1>9 DEF bytes

LEMMA CacheNext == MediaInv /\ [MediaFiles!Next]_mediaVars => MediaInv'
<1> SUFFICES ASSUME MediaInv, [MediaFiles!Next]_mediaVars PROVE MediaInv'
  OBVIOUS
<1> DEFINE present == MediaFiles!There
           total == MediaFiles!Bytes(onDisk, present)
<1>1. /\ onDisk \in Disks /\ current \in Nat /\ disturbed \in BOOLEAN /\ MaxBytes \in Nat
      /\ Sizes \subseteq Nat \ {0} /\ IsFiniteSet(present) /\ MaxCount \in Nat
      /\ ~disturbed => total =< current /\ Fits(total)
  BY MediaCacheAssumption DEF MediaInv, MediaFiles!TypeOK, Disks
<1>2. \A F \in SUBSET present :
         /\ IsFiniteSet(F) /\ MediaFiles!Bytes(onDisk, F) \in Nat
         /\ MediaFiles!Bytes(onDisk, F) =< total
         /\ MediaFiles!Bytes(onDisk, present \ F) = total - MediaFiles!Bytes(onDisk, F)
  <2> TAKE F \in SUBSET present
  <2>1. IsFiniteSet(F) /\ IsFiniteSet(present \ F) /\ F \cap (present \ F) = {}
    BY <1>1, FS_Subset, FS_Difference
  <2>2. MediaFiles!Bytes(onDisk, F \cup (present \ F))
           = MediaFiles!Bytes(onDisk, F) + MediaFiles!Bytes(onDisk, present \ F)
    BY <1>1, <2>1, SeparateFiles
  <2>3. F \cup (present \ F) = present
    OBVIOUS
  <2>4. MediaFiles!Bytes(onDisk, F) \in Nat /\ MediaFiles!Bytes(onDisk, present \ F) \in Nat
    BY <1>1, <2>1, BytesAreFinite
  <2>5. total = MediaFiles!Bytes(onDisk, F) + MediaFiles!Bytes(onDisk, present \ F)
    BY <2>2, <2>3
  <2> HIDE DEF total, present
  <2> QED
    BY <2>1, <2>4, <2>5
<1>3. CASE UNCHANGED mediaVars
  BY <1>3 DEF mediaVars, MediaInv, MediaFiles!TypeOK, MediaFiles!There, MediaFiles!Bytes,
       MediaFiles!Stored, Fits
<1>4. ASSUME NEW f \in Files, NEW size \in Sizes, MediaFiles!Store(f, size) PROVE MediaInv'
  <2> DEFINE drop == IF current + size > MaxBytes THEN MediaFiles!Dropped(size)
                     ELSE MediaFiles!NoDrop
             rest == present \ drop.files
  <2>1. /\ drop.count + size =< MaxCount /\ MediaFiles!Written(f, drop.files, size)
        /\ current' = drop.count + size /\ disturbed' = disturbed
    BY <1>4 DEF MediaFiles!Store
  <2>2. size \in Nat
    BY <1>1
  <2>3. /\ drop.files \in SUBSET present /\ drop.count \in Nat
        /\ drop.count >= current - MediaFiles!Bytes(onDisk, drop.files)
        /\ ~disturbed => drop.count + size =< MaxBytes \/ rest = {}
    <3>1. CASE current + size > MaxBytes
      <4>1. drop = MediaFiles!Dropped(size)
        BY <3>1
      <4>2. /\ drop.files \in SUBSET present /\ drop.count \in Nat
            /\ drop.count = MediaFiles!Minus(current, MediaFiles!Bytes(onDisk, drop.files))
            /\ ~disturbed => drop.count + size =< MaxBytes \/ rest = {}
        BY <4>1, OldestAreDropped
      <4>3. MediaFiles!Bytes(onDisk, drop.files) \in Nat
        BY <1>2, <4>2
      <4> HIDE DEF drop, rest
      <4> QED
        BY <1>1, <4>2, <4>3 DEF MediaFiles!Minus
    <3>2. CASE ~ (current + size > MaxBytes)
      <4>1. drop.files = {} /\ drop.count = current
        BY <3>2 DEF MediaFiles!NoDrop
      <4>2. MediaFiles!Bytes(onDisk, drop.files) = 0
        BY <1>1, <4>1, NoBytes
      <4> HIDE DEF drop
      <4> QED
        BY <1>1, <2>2, <3>2, <4>1, <4>2
    <3> QED
      BY <3>1, <3>2
  <2> HIDE DEF drop
  <2>4. current' \in 0..MaxCount /\ size \in 0..MaxCount
    BY <1>1, <2>1, <2>2, <2>3
  <2>5. /\ MediaFiles!TypeOK' /\ IsFiniteSet(MediaFiles!There')
        /\ MediaFiles!Bytes(onDisk', MediaFiles!There')
              = MediaFiles!Bytes(onDisk, present \ (drop.files \cup {f})) + size
        /\ MediaFiles!There' \subseteq rest \cup {f}
    BY <1>1, <2>1, <2>2, <2>3, <2>4, FileIsWritten
  <2>6. /\ MediaFiles!Bytes(onDisk, present \ (drop.files \cup {f}))
              =< MediaFiles!Bytes(onDisk, rest)
        /\ MediaFiles!Bytes(onDisk, present \ (drop.files \cup {f})) \in Nat
        /\ MediaFiles!Bytes(onDisk, rest) \in Nat
        /\ MediaFiles!Bytes(onDisk, rest) = total - MediaFiles!Bytes(onDisk, drop.files)
    <3>1. present \ (drop.files \cup {f}) \in SUBSET rest /\ rest \in SUBSET present
      OBVIOUS
    <3>2. IsFiniteSet(rest)
      BY <1>1, FS_Subset, <3>1
    <3> QED
      BY <1>1, <1>2, <2>3, <3>1, <3>2, MoreFiles
  <2>7. rest = {} => MediaFiles!Bytes(onDisk, rest) = 0
    BY <1>1, NoBytes
  <2>8. total \in Nat /\ MediaFiles!Bytes(onDisk, drop.files) \in Nat
    BY <1>2, <2>3
  <2>9. ~disturbed' => /\ MediaFiles!Bytes(onDisk', MediaFiles!There') =< current'
                       /\ \/ MediaFiles!Bytes(onDisk', MediaFiles!There') =< MaxBytes
                          \/ MediaFiles!There' \subseteq {f}
    <3> HIDE DEF rest, total
    <3> QED
      BY <1>1, <2>1, <2>2, <2>3, <2>5, <2>6, <2>7, <2>8
  <2> QED
    BY <2>5, <2>9 DEF MediaInv, Fits
<1>5. ASSUME NEW f \in Files, NEW size \in Sizes, MediaFiles!StoreDisturbed(f, size)
      PROVE  MediaInv'
  <2> DEFINE drop == IF current + size > MaxBytes THEN MediaFiles!Dropped(size)
                     ELSE MediaFiles!NoDrop
  <2>1. /\ drop.count + size =< MaxCount /\ disturbed' = TRUE
        /\ \E out \in SUBSET drop.files, left \in 0..size :
              /\ MediaFiles!Written(f, out, left)
              /\ current' = drop.count + (IF left = size THEN size ELSE 0)
    BY <1>5 DEF MediaFiles!StoreDisturbed
  <2>2. drop.files \in SUBSET present /\ drop.count \in Nat
    BY <1>1, OldestAreDropped DEF MediaFiles!NoDrop
  <2> HIDE DEF drop
  <2>3. PICK out \in SUBSET drop.files, left \in 0..size :
           /\ MediaFiles!Written(f, out, left)
           /\ current' = drop.count + (IF left = size THEN size ELSE 0)
    BY <2>1
  <2>4. size \in Nat /\ left \in 0..MaxCount /\ current' \in 0..MaxCount
    BY <1>1, <2>1, <2>2, <2>3
  <2>5. MediaFiles!TypeOK' /\ IsFiniteSet(MediaFiles!There')
    BY <2>1, <2>2, <2>3, <2>4, FileIsWritten
  <2> QED
    BY <2>1, <2>5 DEF MediaInv
<1>6. ASSUME NEW f \in Files, MediaFiles!Evict(f) PROVE MediaInv'
  <2>1. /\ onDisk[f] > 0 /\ MediaFiles!Written(f, {}, 0) /\ disturbed' = disturbed
        /\ current' = MediaFiles!Minus(current, onDisk[f])
    BY <1>6 DEF MediaFiles!Evict
  <2>2. onDisk[f] \in Nat /\ f \in present /\ {f} \in SUBSET present
    BY <1>1, <2>1 DEF MediaFiles!There, Disks
  <2>3. current' \in 0..MaxCount
    BY <1>1, <2>1, <2>2 DEF MediaFiles!Minus, MediaInv, MediaFiles!TypeOK
  <2>4. /\ MediaFiles!TypeOK' /\ IsFiniteSet(MediaFiles!There')
        /\ MediaFiles!Bytes(onDisk', MediaFiles!There')
              = MediaFiles!Bytes(onDisk, present \ ({} \cup {f})) + 0
        /\ MediaFiles!There' \subseteq present
    <3>1. {} \in SUBSET present /\ 0 \in 0..MaxCount /\ (present \ {}) \cup {f} = present
      BY <1>1, <2>2
    <3>2. /\ MediaFiles!TypeOK' /\ IsFiniteSet(MediaFiles!There')
          /\ MediaFiles!Bytes(onDisk', MediaFiles!There')
                = MediaFiles!Bytes(onDisk, present \ ({} \cup {f})) + 0
          /\ MediaFiles!There' \subseteq (present \ {}) \cup {f}
      BY <1>1, <2>1, <2>3, <3>1, FileIsWritten
    <3> QED
      BY <3>1, <3>2
  <2>5. MediaFiles!Bytes(onDisk, present \ {f}) = total - onDisk[f]
    BY <1>1, <1>2, <2>2, OneFile
  <2>6. {} \cup {f} = {f} /\ total \in Nat
    BY <1>2
  <2>7. MediaFiles!Bytes(onDisk', MediaFiles!There') = total - onDisk[f]
    <3> HIDE DEF total
    <3> QED
      BY <2>2, <2>4, <2>5, <2>6
  <2>8. ~disturbed' => /\ MediaFiles!Bytes(onDisk', MediaFiles!There') =< current'
                       /\ \/ MediaFiles!Bytes(onDisk', MediaFiles!There') =< MaxBytes
                          \/ \E g \in Files : MediaFiles!There' \subseteq {g}
    <3> HIDE DEF total
    <3> QED
      BY <1>1, <2>1, <2>2, <2>4, <2>6, <2>7 DEF MediaFiles!Minus, Fits
  <2> QED
    BY <2>4, <2>8 DEF MediaInv, Fits
<1>7. CASE MediaFiles!Reopen
  <2>1. /\ current' = 0 /\ disturbed' = (disturbed \/ MediaFiles!Total(onDisk) > 0)
        /\ onDisk' = onDisk /\ older' = older
    BY <1>7 DEF MediaFiles!Reopen
  <2>2. MediaFiles!There' = present /\ MediaFiles!Total(onDisk) = total
    BY <2>1 DEF MediaFiles!There, MediaFiles!Total
  <2>3. MediaFiles!TypeOK'
    BY <1>1, <2>1, <2>2 DEF MediaInv, MediaFiles!TypeOK, Disks
  <2>4. MediaFiles!Bytes(onDisk', MediaFiles!There') = total /\ total \in Nat
    BY <1>2, <2>1, <2>2
  <2>5. ~disturbed' => ~disturbed /\ ~ (total > 0)
    BY <2>1, <2>2, Zenon
  <2>6. ~disturbed' => total =< current' /\ total =< MaxBytes
    <3> HIDE DEF total
    <3> QED
      BY <1>1, <2>1, <2>4, <2>5
  <2> QED
    BY <1>1, <2>2, <2>3, <2>4, <2>6 DEF MediaInv, Fits
<1> QED
  BY <1>3, <1>4, <1>5, <1>6, <1>7 DEF MediaFiles!Next, mediaVars

LEMMA CacheHolds == MediaInv => MediaFiles!WithinBudget
<1> SUFFICES ASSUME MediaInv, ~disturbed
             PROVE  \/ MediaFiles!Bytes(onDisk, MediaFiles!There) =< MaxBytes
                    \/ \E f \in Files : onDisk[f] > MaxBytes /\ MediaFiles!There = {f}
  BY DEF MediaFiles!WithinBudget, MediaFiles!Total, MediaFiles!There
<1>1. /\ onDisk \in Disks /\ MaxBytes \in Nat
      /\ \A g \in Files : g \in MediaFiles!There <=> onDisk[g] > 0
      /\ MediaFiles!There \subseteq Files
  BY MediaCacheAssumption DEF MediaInv, MediaFiles!TypeOK, MediaFiles!There, Disks
<1>2. CASE MediaFiles!Bytes(onDisk, MediaFiles!There) =< MaxBytes
  BY <1>2
<1>3. ASSUME NEW f \in Files, MediaFiles!There \subseteq {f}
      PROVE  \/ MediaFiles!Bytes(onDisk, MediaFiles!There) =< MaxBytes
             \/ onDisk[f] > MaxBytes /\ MediaFiles!There = {f}
  <2>1. CASE MediaFiles!There = {}
    BY <1>1, <2>1, NoBytes
  <2>2. CASE MediaFiles!There = {f}
    <3>1. MediaFiles!Bytes(onDisk, MediaFiles!There) = onDisk[f] /\ onDisk[f] \in Nat
      BY <1>1, <2>2, OneFile DEF Disks
    <3> QED
      BY <1>1, <2>2, <3>1
  <2> QED
    BY <1>3, <2>1, <2>2
<1> QED
  BY <1>2, <1>3 DEF MediaInv, Fits

(* The first part of FilesAreKept: whatever is stored, stored again and      *)
(* evicted, the files of the media cache stay within max_bytes, or are one   *)
(* that is larger, in a process that found none and whose removals succeed.  *)
THEOREM CacheWithinBudget == Spec => []MediaFiles!WithinBudget
<1>1. Init => MediaInv
  BY CacheBegins DEF Init
<1>2. MediaInv /\ [Next]_vars => MediaInv'
  BY PartsMove, CacheNext
<1> QED
  BY <1>1, <1>2, CacheHolds, PTL DEF Spec

(* Both parts: with one thread that registers devices, the media cache stays *)
(* within its budget, but for one file that is larger, and the keys of each  *)
(* device that was answered since a read or a write last failed stay in the  *)
(* vault file.                                                               *)
THEOREM FilesStay == ASSUME OneRegistrar PROVE Spec => []FilesAreKept
<1>1. Spec => []MediaFiles!WithinBudget
  BY CacheWithinBudget
<1>2. Spec => []Vault!KeysStay
  BY DeviceKeysStay
<1> QED
  BY <1>1, <1>2, PTL DEF FilesAreKept

--------------------------------------------------------------------------------

Cells == [kind : {"nonce", "length", "text", "tag"}, from : Nat, value : Nat]

(* The n cells of text from offset on, framed, after the p-th cell.          *)
FrameAt(cells, offset, p, n) ==
    /\ n \in Nat \ {0} /\ p + n + 3 =< Len(cells)
    /\ cells[p + 1].from = offset /\ cells[p + 1].value = 0
    /\ cells[p + 2].value = n + 1
    /\ \A i \in 1..n :
          /\ cells[p + 2 + i].kind = "text" /\ cells[p + 2 + i].from = offset
          /\ cells[p + 2 + i].value = offset + i
    /\ cells[p + n + 3].kind = "tag" /\ cells[p + n + 3].from = offset
    /\ cells[p + n + 3].value = n

(* The size of the chunk at an offset.                                       *)
ChunkAt(offset, size, length) == Objects!Shorter(size, length - offset)

(* marks has the pairs of an offset and the place where its frame begins, up *)
(* to the offset upto, where the cells end.                                  *)
Framed(marks, cells, upto, size, length) ==
    /\ marks \subseteq Nat \X Nat
    /\ <<0, 0>> \in marks /\ <<upto, Len(cells)>> \in marks
    /\ \A m \in marks :
          /\ m[1] =< upto /\ m[2] =< Len(cells)
          /\ m[1] = length \/ m[1] % size = 0
          /\ m[1] = upto => m[2] = Len(cells)
          /\ m[1] < upto =>
                /\ FrameAt(cells, m[1], m[2], ChunkAt(m[1], size, length))
                /\ <<m[1] + ChunkAt(m[1], size, length), m[2] + ChunkAt(m[1], size, length) + 3>>
                      \in marks

(* What arrives is the beginning of what was sent, but for values.           *)
Like(arrived, cells) ==
    /\ Len(arrived) \in Nat /\ Len(arrived) =< Len(cells)
    /\ \A i \in 1..Len(arrived) :
          arrived[i].kind = cells[i].kind /\ arrived[i].from = cells[i].from

SealSize == Objects!Effective(object.sealSize)
OpenSize == Objects!Effective(object.openSize)
Counts(list) == \A i \in DOMAIN list : list[i] = i

ObjectTypes ==
    /\ object \in [length : Nat, sealSize : Nat, openSize : Nat]
    /\ sealing \in [step : {"idle", "loop", "done", "refused"}, offset : Nat, out : Seq(Cells)]
    /\ wire \in [state : {"none", "whole", "cut", "damaged"}, cells : Seq(Cells)]
    /\ opening \in [step : {"idle", "loop", "done", "refused"}, cursor : Nat, out : Seq(Nat)]

ObjectsInv ==
    /\ ObjectTypes
    /\ \E marks : /\ Framed(marks, sealing.out, sealing.offset, SealSize, object.length)
                  /\ <<Len(opening.out), opening.cursor>> \in marks
    /\ sealing.offset =< object.length
    /\ sealing.step = "idle" => sealing = Objects!NotSealed
    /\ sealing.step = "done" => sealing.offset = object.length
    /\ wire.state = "none" => opening = Objects!NotOpened
    /\ wire.state # "none" => sealing.step = "done" /\ Like(wire.cells, sealing.out)
    /\ wire.state = "whole" => wire.cells = sealing.out
    /\ Counts(opening.out)
    /\ opening.step = "done" => opening.cursor = Len(wire.cells)
    /\ wire.state = "whole" /\ opening.step = "refused" =>
          OpenSize < Objects!Shorter(SealSize, object.length) \/ Objects!TooLong(OpenSize)

LEMMA NextMultiple ==
  ASSUME NEW a \in Nat, NEW e \in Nat \ {0}, a % e = 0
  PROVE  (a + e) % e = 0
<1>1. PICK q \in Nat : a = e * q
  OBVIOUS
<1>2. a + e = e * (q + 1) /\ q + 1 \in Nat
  BY <1>1
<1>3. \A k \in Nat : (e * k) % e = 0
  OBVIOUS
<1> QED
  BY <1>2, <1>3

LEMMA SizesArePositive == ObjectTypes => SealSize \in Nat \ {0} /\ OpenSize \in Nat \ {0}
  BY ConvergentAssumption DEF ObjectTypes, SealSize, OpenSize, Objects!Effective

(* The cells of one frame.                                                   *)
LEMMA FrameIs ==
  ASSUME NEW a \in Nat, NEW b \in Nat, a < b
  PROVE  LET f == Objects!Frame(a, Objects!Upto(a, b))
         IN  f \in Seq(Cells) /\ Len(f) = (b - a) + 3 /\ FrameAt(f, a, 0, b - a)
<1> DEFINE n == b - a
           chunk == Objects!Upto(a, b)
           head == <<Objects!Cell("nonce", a, 0), Objects!Cell("length", a, Len(chunk) + 1)>>
           plain == [i \in DOMAIN chunk |-> Objects!Cell("text", a, chunk[i])]
           tag == <<Objects!Cell("tag", a, Len(chunk))>>
           f == Objects!Frame(a, chunk)
<1>1. n \in Nat \ {0}
  OBVIOUS
<1>2. /\ chunk \in Seq(Nat) /\ Len(chunk) = n /\ DOMAIN chunk = 1..n
      /\ \A i \in 1..n : chunk[i] = a + i
  <2>1. chunk = [i \in 1..n |-> a + i]
    BY DEF Objects!Upto
  <2> HIDE DEF chunk, n
  <2>2. chunk \in [1..n -> Nat]
    BY <2>1
  <2> QED
    BY <1>1, <2>1, <2>2
<1>3. f = (head \o plain) \o tag
  BY DEF Objects!Frame, Objects!TagSize
<1> HIDE DEF chunk, n, f
<1>4. \A x \in {"nonce", "length", "text", "tag"}, y \in Nat, z \in Nat :
         /\ Objects!Cell(x, y, z) \in Cells
         /\ Objects!Cell(x, y, z).kind = x
         /\ Objects!Cell(x, y, z).from = y /\ Objects!Cell(x, y, z).value = z
  BY DEF Objects!Cell, Cells
<1>5. head \in Seq(Cells) /\ Len(head) = 2
  BY <1>1, <1>2, <1>4
<1>6. plain \in Seq(Cells) /\ Len(plain) = n
  <2>1. plain \in [1..n -> Cells]
    BY <1>2, <1>4
  <2> QED
    BY <1>1, <2>1
<1>7. tag \in Seq(Cells) /\ Len(tag) = 1
  BY <1>1, <1>2, <1>4
<1>8. /\ head[1].from = a /\ head[1].value = 0 /\ head[2].value = n + 1
      /\ tag[1].kind = "tag" /\ tag[1].from = a /\ tag[1].value = n
      /\ \A i \in 1..n : plain[i].kind = "text" /\ plain[i].from = a /\ plain[i].value = a + i
  <2>1. head[1].from = a /\ head[1].value = 0 /\ head[2].value = n + 1
    BY <1>1, <1>2, <1>4
  <2>2. tag[1].kind = "tag" /\ tag[1].from = a /\ tag[1].value = n
    BY <1>1, <1>2, <1>4
  <2>3. ASSUME NEW i \in 1..n
        PROVE  plain[i].kind = "text" /\ plain[i].from = a /\ plain[i].value = a + i
    <3>1. plain[i] = Objects!Cell("text", a, a + i) /\ a + i \in Nat
      BY <1>1, <1>2
    <3> HIDE DEF plain
    <3> QED
      BY <1>4, <3>1
  <2> QED
    BY <2>1, <2>2, <2>3
<1> HIDE DEF head, plain, tag
<1> DEFINE begin == head \o plain
<1>9. /\ begin \in Seq(Cells) /\ Len(begin) = n + 2
      /\ begin[1] = head[1] /\ begin[2] = head[2]
      /\ \A i \in 1..n : begin[2 + i] = plain[i]
  <2>1. /\ begin \in Seq(Cells) /\ Len(begin) = Len(head) + Len(plain)
        /\ \A i \in 1..(Len(head) + Len(plain)) :
              begin[i] = IF i =< Len(head) THEN head[i] ELSE plain[i - Len(head)]
    BY <1>5, <1>6, ConcatProperties
  <2> HIDE DEF begin
  <2>2. /\ Len(begin) = 2 + n
        /\ \A i \in 1..(2 + n) : begin[i] = IF i =< 2 THEN head[i] ELSE plain[i - 2]
    BY <1>5, <1>6, <2>1
  <2>3. ASSUME NEW i \in 1..n PROVE begin[2 + i] = plain[i]
    <3>1. 2 + i \in 1..(2 + n) /\ ~ (2 + i =< 2) /\ (2 + i) - 2 = i
      BY <1>1
    <3> QED
      BY <2>2, <3>1
  <2> QED
    BY <1>1, <2>1, <2>2, <2>3
<1> HIDE DEF begin
<1>10. /\ f \in Seq(Cells) /\ Len(f) = n + 3
       /\ \A i \in 1..(n + 2) : f[i] = begin[i]
       /\ f[n + 3] = tag[1]
  <2>1. f = begin \o tag
    BY <1>3 DEF begin
  <2>2. /\ f \in Seq(Cells) /\ Len(f) = Len(begin) + Len(tag)
        /\ \A i \in 1..(Len(begin) + Len(tag)) :
              f[i] = IF i =< Len(begin) THEN begin[i] ELSE tag[i - Len(begin)]
    BY <1>7, <1>9, <2>1, ConcatProperties
  <2>4. /\ Len(f) = (n + 2) + 1
        /\ \A i \in 1..((n + 2) + 1) : f[i] = IF i =< n + 2 THEN begin[i] ELSE tag[i - (n + 2)]
    BY <1>7, <1>9, <2>2
  <2>3. (n + 2) + 1 = n + 3 /\ n + 3 \in 1..((n + 2) + 1) /\ ~ (n + 3 =< n + 2) /\ (n + 3) - (n + 2) = 1
    BY <1>1
  <2> QED
    BY <1>1, <2>2, <2>3, <2>4
<1>11. FrameAt(f, a, 0, n)
  <2>1. 0 + 1 = 1 /\ 0 + 2 = 2 /\ 0 + n + 3 = n + 3 /\ \A i \in 1..n : 0 + 2 + i = 2 + i /\ 2 + i \in 1..(n + 2)
    BY <1>1
  <2>2. f[1] = head[1] /\ f[2] = head[2] /\ \A i \in 1..n : f[2 + i] = plain[i]
    BY <1>1, <1>9, <1>10, <2>1
  <2>3. 0 + n + 3 =< Len(f)
    BY <1>1, <1>10
  <2>4. \A i \in 1..n : f[0 + 2 + i] = plain[i]
    BY <2>1, <2>2
  <2>5. f[0 + 1] = head[1] /\ f[0 + 2] = head[2] /\ f[0 + n + 3] = tag[1]
    BY <1>10, <2>1, <2>2
  <2> QED
    BY <1>1, <1>8, <2>3, <2>4, <2>5 DEF FrameAt
<1> QED
  BY <1>10, <1>11 DEF f, n, chunk

(* A frame stays where it is when another comes after it.                    *)
LEMMA FramesStay ==
  ASSUME NEW cells \in Seq(Cells), NEW f \in Seq(Cells)
  PROVE  /\ cells \o f \in Seq(Cells) /\ Len(cells \o f) = Len(cells) + Len(f)
         /\ \A o, p, n \in Nat : FrameAt(cells, o, p, n) => FrameAt(cells \o f, o, p, n)
         /\ \A o, n \in Nat : FrameAt(f, o, 0, n) => FrameAt(cells \o f, o, Len(cells), n)
<1> DEFINE all == cells \o f
<1>1. /\ all \in Seq(Cells) /\ Len(all) = Len(cells) + Len(f)
      /\ \A i \in 1..(Len(cells) + Len(f)) :
            all[i] = IF i =< Len(cells) THEN cells[i] ELSE f[i - Len(cells)]
  BY ConcatProperties
<1> HIDE DEF all
<1>2. Len(cells) \in Nat /\ Len(f) \in Nat
  BY LenProperties
<1>3. \A i \in 1..Len(cells) : all[i] = cells[i]
  BY <1>1, <1>2
<1>4. \A i \in 1..Len(f) : all[Len(cells) + i] = f[i]
  <2> TAKE i \in 1..Len(f)
  <2>1. /\ Len(cells) + i \in 1..(Len(cells) + Len(f)) /\ ~ (Len(cells) + i =< Len(cells))
        /\ (Len(cells) + i) - Len(cells) = i
    BY <1>2
  <2> QED
    BY <1>1, <2>1
<1>5. ASSUME NEW o \in Nat, NEW p \in Nat, NEW n \in Nat, FrameAt(cells, o, p, n)
      PROVE  FrameAt(all, o, p, n)
  <2>1. n \in Nat \ {0} /\ p + n + 3 =< Len(cells) /\ p + n + 3 =< Len(all)
    BY <1>1, <1>2, <1>5 DEF FrameAt
  <2>2. /\ p + 1 \in 1..Len(cells) /\ p + 2 \in 1..Len(cells) /\ p + n + 3 \in 1..Len(cells)
        /\ \A i \in 1..n : p + 2 + i \in 1..Len(cells)
    BY <1>2, <2>1
  <2> QED
    BY <1>3, <1>5, <2>1, <2>2 DEF FrameAt
<1>6. ASSUME NEW o \in Nat, NEW n \in Nat, FrameAt(f, o, 0, n)
      PROVE  FrameAt(all, o, Len(cells), n)
  <2>1. n \in Nat \ {0} /\ 0 + n + 3 =< Len(f)
    BY <1>6 DEF FrameAt
  <2>2. Len(cells) + n + 3 =< Len(all)
    BY <1>1, <1>2, <2>1
  <2>3. /\ 0 + 1 \in 1..Len(f) /\ 0 + 2 \in 1..Len(f) /\ 0 + n + 3 \in 1..Len(f)
        /\ \A i \in 1..n : 0 + 2 + i \in 1..Len(f)
    BY <1>2, <2>1
  <2>4. /\ all[Len(cells) + 1] = f[0 + 1] /\ all[Len(cells) + 2] = f[0 + 2]
    BY <1>4, <2>3
  <2>5. all[Len(cells) + n + 3] = f[0 + n + 3]
    <3>1. Len(cells) + (0 + n + 3) = Len(cells) + n + 3
      BY <1>2
    <3> QED
      BY <1>4, <2>3, <3>1
  <2>6. \A i \in 1..n : all[Len(cells) + 2 + i] = f[0 + 2 + i]
    <3> TAKE i \in 1..n
    <3>1. Len(cells) + (0 + 2 + i) = Len(cells) + 2 + i
      BY <1>2
    <3> QED
      BY <1>4, <2>3, <3>1
  <2> QED
    BY <1>6, <2>1, <2>2, <2>4, <2>5, <2>6 DEF FrameAt
<1> QED
  BY <1>1, <1>5, <1>6 DEF all

(* One more chunk is sealed.                                                 *)
LEMMA OneMoreFrame ==
  ASSUME NEW marks, NEW cells \in Seq(Cells), NEW upto \in Nat, NEW size \in Nat \ {0},
         NEW length \in Nat, upto < length,
         Framed(marks, cells, upto, size, length)
  PROVE  LET n == ChunkAt(upto, size, length)
             f == Objects!Frame(upto, Objects!Upto(upto, upto + n))
         IN  /\ n \in Nat \ {0} /\ upto + n =< length
             /\ cells \o f \in Seq(Cells)
             /\ Framed(marks \cup {<<upto + n, Len(cells) + n + 3>>}, cells \o f, upto + n, size, length)
<1> DEFINE n == ChunkAt(upto, size, length)
           f == Objects!Frame(upto, Objects!Upto(upto, upto + n))
           all == cells \o f
           last == <<upto + n, Len(cells) + n + 3>>
           more == marks \cup {last}
<1>1. n \in Nat \ {0} /\ upto + n =< length /\ (upto + n = length \/ n = size)
  BY DEF ChunkAt, Objects!Shorter
<1> HIDE DEF n
<1>2. upto + n \in Nat /\ upto < upto + n /\ (upto + n) - upto = n
  BY <1>1
<1>3. f \in Seq(Cells) /\ Len(f) = n + 3 /\ FrameAt(f, upto, 0, n)
  BY <1>2, FrameIs
<1> HIDE DEF f
<1>4. /\ all \in Seq(Cells) /\ Len(all) = Len(cells) + (n + 3)
      /\ \A o, p, k \in Nat : FrameAt(cells, o, p, k) => FrameAt(all, o, p, k)
      /\ FrameAt(all, upto, Len(cells), n)
  BY <1>1, <1>3, FramesStay
<1>5. Len(cells) \in Nat
  BY LenProperties
<1> HIDE DEF all
<1>6. Len(all) = Len(cells) + n + 3
  BY <1>1, <1>4, <1>5
<1>7. last \in Nat \X Nat /\ last[1] = upto + n /\ last[2] = Len(cells) + n + 3
  BY <1>1, <1>5
<1> HIDE DEF last
<1>8. more \subseteq Nat \X Nat /\ <<0, 0>> \in more
  BY <1>7 DEF Framed
<1>9. last = <<upto + n, Len(all)>> /\ last \in more
  BY <1>6 DEF last
<1>10. upto % size = 0
  <2> DEFINE m == <<upto, Len(cells)>>
  <2>1. m \in marks /\ m[1] = upto /\ upto # length
    BY DEF Framed
  <2> HIDE DEF m
  <2> QED
    BY <2>1 DEF Framed
<1>11. last[1] = length \/ last[1] % size = 0
  BY <1>1, <1>7, <1>10, NextMultiple
<1>12. ASSUME NEW m \in more
       PROVE  /\ m[1] =< upto + n /\ m[2] =< Len(all)
              /\ m[1] = length \/ m[1] % size = 0
              /\ m[1] = upto + n => m[2] = Len(all)
              /\ m[1] < upto + n =>
                    /\ FrameAt(all, m[1], m[2], ChunkAt(m[1], size, length))
                    /\ <<m[1] + ChunkAt(m[1], size, length),
                         m[2] + ChunkAt(m[1], size, length) + 3>> \in more
  <2>1. CASE m = last
    BY <1>2, <1>6, <1>7, <1>11, <2>1
  <2>2. CASE m \in marks
    <3>1. /\ m[1] \in Nat /\ m[2] \in Nat /\ m[1] =< upto /\ m[2] =< Len(cells)
          /\ m[1] = length \/ m[1] % size = 0
      BY <2>2 DEF Framed
    <3>2. m[1] =< upto + n /\ m[2] =< Len(all) /\ m[1] < upto + n
      BY <1>1, <1>5, <1>6, <3>1
    <3>3. CASE m[1] < upto
      <4>1. /\ FrameAt(cells, m[1], m[2], ChunkAt(m[1], size, length))
            /\ <<m[1] + ChunkAt(m[1], size, length),
                 m[2] + ChunkAt(m[1], size, length) + 3>> \in marks
        BY <2>2, <3>3 DEF Framed
      <4>2. ChunkAt(m[1], size, length) \in Nat
        BY <4>1 DEF FrameAt
      <4>3. FrameAt(all, m[1], m[2], ChunkAt(m[1], size, length))
        BY <1>4, <3>1, <4>1, <4>2
      <4> QED
        BY <3>1, <3>2, <4>1, <4>3
    <3>4. CASE m[1] = upto
      <4>1. m[2] = Len(cells)
        BY <2>2, <3>4 DEF Framed
      <4>2. ChunkAt(m[1], size, length) = n
        BY <3>4 DEF n
      <4> QED
        BY <1>4, <1>9, <3>1, <3>2, <3>4, <4>1, <4>2 DEF last
    <3> QED
      BY <3>1, <3>3, <3>4
  <2> QED
    BY <2>1, <2>2
<1> HIDE DEF more
<1>13. Framed(more, all, upto + n, size, length)
  BY <1>8, <1>9, <1>12 DEF Framed
<1> QED
  BY <1>1, <1>4, <1>13 DEF all, f, n, more, last

(* Where a frame of the stream begins, no other length than its own passes:  *)
(* a shorter one does not end with a tag, a longer one has cells of the next *)
(* frame.                                                                    *)
Passes(marks, cells, w, length, size, o, p, l) ==
    /\ cells \in Seq(Cells) /\ w \in Seq(Cells) /\ Like(w, cells)
    /\ length \in Nat /\ size \in Nat \ {0} /\ Framed(marks, cells, length, size, length)
    /\ o \in Nat /\ p \in Nat /\ <<o, p>> \in marks
    /\ l \in Nat \ {0} /\ p + 2 + l =< Len(w) /\ w[p + 2 + l].kind = "tag"
    /\ \A i \in 1..l : w[p + 2 + i].from = w[p + 1].from

LEMMA SoundIsFrame ==
  ASSUME NEW marks, NEW cells, NEW w, NEW length, NEW size, NEW o, NEW p, NEW l,
         Passes(marks, cells, w, length, size, o, p, l)
  PROVE  /\ o < length /\ l = ChunkAt(o, size, length) + 1
         /\ w[p + 1].from = o
<1> DEFINE n == ChunkAt(o, size, length)
           here == <<o, p>>
           next == <<o + n, p + n + 3>>
<1> USE DEF Passes
<1>1. Len(w) \in Nat /\ Len(cells) \in Nat /\ Len(w) =< Len(cells)
  BY LenProperties DEF Like
<1>2. here \in marks /\ here[1] = o /\ here[2] = p
  OBVIOUS
<1> HIDE DEF here
<1>3. o < length
  <2>1. o =< length /\ (o = length => p = Len(cells))
    BY <1>2 DEF Framed
  <2> QED
    BY <1>1, <2>1
<1>4. FrameAt(cells, o, p, n) /\ next \in marks
  BY <1>2, <1>3 DEF Framed
<1>5. next[1] = o + n /\ next[2] = p + n + 3
  OBVIOUS
<1> HIDE DEF n, next
<1>6. /\ n \in Nat \ {0} /\ p + n + 3 =< Len(cells)
      /\ cells[p + 1].from = o
      /\ \A i \in 1..n : cells[p + 2 + i].kind = "text"
  BY <1>4 DEF FrameAt
<1>7. w[p + 1].from = o
  <2>1. p + 1 \in 1..Len(w)
    BY <1>1
  <2> QED
    BY <1>6, <2>1 DEF Like
<1>8. ~ (l =< n)
  <2> SUFFICES ASSUME l =< n PROVE FALSE
    OBVIOUS
  <2>1. l \in 1..n /\ p + 2 + l \in 1..Len(w)
    BY <1>1, <1>6
  <2>2. w[p + 2 + l].kind = cells[p + 2 + l].kind
    BY <2>1 DEF Like
  <2> QED
    BY <1>6, <2>1, <2>2
<1>9. ~ (l > n + 1)
  <2> SUFFICES ASSUME l > n + 1 PROVE FALSE
    OBVIOUS
  <2>1. /\ n + 2 \in 1..l /\ p + 2 + (n + 2) = (p + n + 3) + 1
        /\ (p + n + 3) + 1 \in 1..Len(w) /\ p + n + 3 < Len(cells)
    BY <1>1, <1>6
  <2>2. w[(p + n + 3) + 1].from = o
    BY <1>7, <2>1
  <2>3. cells[(p + n + 3) + 1].from = o
    BY <2>1, <2>2 DEF Like
  <2>4. next[1] < length
    <3>1. next[1] =< length /\ (next[1] = length => next[2] = Len(cells))
      BY <1>4 DEF Framed
    <3>2. o + n \in Nat
      BY <1>6
    <3> QED
      BY <1>5, <2>1, <3>1, <3>2
  <2>5. FrameAt(cells, next[1], next[2], ChunkAt(next[1], size, length))
    BY <1>4, <2>4 DEF Framed
  <2>6. cells[(p + n + 3) + 1].from = o + n
    BY <1>5, <2>5 DEF FrameAt
  <2> QED
    BY <1>6, <2>3, <2>6
<1> QED
  BY <1>3, <1>6, <1>7, <1>8, <1>9 DEF n

LEMMA BodyIs ==
  ASSUME NEW w \in Seq(Cells), NEW p \in Nat, NEW l \in Nat \ {0}, p + 2 + l =< Len(w)
  PROVE  LET b == SubSeq(w, p + 2 + 1, p + 2 + l)
         IN  /\ Len(b) = l /\ DOMAIN b = 1..l
             /\ \A i \in 1..l : b[i] = w[p + 2 + i]
<1> DEFINE b == SubSeq(w, p + 2 + 1, p + 2 + l)
<1>1. Len(w) \in Nat /\ \A i \in 1..Len(w) : w[i] \in Cells
  BY LenProperties, ElementOfSeq
<1>2. /\ p + 2 + 1 \in Int /\ p + 2 + l \in Int
      /\ \A i \in (p + 2 + 1)..(p + 2 + l) : w[i] \in Cells
  BY <1>1
<1>3. /\ b \in Seq(Cells)
      /\ Len(b) = IF p + 2 + 1 =< p + 2 + l THEN (p + 2 + l) - (p + 2 + 1) + 1 ELSE 0
      /\ \A i \in 1..((p + 2 + l) - (p + 2 + 1) + 1) : b[i] = w[(p + 2 + 1) + i - 1]
  BY <1>2, SubSeqProperties
<1> HIDE DEF b
<1>4. Len(b) = l /\ \A i \in 1..l : b[i] = w[p + 2 + i]
  <2>1. (p + 2 + l) - (p + 2 + 1) + 1 = l /\ p + 2 + 1 =< p + 2 + l
    OBVIOUS
  <2>2. \A i \in 1..l : (p + 2 + 1) + i - 1 = p + 2 + i
    OBVIOUS
  <2> QED
    BY <1>3, <2>1, <2>2
<1>5. DOMAIN b = 1..l
  BY <1>3, <1>4, LenProperties
<1> QED
  BY <1>4, <1>5 DEF b

(* The numbers go on.                                                        *)
LEMMA CountsOn ==
  ASSUME NEW out \in Seq(Nat), Counts(out), NEW n \in Nat, NEW more,
         more = [i \in 1..n |-> Len(out) + i]
  PROVE  out \o more \in Seq(Nat) /\ Counts(out \o more) /\ Len(out \o more) = Len(out) + n
<1> DEFINE all == out \o more
<1>1. Len(out) \in Nat /\ DOMAIN out = 1..Len(out)
  BY LenProperties
<1>2. more \in Seq(Nat) /\ Len(more) = n
  <2>1. more \in [1..n -> Nat]
    BY <1>1
  <2> QED
    BY <2>1
<1>3. /\ all \in Seq(Nat) /\ Len(all) = Len(out) + Len(more)
      /\ \A i \in 1..(Len(out) + Len(more)) :
            all[i] = IF i =< Len(out) THEN out[i] ELSE more[i - Len(out)]
  BY <1>2, ConcatProperties
<1> HIDE DEF all
<1>4. DOMAIN all = 1..(Len(out) + n)
  BY <1>2, <1>3, LenProperties
<1>5. ASSUME NEW i \in 1..(Len(out) + n) PROVE all[i] = i
  <2>1. CASE i =< Len(out)
    <3>1. i \in 1..(Len(out) + Len(more)) /\ i \in DOMAIN out
      BY <1>1, <1>2, <2>1
    <3>2. all[i] = out[i]
      BY <1>3, <2>1, <3>1
    <3> QED
      BY <3>1, <3>2 DEF Counts
  <2>2. CASE ~ (i =< Len(out))
    <3>1. i - Len(out) \in 1..n /\ Len(out) + (i - Len(out)) = i
      BY <1>1, <2>2
    <3>2. all[i] = more[i - Len(out)]
      BY <1>2, <1>3, <2>2
    <3> QED
      BY <3>1, <3>2
  <2> QED
    BY <2>1, <2>2
<1>6. Counts(all)
  BY <1>4, <1>5 DEF Counts
<1> QED
  BY <1>2, <1>3, <1>6 DEF all

--------------------------------------------------------------------------------

LEMMA Untouched ==
  /\ Objects!NotSealed \in [step : {"idle", "loop", "done", "refused"}, offset : Nat, out : Seq(Cells)]
  /\ Objects!NotSealed.step = "idle" /\ Objects!NotSealed.offset = 0 /\ Objects!NotSealed.out = <<>>
  /\ Objects!NotOpened \in [step : {"idle", "loop", "done", "refused"}, cursor : Nat, out : Seq(Nat)]
  /\ Objects!NotOpened.step = "idle" /\ Objects!NotOpened.cursor = 0
  /\ Objects!NotOpened.out = <<>>
  /\ Objects!NoWire \in [state : {"none", "whole", "cut", "damaged"}, cells : Seq(Cells)]
  /\ Objects!NoWire.state = "none"
<1>1. <<>> \in Seq(Cells) /\ <<>> \in Seq(Nat)
  OBVIOUS
<1> QED
  BY <1>1 DEF Objects!NotSealed, Objects!NotOpened, Objects!NoWire

LEMMA NoFrames ==
  ASSUME NEW size \in Nat \ {0}, NEW length \in Nat
  PROVE  Framed({<<0, 0>>}, <<>>, 0, size, length)
<1> DEFINE zero == <<0, 0>>
<1>1. zero[1] = 0 /\ zero[2] = 0 /\ zero \in Nat \X Nat /\ 0 % size = 0
  OBVIOUS
<1>2. Len(<<>>) = 0 /\ <<0, Len(<<>>)>> = zero
  OBVIOUS
<1> HIDE DEF zero
<1>3. Framed({zero}, <<>>, 0, size, length)
  BY <1>1, <1>2 DEF Framed, zero
<1> QED
  BY <1>3 DEF zero

(* An object that nothing was done to.                                       *)
LEMMA ObjectsAnew ==
  ASSUME object \in [length : Nat, sealSize : Nat, openSize : Nat],
         sealing = Objects!NotSealed, wire = Objects!NoWire, opening = Objects!NotOpened
  PROVE  ObjectsInv
<1>1. ObjectTypes
  BY Untouched DEF ObjectTypes
<1>2. SealSize \in Nat \ {0} /\ object.length \in Nat
  BY <1>1, SizesArePositive DEF ObjectTypes
<1>3. Framed({<<0, 0>>}, sealing.out, sealing.offset, SealSize, object.length)
  BY <1>2, NoFrames, Untouched
<1>4. <<Len(opening.out), opening.cursor>> \in {<<0, 0>>}
  BY Untouched
<1>5. Counts(opening.out)
  BY Untouched DEF Counts
<1> QED
  BY <1>1, <1>2, <1>3, <1>4, <1>5, Untouched DEF ObjectsInv

LEMMA ObjectsBegin == Objects!Init => ObjectsInv
<1> SUFFICES ASSUME Objects!Init PROVE ObjectsInv
  OBVIOUS
<1>1. object \in [length : Nat, sealSize : Nat, openSize : Nat]
  BY ConvergentAssumption DEF Objects!Init
<1> QED
  BY <1>1, ObjectsAnew DEF Objects!Init

LEMMA NextObject == ASSUME Objects!Finish PROVE ObjectsInv'
<1>1. /\ object' \in [length : 0..MaxLength, sealSize : ChunkSizes, openSize : ChunkSizes]
      /\ sealing' = Objects!NotSealed /\ wire' = Objects!NoWire /\ opening' = Objects!NotOpened
  BY DEF Objects!Finish
<1>2. object' \in [length : Nat, sealSize : Nat, openSize : Nat]
  <2>1. 0..MaxLength \subseteq Nat /\ ChunkSizes \subseteq Nat
    BY ConvergentAssumption
  <2>2. \A o \in [length : 0..MaxLength, sealSize : ChunkSizes, openSize : ChunkSizes] :
           o \in [length : Nat, sealSize : Nat, openSize : Nat]
    BY <2>1
  <2> QED
    BY <1>1, <2>2
<1>3. ObjectTypes'
  BY <1>1, <1>2, Untouched DEF ObjectTypes
<1>4. SealSize' \in Nat \ {0} /\ object'.length \in Nat
  BY <1>2, ConvergentAssumption DEF SealSize, Objects!Effective
<1>5. Framed({<<0, 0>>}, sealing'.out, sealing'.offset, SealSize', object'.length)
  BY <1>1, <1>4, NoFrames, Untouched
<1>6. <<Len(opening'.out), opening'.cursor>> \in {<<0, 0>>}
  BY <1>1, Untouched
<1>7. Counts(opening'.out)
  BY <1>1, Untouched DEF Counts
<1> QED
  BY <1>1, <1>3, <1>4, <1>5, <1>6, <1>7, Untouched DEF ObjectsInv

LEMMA ChunkIsSealed == ASSUME ObjectsInv, Objects!SealChunk PROVE ObjectsInv'
<1> DEFINE end == Objects!Shorter(sealing.offset + SealSize, object.length)
           f == Objects!Frame(sealing.offset, Objects!Upto(sealing.offset, end))
<1>1. /\ sealing.step = "loop" /\ UNCHANGED <<object, wire, opening>>
      /\ sealing' = IF sealing.offset < object.length
                    THEN [sealing EXCEPT !.offset = end, !.out = sealing.out \o f]
                    ELSE [sealing EXCEPT !.step = "done"]
  BY DEF Objects!SealChunk, SealSize
<1>2. /\ SealSize \in Nat \ {0} /\ object.length \in Nat /\ sealing.offset \in Nat
      /\ sealing.out \in Seq(Cells) /\ ObjectTypes
  BY SizesArePositive DEF ObjectsInv, ObjectTypes
<1>3. PICK marks : /\ Framed(marks, sealing.out, sealing.offset, SealSize, object.length)
                   /\ <<Len(opening.out), opening.cursor>> \in marks
  BY DEF ObjectsInv
<1>4. SealSize' = SealSize
  BY <1>1 DEF SealSize
<1>5. wire.state = "none" /\ wire'.state = "none" /\ opening' = Objects!NotOpened
  BY <1>1 DEF ObjectsInv, ObjectTypes
<1>6. CASE sealing.offset < object.length
  <2> DEFINE n == ChunkAt(sealing.offset, SealSize, object.length)
  <2>1. end = sealing.offset + n
    BY <1>2, <1>6 DEF ChunkAt, Objects!Shorter
  <2> HIDE DEF end
  <2> DEFINE more == marks \cup {<<sealing.offset + n, Len(sealing.out) + n + 3>>}
  <2>2. /\ n \in Nat \ {0} /\ sealing.offset + n =< object.length
        /\ sealing.out \o f \in Seq(Cells)
        /\ Framed(more, sealing.out \o f, sealing.offset + n, SealSize, object.length)
    <3> HIDE DEF n
    <3>1. f = Objects!Frame(sealing.offset, Objects!Upto(sealing.offset, sealing.offset + n))
      BY <2>1
    <3> QED
      BY <1>2, <1>3, <1>6, <3>1, OneMoreFrame DEF n
  <2> HIDE DEF n, f
  <2>3. /\ sealing'.offset = end /\ sealing'.out = sealing.out \o f /\ sealing'.step = "loop"
        /\ sealing' \in [step : {"idle", "loop", "done", "refused"}, offset : Nat, out : Seq(Cells)]
    <3>1. end \in Nat
      BY <1>2, <2>1, <2>2
    <3>2. sealing' = [sealing EXCEPT !.offset = end, !.out = sealing.out \o f]
      BY <1>1, <1>6
    <3>3. sealing \in [step : {"idle", "loop", "done", "refused"}, offset : Nat, out : Seq(Cells)]
      BY <1>2 DEF ObjectTypes
    <3> QED
      BY <1>1, <2>2, <3>1, <3>2, <3>3
  <2>4. ObjectTypes'
    BY <1>1, <1>2, <2>3 DEF ObjectTypes
  <2>5. \E m : /\ Framed(m, sealing'.out, sealing'.offset, SealSize', object'.length)
               /\ <<Len(opening'.out), opening'.cursor>> \in m
    <3>1. Framed(more, sealing'.out, sealing'.offset, SealSize', object'.length)
      BY <1>1, <1>4, <2>1, <2>2, <2>3
    <3>2. <<Len(opening'.out), opening'.cursor>> \in more
      BY <1>1, <1>3
    <3> HIDE DEF more
    <3> QED
      BY <3>1, <3>2
  <2>6. sealing'.offset =< object'.length
    BY <1>1, <2>1, <2>2, <2>3
  <2> QED
    BY <1>1, <1>5, <2>3, <2>4, <2>5, <2>6, Untouched DEF ObjectsInv
<1>7. CASE ~ (sealing.offset < object.length)
  <2>1. sealing.offset = object.length
    BY <1>2, <1>7 DEF ObjectsInv
  <2>2. /\ sealing'.offset = sealing.offset /\ sealing'.out = sealing.out /\ sealing'.step = "done"
        /\ sealing' \in [step : {"idle", "loop", "done", "refused"}, offset : Nat, out : Seq(Cells)]
    BY <1>1, <1>2, <1>7 DEF ObjectTypes
  <2>3. ObjectTypes'
    BY <1>1, <1>2, <2>2 DEF ObjectTypes
  <2>4. /\ Framed(marks, sealing'.out, sealing'.offset, SealSize', object'.length)
        /\ <<Len(opening'.out), opening'.cursor>> \in marks
    BY <1>1, <1>3, <1>4, <2>2
  <2> QED
    BY <1>1, <1>5, <2>1, <2>2, <2>3, <2>4, Untouched DEF ObjectsInv
<1> QED
  BY <1>6, <1>7

(* What a transfer of the sealed object may leave on the wire.               *)
Arriving(w) ==
    /\ w \in [state : {"none", "whole", "cut", "damaged"}, cells : Seq(Cells)]
    /\ Like(w.cells, sealing.out)
    /\ w.state = "whole" => w.cells = sealing.out
    /\ w.state # "none"

LEMMA ObjectArrives == ASSUME ObjectsInv, Objects!Transfer PROVE ObjectsInv'
<1>1. /\ sealing.step = "done" /\ wire.state = "none" /\ UNCHANGED <<object, sealing, opening>>
  BY DEF Objects!Transfer
<1>2. sealing.out \in Seq(Cells)
  BY DEF ObjectsInv, ObjectTypes
<1>3. /\ Len(sealing.out) \in Nat /\ DOMAIN sealing.out = 1..Len(sealing.out)
      /\ \A i \in 1..Len(sealing.out) : sealing.out[i] \in Cells
  BY <1>2, LenProperties, ElementOfSeq
<1>4. Arriving(wire')
  <2>1. CASE wire' = [state |-> "whole", cells |-> sealing.out]
    BY <1>2, <1>3, <2>1 DEF Like, Arriving
  <2>2. ASSUME NEW n \in 0..(Len(sealing.out) - 1),
               wire' = [state |-> "cut", cells |-> SubSeq(sealing.out, 1, n)]
        PROVE  Arriving(wire')
    <3> DEFINE part == SubSeq(sealing.out, 1, n)
    <3>1. /\ part \in Seq(Cells) /\ Len(part) = IF 1 =< n THEN n - 1 + 1 ELSE 0
          /\ \A i \in 1..(n - 1 + 1) : part[i] = sealing.out[1 + i - 1]
      <4>1. 1 \in Int /\ n \in Int /\ \A i \in 1..n : sealing.out[i] \in Cells
        BY <1>3
      <4> QED
        BY <4>1, SubSeqProperties
    <3>2. wire' = [state |-> "cut", cells |-> part]
      BY <2>2
    <3> HIDE DEF part
    <3>3. Len(part) = n /\ \A i \in 1..n : part[i] = sealing.out[i]
      BY <1>3, <3>1
    <3>4. Like(part, sealing.out)
      BY <1>3, <3>3 DEF Like
    <3> QED
      BY <3>1, <3>2, <3>4 DEF Arriving
  <2>3. ASSUME NEW i \in DOMAIN sealing.out, NEW n \in 0..MaxLength,
               wire' = [state |-> "damaged", cells |-> [sealing.out EXCEPT ![i].value = n]]
        PROVE  Arriving(wire')
    <3> DEFINE cell == [sealing.out[i] EXCEPT !.value = n]
               other == [sealing.out EXCEPT ![i] = cell]
    <3>1. sealing.out[i] \in Cells /\ n \in Nat
      BY <1>3, ConvergentAssumption
    <3>2. cell \in Cells /\ cell.kind = sealing.out[i].kind /\ cell.from = sealing.out[i].from
      BY <3>1 DEF Cells
    <3>3. wire' = [state |-> "damaged", cells |-> other]
      BY <2>3
    <3> HIDE DEF cell
    <3>4. /\ other \in Seq(Cells) /\ Len(other) = Len(sealing.out)
          /\ \A j \in 1..Len(sealing.out) : other[j] = IF j = i THEN cell ELSE sealing.out[j]
      BY <1>2, <1>3, <3>2, ExceptSeq
    <3> HIDE DEF other
    <3>5. Like(other, sealing.out)
      BY <1>3, <3>2, <3>4 DEF Like
    <3> QED
      BY <3>3, <3>4, <3>5 DEF Arriving
  <2> QED
    BY <2>1, <2>2, <2>3 DEF Objects!Transfer
<1>5. opening = Objects!NotOpened
  BY <1>1 DEF ObjectsInv
<1>6. ObjectTypes'
  BY <1>1, <1>4 DEF Arriving, ObjectsInv, ObjectTypes
<1>7. SealSize' = SealSize
  BY <1>1 DEF SealSize
<1>8. \E m : /\ Framed(m, sealing'.out, sealing'.offset, SealSize', object'.length)
             /\ <<Len(opening'.out), opening'.cursor>> \in m
  BY <1>1, <1>7 DEF ObjectsInv
<1> QED
  BY <1>1, <1>4, <1>5, <1>6, <1>8, Untouched DEF Arriving, ObjectsInv

(* What the loop reads at the cursor.                                        *)
RestOf == Len(wire.cells) - opening.cursor
LengthRead == wire.cells[opening.cursor + 2].value
BodyRead == SubSeq(wire.cells, opening.cursor + 2 + 1, opening.cursor + 2 + LengthRead)
SoundRead ==
    /\ RestOf >= 2 /\ LengthRead \in 1..(OpenSize + 1) /\ RestOf >= 2 + LengthRead
    /\ Objects!Authentic(wire.cells[opening.cursor + 1], BodyRead)

LEMMA FrameIsOpened ==
  ASSUME ObjectsInv, Objects!OpenFrame
  PROVE  /\ opening.step = "loop" /\ UNCHANGED <<object, sealing, wire>>
         /\ opening' = IF RestOf = 0 THEN [opening EXCEPT !.step = "done"]
                       ELSE IF SoundRead
                       THEN [opening EXCEPT
                                !.cursor = opening.cursor + 2 + LengthRead,
                                !.out = opening.out \o
                                           [i \in 1..(LengthRead - 1) |-> BodyRead[i].value]]
                       ELSE [opening EXCEPT !.step = "refused"]
BY DEF Objects!OpenFrame, Objects!HeaderSize, Objects!TagSize, RestOf, LengthRead, BodyRead,
       SoundRead, OpenSize

(* A sound frame is the one that was sealed there.                           *)
LEMMA SoundGoesOn ==
  ASSUME ObjectsInv, opening.step = "loop", SoundRead,
         NEW marks, Framed(marks, sealing.out, sealing.offset, SealSize, object.length),
         <<Len(opening.out), opening.cursor>> \in marks
  PROVE  LET n == ChunkAt(Len(opening.out), SealSize, object.length)
         IN  /\ n \in Nat /\ LengthRead = n + 1
             /\ \A i \in 1..n : BodyRead[i].value = Len(opening.out) + i
             /\ <<Len(opening.out) + n, opening.cursor + n + 3>> \in marks
<1> DEFINE o == Len(opening.out)
           p == opening.cursor
           w == wire.cells
           cells == sealing.out
           n == ChunkAt(o, SealSize, object.length)
           here == <<o, p>>
<1>1. /\ ObjectTypes /\ SealSize \in Nat \ {0} /\ OpenSize \in Nat \ {0}
  BY SizesArePositive DEF ObjectsInv
<1>2. /\ o \in Nat /\ p \in Nat /\ w \in Seq(Cells) /\ cells \in Seq(Cells) /\ object.length \in Nat
      /\ Len(w) \in Nat
  BY <1>1, LenProperties DEF ObjectTypes
<1>3. sealing.offset = object.length /\ Like(w, cells)
  BY Untouched DEF ObjectsInv
<1>4. /\ LengthRead \in Nat \ {0} /\ p + 2 + LengthRead =< Len(w)
      /\ Objects!Authentic(w[p + 1], BodyRead)
  BY <1>1, <1>2 DEF SoundRead, RestOf
<1>5. /\ Len(BodyRead) = LengthRead /\ DOMAIN BodyRead = 1..LengthRead
      /\ \A i \in 1..LengthRead : BodyRead[i] = w[p + 2 + i]
  BY <1>2, <1>4, BodyIs DEF BodyRead
<1>6. /\ \A i \in 1..LengthRead : w[p + 2 + i].from = w[p + 1].from
      /\ w[p + 2 + LengthRead].kind = "tag"
      /\ \A i \in 1..(LengthRead - 1) : BodyRead[i].value = w[p + 1].from + i
  <2> HIDE DEF w, p
  <2>1. LengthRead \in 1..LengthRead /\ \A i \in 1..(LengthRead - 1) : i \in 1..LengthRead
    BY <1>4
  <2>2. /\ \A i \in 1..LengthRead : BodyRead[i].from = w[p + 1].from
        /\ BodyRead[LengthRead].kind = "tag"
        /\ \A i \in 1..(LengthRead - 1) : BodyRead[i].value = w[p + 1].from + i
    BY <1>4, <1>5 DEF Objects!Authentic, Objects!TagSize
  <2> QED
    BY <1>5, <2>1, <2>2
<1> HIDE DEF w, o, p, cells, n
<1>7. here \in marks /\ Framed(marks, cells, object.length, SealSize, object.length)
  BY <1>3 DEF here, o, p, cells
<1>8. /\ o < object.length /\ LengthRead = n + 1 /\ w[p + 1].from = o
  <2>1. <<o, p>> \in marks
    BY <1>7 DEF here
  <2>2. /\ w \in Seq(Cells) /\ cells \in Seq(Cells) /\ Like(w, cells)
        /\ o \in Nat /\ p \in Nat
    BY <1>2, <1>3
  <2> DEFINE l == LengthRead
  <2>3. /\ l \in Nat \ {0} /\ p + 2 + l =< Len(w) /\ w[p + 2 + l].kind = "tag"
        /\ \A i \in 1..l : w[p + 2 + i].from = w[p + 1].from
    BY <1>4, <1>6
  <2>4. object.length \in Nat /\ SealSize \in Nat \ {0}
    BY <1>1, <1>2
  <2>5. Framed(marks, cells, object.length, SealSize, object.length)
    BY <1>7
  <2> HIDE DEF l
  <2>6. /\ o < object.length /\ l = ChunkAt(o, SealSize, object.length) + 1 /\ w[p + 1].from = o
    <3>1. Passes(marks, cells, w, object.length, SealSize, o, p, l)
      BY <2>1, <2>2, <2>3, <2>4, <2>5 DEF Passes
    <3> QED
      BY <3>1, SoundIsFrame
  <2> QED
    BY <2>6 DEF l, n
<1>9. FrameAt(cells, o, p, n) /\ <<o + n, p + n + 3>> \in marks
  <2>1. here[1] = o /\ here[2] = p
    OBVIOUS
  <2> HIDE DEF here
  <2> QED
    BY <1>7, <1>8, <2>1 DEF Framed, n
<1>10. n \in Nat /\ LengthRead - 1 = n
  BY <1>8, <1>9 DEF FrameAt
<1> QED
  BY <1>6, <1>8, <1>9, <1>10 DEF n, o, p

(* A frame that is as it was sealed is refused only for its length.          *)
LEMMA RefusedForLength ==
  ASSUME ObjectsInv, wire.state = "whole", RestOf # 0, ~SoundRead
  PROVE  OpenSize < Objects!Shorter(SealSize, object.length)
<1> DEFINE o == Len(opening.out)
           p == opening.cursor
           w == wire.cells
           n == ChunkAt(o, SealSize, object.length)
           here == <<o, p>>
<1>1. /\ ObjectTypes /\ SealSize \in Nat \ {0} /\ OpenSize \in Nat \ {0}
  BY SizesArePositive DEF ObjectsInv
<1>2. /\ o \in Nat /\ p \in Nat /\ w \in Seq(Cells) /\ object.length \in Nat
      /\ Len(w) \in Nat
  BY <1>1, LenProperties DEF ObjectTypes
<1>3. PICK marks : here \in marks /\ Framed(marks, w, object.length, SealSize, object.length)
  BY DEF ObjectsInv
<1>4. here[1] = o /\ here[2] = p
  OBVIOUS
<1> HIDE DEF here
<1>5. p < Len(w) /\ o < object.length
  <2>1. p =< Len(w) /\ p # Len(w)
    <3>1. here[2] =< Len(w)
      BY <1>3 DEF Framed
    <3>2. p # Len(w)
      BY <1>2 DEF RestOf
    <3> QED
      BY <1>4, <3>1, <3>2
  <2>2. o =< object.length /\ (o = object.length => p = Len(w))
    BY <1>3, <1>4 DEF Framed
  <2> QED
    BY <1>2, <2>1, <2>2
<1>6. FrameAt(w, o, p, n)
  BY <1>3, <1>4, <1>5 DEF Framed
<1>7. n =< Objects!Shorter(SealSize, object.length)
  BY <1>1, <1>2 DEF ChunkAt, Objects!Shorter
<1>8. n \in Nat \ {0} /\ p + n + 3 =< Len(w) /\ w[p + 2].value = n + 1
  BY <1>6 DEF FrameAt
<1>9. LengthRead = n + 1
  BY <1>8 DEF LengthRead
<1>10. RestOf >= 2 /\ RestOf >= 2 + LengthRead
  BY <1>2, <1>8, <1>9 DEF RestOf
<1>11. /\ Len(BodyRead) = n + 1 /\ DOMAIN BodyRead = 1..(n + 1)
       /\ \A i \in 1..(n + 1) : BodyRead[i] = w[p + 2 + i]
  <2>1. n + 1 \in Nat \ {0} /\ p + 2 + (n + 1) =< Len(w)
    BY <1>2, <1>8
  <2> DEFINE b == SubSeq(w, p + 2 + 1, p + 2 + (n + 1))
  <2>2. BodyRead = b
    BY <1>9 DEF BodyRead
  <2>3. w \in Seq(Cells) /\ p \in Nat
    BY <1>2
  <2> HIDE DEF n, w, p
  <2>4. Len(b) = n + 1 /\ DOMAIN b = 1..(n + 1) /\ \A i \in 1..(n + 1) : b[i] = w[p + 2 + i]
    BY <2>1, <2>3, BodyIs
  <2> QED
    BY <2>2, <2>4
<1> HIDE DEF n
<1>12. Objects!Authentic(w[p + 1], BodyRead)
  <2>1. /\ w[p + 1].from = o /\ w[p + 1].value = 0
        /\ \A i \in 1..n : w[p + 2 + i].from = o /\ w[p + 2 + i].value = o + i
        /\ w[p + n + 3].kind = "tag" /\ w[p + n + 3].from = o /\ w[p + n + 3].value = n
    BY <1>6 DEF FrameAt
  <2>0. p \in Nat /\ n \in Nat \ {0}
    BY <1>2, <1>8
  <2> HIDE DEF w, p, o
  <2>2. /\ p + 2 + (n + 1) = p + n + 3 /\ (n + 1) - 1 = n /\ n + 1 \in 1..(n + 1)
        /\ \A i \in 1..(n + 1) : i \in 1..n \/ i = n + 1
        /\ \A i \in 1..n : i \in 1..(n + 1)
    BY <2>0
  <2>3. BodyRead[n + 1] = w[p + n + 3]
    BY <1>11, <2>2
  <2>4. \A i \in 1..(n + 1) : BodyRead[i].from = o
    BY <1>11, <2>1, <2>2, <2>3
  <2>5. \A i \in 1..n : BodyRead[i].value = o + i
    BY <1>11, <2>1, <2>2
  <2> QED
    BY <1>11, <2>1, <2>2, <2>3, <2>4, <2>5 DEF Objects!Authentic, Objects!TagSize
<1>13. ~ (LengthRead \in 1..(OpenSize + 1))
  BY <1>10, <1>12 DEF SoundRead
<1>14. n > OpenSize
  <2>1. OpenSize \in Nat \ {0} /\ n \in Nat \ {0}
    BY <1>1, <1>8
  <2> QED
    BY <1>9, <1>13, <2>1
<1>15. OpenSize \in Nat /\ n \in Nat /\ Objects!Shorter(SealSize, object.length) \in Nat
  BY <1>1, <1>2, <1>8 DEF Objects!Shorter
<1> QED
  BY <1>7, <1>14, <1>15

LEMMA OpeningMoves == ASSUME ObjectsInv, Objects!OpenFrame PROVE ObjectsInv'
<1>1. opening.step = "loop" /\ UNCHANGED <<object, sealing, wire>>
  BY FrameIsOpened
<1>2. PICK marks : /\ Framed(marks, sealing.out, sealing.offset, SealSize, object.length)
                   /\ <<Len(opening.out), opening.cursor>> \in marks
  BY DEF ObjectsInv
<1>3. /\ ObjectTypes /\ wire.state # "none" /\ SealSize' = SealSize /\ OpenSize' = OpenSize
      /\ opening \in [step : {"idle", "loop", "done", "refused"}, cursor : Nat, out : Seq(Nat)]
      /\ Len(wire.cells) \in Nat
  BY <1>1, Untouched, LenProperties DEF ObjectsInv, ObjectTypes, SealSize, OpenSize
<1>4. CASE RestOf = 0
  <2>1. opening' = [opening EXCEPT !.step = "done"]
    BY <1>4, FrameIsOpened
  <2>2. /\ opening' \in [step : {"idle", "loop", "done", "refused"}, cursor : Nat, out : Seq(Nat)]
        /\ opening'.step = "done" /\ opening'.out = opening.out /\ opening'.cursor = opening.cursor
    BY <1>3, <2>1
  <2>3. opening'.cursor = Len(wire.cells)
    BY <1>3, <1>4, <2>2 DEF RestOf
  <2>4. \E m : /\ Framed(m, sealing'.out, sealing'.offset, SealSize', object'.length)
               /\ <<Len(opening'.out), opening'.cursor>> \in m
    BY <1>1, <1>2, <1>3, <2>2
  <2>5. ObjectTypes'
    BY <1>1, <1>3, <2>2 DEF ObjectTypes
  <2> QED
    BY <1>1, <1>3, <2>2, <2>3, <2>4, <2>5 DEF ObjectsInv
<1>5. CASE RestOf # 0 /\ ~SoundRead
  <2>1. opening' = [opening EXCEPT !.step = "refused"]
    BY <1>5, FrameIsOpened
  <2>2. /\ opening' \in [step : {"idle", "loop", "done", "refused"}, cursor : Nat, out : Seq(Nat)]
        /\ opening'.step = "refused" /\ opening'.out = opening.out
        /\ opening'.cursor = opening.cursor
    BY <1>3, <2>1
  <2>3. wire.state = "whole" => OpenSize < Objects!Shorter(SealSize, object.length)
    BY <1>5, RefusedForLength
  <2>4. \E m : /\ Framed(m, sealing'.out, sealing'.offset, SealSize', object'.length)
               /\ <<Len(opening'.out), opening'.cursor>> \in m
    BY <1>1, <1>2, <1>3, <2>2
  <2>5. ObjectTypes'
    BY <1>1, <1>3, <2>2 DEF ObjectTypes
  <2> QED
    BY <1>1, <1>3, <2>2, <2>3, <2>4, <2>5 DEF ObjectsInv
<1>6. CASE RestOf # 0 /\ SoundRead
  <2> DEFINE n == ChunkAt(Len(opening.out), SealSize, object.length)
             plain == [i \in 1..n |-> Len(opening.out) + i]
  <2>1. /\ n \in Nat /\ LengthRead = n + 1
        /\ \A i \in 1..n : BodyRead[i].value = Len(opening.out) + i
        /\ <<Len(opening.out) + n, opening.cursor + n + 3>> \in marks
    BY <1>1, <1>2, <1>6, SoundGoesOn
  <2> HIDE DEF n
  <2>0. opening.cursor \in Nat /\ Len(opening.out) \in Nat
    BY <1>3, LenProperties
  <2>2. LengthRead - 1 = n /\ opening.cursor + 2 + LengthRead = opening.cursor + n + 3
    <3>1. n \in Nat /\ LengthRead = n + 1
      BY <2>1
    <3> QED
      BY <2>0, <3>1
  <2>3. [i \in 1..(LengthRead - 1) |-> BodyRead[i].value] = plain
    BY <2>1, <2>2
  <2>4. opening' = [opening EXCEPT !.cursor = opening.cursor + n + 3, !.out = opening.out \o plain]
    BY <1>6, <2>2, <2>3, FrameIsOpened
  <2>5. opening.out \o plain \in Seq(Nat) /\ Counts(opening.out \o plain)
        /\ Len(opening.out \o plain) = Len(opening.out) + n
    BY <1>3, <2>1, CountsOn DEF ObjectsInv
  <2> HIDE DEF plain
  <2>6. /\ opening' \in [step : {"idle", "loop", "done", "refused"}, cursor : Nat, out : Seq(Nat)]
        /\ opening'.step = "loop" /\ opening'.out = opening.out \o plain
        /\ opening'.cursor = opening.cursor + n + 3
    <3> DEFINE end == opening.cursor + n + 3
    <3>1. end \in Nat
      BY <2>0, <2>1
    <3> HIDE DEF end
    <3>2. opening' = [opening EXCEPT !.cursor = end, !.out = opening.out \o plain]
      BY <2>4 DEF end
    <3>3. /\ opening' \in [step : {"idle", "loop", "done", "refused"}, cursor : Nat, out : Seq(Nat)]
          /\ opening'.step = "loop" /\ opening'.out = opening.out \o plain
          /\ opening'.cursor = end
      BY <1>1, <1>3, <2>5, <3>1, <3>2
    <3> QED
      BY <3>3 DEF end
  <2>7. \E m : /\ Framed(m, sealing'.out, sealing'.offset, SealSize', object'.length)
               /\ <<Len(opening'.out), opening'.cursor>> \in m
    BY <1>1, <1>2, <1>3, <2>1, <2>5, <2>6
  <2>8. ObjectTypes'
    BY <1>1, <1>3, <2>6 DEF ObjectTypes
  <2> QED
    BY <1>1, <1>3, <2>5, <2>6, <2>7, <2>8 DEF ObjectsInv
<1> QED
  BY <1>4, <1>5, <1>6

LEMMA ObjectsNext == ObjectsInv /\ [Objects!Next]_objectsVars => ObjectsInv'
<1> SUFFICES ASSUME ObjectsInv, [Objects!Next]_objectsVars PROVE ObjectsInv'
  OBVIOUS
<1>1. CASE UNCHANGED objectsVars
  BY <1>1 DEF objectsVars, ObjectsInv, ObjectTypes, SealSize, OpenSize
<1>2. CASE Objects!Seal
  <2>1. /\ sealing.step = "idle" /\ sealing' = [sealing EXCEPT !.step = "loop"]
        /\ UNCHANGED <<object, wire, opening>>
    BY <1>2 DEF Objects!Seal
  <2>2. /\ sealing'.step = "loop" /\ sealing'.offset = sealing.offset /\ sealing'.out = sealing.out
        /\ sealing' \in [step : {"idle", "loop", "done", "refused"}, offset : Nat, out : Seq(Cells)]
    BY <2>1 DEF ObjectsInv, ObjectTypes
  <2>3. wire.state = "none"
    BY <2>1 DEF ObjectsInv
  <2>4. SealSize' = SealSize /\ OpenSize' = OpenSize
    BY <2>1 DEF SealSize, OpenSize
  <2> QED
    BY <2>1, <2>2, <2>3, <2>4 DEF ObjectsInv, ObjectTypes
<1>3. CASE Objects!Open
  <2> DEFINE step == IF Objects!TooLong(OpenSize) THEN "refused" ELSE "loop"
  <2>1. /\ wire.state # "none" /\ opening' = [opening EXCEPT !.step = step]
        /\ UNCHANGED <<object, sealing, wire>>
    BY <1>3 DEF Objects!Open, OpenSize
  <2>5. step \in {"refused", "loop"} /\ (step = "refused" => Objects!TooLong(OpenSize))
    OBVIOUS
  <2> HIDE DEF step
  <2>2. /\ opening' \in [step : {"idle", "loop", "done", "refused"}, cursor : Nat, out : Seq(Nat)]
        /\ opening'.step = step /\ opening'.out = opening.out
        /\ opening'.cursor = opening.cursor
    BY <2>1, <2>5 DEF ObjectsInv, ObjectTypes
  <2>3. SealSize' = SealSize /\ OpenSize' = OpenSize
    BY <2>1 DEF SealSize, OpenSize
  <2>4. Objects!TooLong(OpenSize') <=> Objects!TooLong(OpenSize)
    BY <2>3
  <2> QED
    BY <2>1, <2>2, <2>3, <2>4, <2>5 DEF ObjectsInv, ObjectTypes
<1>4. CASE Objects!SealRefused
  <2>1. /\ sealing.step = "loop" /\ sealing' = [sealing EXCEPT !.step = "refused"]
        /\ UNCHANGED <<object, wire, opening>>
    BY <1>4 DEF Objects!SealRefused
  <2>2. /\ sealing'.step = "refused" /\ sealing'.offset = sealing.offset /\ sealing'.out = sealing.out
        /\ sealing' \in [step : {"idle", "loop", "done", "refused"}, offset : Nat, out : Seq(Cells)]
    BY <2>1 DEF ObjectsInv, ObjectTypes
  <2>3. wire.state = "none"
    BY <2>1 DEF ObjectsInv
  <2>4. SealSize' = SealSize /\ OpenSize' = OpenSize
    BY <2>1 DEF SealSize, OpenSize
  <2> QED
    BY <2>1, <2>2, <2>3, <2>4 DEF ObjectsInv, ObjectTypes
<1> QED
  BY <1>1, <1>2, <1>3, <1>4, ChunkIsSealed, ObjectArrives, OpeningMoves, NextObject
  DEF Objects!Next

(* Where the loop stopped: a beginning of the object, whole chunks of it     *)
(* unless it is all of it, which it is when everything arrived.              *)
LEMMA ObjectsHold == ObjectsInv => ObjectsOpen
<1> SUFFICES ASSUME ObjectsInv PROVE ObjectsOpen
  OBVIOUS
<1> DEFINE o == Len(opening.out)
           here == <<o, opening.cursor>>
           length == object.length
<1>1. PICK marks : Framed(marks, sealing.out, sealing.offset, SealSize, length) /\ here \in marks
  BY DEF ObjectsInv
<1>2. /\ ObjectTypes /\ length \in Nat /\ o \in Nat /\ opening.out \in Seq(Nat)
      /\ DOMAIN opening.out = 1..o /\ sealing.offset \in Nat
  BY LenProperties DEF ObjectsInv, ObjectTypes
<1>3. here[1] = o /\ here[2] = opening.cursor
  OBVIOUS
<1> HIDE DEF here
<1>4. /\ o =< sealing.offset /\ (o = length \/ o % SealSize = 0)
      /\ o < sealing.offset => opening.cursor < Len(sealing.out)
  <2>1. /\ here[1] =< sealing.offset /\ (here[1] = length \/ here[1] % SealSize = 0)
    BY <1>1 DEF Framed
  <2>2. ASSUME o < sealing.offset PROVE opening.cursor < Len(sealing.out)
    <3>1. FrameAt(sealing.out, o, opening.cursor, ChunkAt(o, SealSize, length))
      BY <1>1, <1>3, <2>2 DEF Framed
    <3>2. opening.cursor \in Nat /\ Len(sealing.out) \in Nat
      BY <1>2, LenProperties DEF ObjectTypes
    <3> QED
      BY <3>1, <3>2 DEF FrameAt
  <2> QED
    BY <1>3, <2>1, <2>2
<1>5. Objects!Whole = [i \in 1..length |-> i]
  BY <1>2 DEF Objects!Whole, Objects!Upto
<1>6. o = length => opening.out = Objects!Whole
  <2>1. ASSUME o = length PROVE opening.out = [i \in 1..length |-> i]
    <3>1. opening.out \in [1..length -> Nat]
      BY <1>2, <2>1
    <3> QED
      BY <1>2, <2>1, <3>1 DEF ObjectsInv, Counts
  <2> QED
    BY <1>5, <2>1
<1>7. Objects!RoundTrip
  <2>1. ASSUME wire.state = "whole", opening.step = "done" PROVE opening.out = Objects!Whole
    <3>1. sealing.offset = length /\ opening.cursor = Len(sealing.out)
      BY <2>1 DEF ObjectsInv
    <3>2. opening.cursor \in Nat
      BY <1>2 DEF ObjectTypes
    <3>3. o = length
      BY <1>2, <1>4, <3>1, <3>2
    <3> QED
      BY <1>6, <3>3
  <2>2. ASSUME wire.state = "whole", opening.step = "refused"
        PROVE  OpenSize < Objects!Shorter(SealSize, object.length) \/ Objects!TooLong(OpenSize)
    BY <2>2 DEF ObjectsInv
  <2> QED
    BY <2>1, <2>2 DEF Objects!RoundTrip, OpenSize, SealSize
<1>8. Objects!OpensPrefix
  <2>1. o =< length
    BY <1>2, <1>4 DEF ObjectsInv
  <2>2. Objects!Whole \in Seq(Nat) /\ Len(Objects!Whole) = length
    <3>1. Objects!Whole \in [1..length -> Nat]
      BY <1>2, <1>5
    <3> QED
      BY <1>2, <3>1
  <2>3. opening.out = SubSeq(Objects!Whole, 1, o)
    <3> DEFINE b == SubSeq(Objects!Whole, 1, o)
    <3>1. \A i \in 1..o : opening.out[i] = i /\ Objects!Whole[i] = i
      BY <1>2, <1>5, <2>1 DEF ObjectsInv, Counts
    <3>2. /\ \A i \in 1..o : Objects!Whole[i] \in Nat
          /\ 1 \in Int /\ o \in Int
      <4>1. o \in Int /\ \A i \in 1..o : i \in Nat
        BY <1>2
      <4> QED
        BY <3>1, <4>1
    <3>3. /\ b \in Seq(Nat) /\ Len(b) = IF 1 =< o THEN o - 1 + 1 ELSE 0
          /\ \A i \in 1..(o - 1 + 1) : b[i] = Objects!Whole[1 + i - 1]
      BY <3>2, SubSeqProperties
    <3> HIDE DEF b
    <3>4. Len(b) = o
      BY <1>2, <3>3
    <3>5. \A i \in 1..o : opening.out[i] = b[i]
      <4>1. \A i \in 1..o : i \in 1..(o - 1 + 1) /\ 1 + i - 1 = i
        BY <1>2
      <4> QED
        BY <3>1, <3>3, <4>1
    <3>6. opening.out = b
      BY <1>2, <3>3, <3>4, <3>5, SeqEqual
    <3> QED
      BY <3>6 DEF b
  <2>4. o =< Len(Objects!Whole)
    BY <2>1, <2>2
  <2>5. opening.out # Objects!Whole => o % SealSize = 0
    BY <1>4, <1>6
  <2> QED
    BY <2>3, <2>4, <2>5 DEF Objects!OpensPrefix, SealSize
<1> QED
  BY <1>7, <1>8 DEF ObjectsOpen

(* ObjectsOpen: of an object of any length, sealed and opened with any chunk *)
(* sizes, what arrives whole is opened as it was or refused, the latter only *)
(* if the size it is opened with is smaller than a chunk or beyond a frame;  *)
(* of what was cut or damaged whole chunks of its beginning come out, or an  *)
(* error (encrypt_object_pattern_c, decrypt_object_pattern_c).               *)
THEOREM ObjectsAreOpened == Spec => []ObjectsOpen
<1>1. Init => ObjectsInv
  BY ObjectsBegin DEF Init
<1>2. ObjectsInv /\ [Next]_vars => ObjectsInv'
  BY PartsMove, ObjectsNext
<1> QED
  BY <1>1, <1>2, ObjectsHold, PTL DEF Spec

--------------------------------------------------------------------------------

(* The types of the parts (TypeOK), part by part: where a part's own type     *)
(* is not inductive, what is stronger.  A call of the bindings:              *)
IsCall(r) ==
    /\ r = [name |-> r.name, left |-> r.left, wants |-> r.wants, keeps |-> r.keeps]
    /\ r.name \in Pool!Names \cup {"none"}
    /\ r.wants \in Pool!Conns \cup {Pool!None}
    /\ r.keeps \subseteq Pool!Conns

PoolTypes ==
    /\ readIdx \in 0..(IF PoolSize = 0 THEN 0 ELSE PoolSize - 1)
    /\ turn \in Callers \cup {Nobody}
    /\ conn \in [Pool!Conns -> Callers \cup {Nobody}]
    /\ DOMAIN calls = Callers /\ \A c \in Callers : IsCall(calls[c])

LEMMA PoolBegins == Pool!Init => PoolTypes
<1> SUFFICES ASSUME Pool!Init PROVE PoolTypes
  OBVIOUS
<1>1. /\ readIdx = 0 /\ turn = Nobody /\ conn = [i \in Pool!Conns |-> Nobody]
      /\ calls = [c \in Callers |-> Pool!Idle]
  BY DEF Pool!Init
<1>2. IsCall(Pool!Idle)
  BY DEF Pool!Idle, IsCall
<1> QED
  BY <1>1, <1>2, ReadPoolAssumption DEF PoolTypes

LEMMA CallChanges ==
  ASSUME PoolTypes, NEW c \in Callers, NEW r, IsCall(r), calls' = [calls EXCEPT ![c] = r]
  PROVE  DOMAIN calls' = Callers /\ \A d \in Callers : IsCall(calls'[d])
BY DEF PoolTypes

LEMMA PoolNext == PoolTypes /\ [Pool!Next]_poolVars => PoolTypes'
<1> SUFFICES ASSUME PoolTypes, [Pool!Next]_poolVars PROVE PoolTypes'
  OBVIOUS
<1>1. CASE UNCHANGED poolVars
  <2>1. UNCHANGED <<readIdx, turn, conn, calls>>
    BY <1>1 DEF poolVars
  <2> QED
    BY <2>1 DEF PoolTypes
<1>2. /\ readIdx \in 0..(IF PoolSize = 0 THEN 0 ELSE PoolSize - 1) /\ PoolSize \in Nat
      /\ turn \in Callers \cup {Nobody} /\ conn \in [Pool!Conns -> Callers \cup {Nobody}]
      /\ DOMAIN calls = Callers /\ \A c \in Callers : IsCall(calls[c])
  BY ReadPoolAssumption DEF PoolTypes
<1>3. ASSUME NEW c \in Callers, NEW name \in Pool!Names, Pool!Begin(c, name) PROVE PoolTypes'
  <2> DEFINE r == [Pool!Idle EXCEPT !.name = name, !.left = Pool!Program[name]]
  <2>1. calls' = [calls EXCEPT ![c] = r] /\ UNCHANGED <<readIdx, turn, conn>>
    BY <1>3 DEF Pool!Begin
  <2>2. IsCall(r)
    <3>1. IsCall(Pool!Idle)
      BY DEF Pool!Idle, IsCall
    <3>2. ASSUME NEW i, IsCall(i), NEW l PROVE IsCall([i EXCEPT !.name = name, !.left = l])
      <4>1. PICK m : m = [i EXCEPT !.name = name]
        OBVIOUS
      <4>2. m = [name |-> name, left |-> i.left, wants |-> i.wants, keeps |-> i.keeps]
        BY <3>2, <4>1 DEF IsCall
      <4>3. [m EXCEPT !.left = l] = [name |-> name, left |-> l, wants |-> i.wants, keeps |-> i.keeps]
        BY <4>2
      <4> QED
        BY <3>2, <4>1, <4>3 DEF IsCall
    <3> QED
      BY <3>1, <3>2
  <2> HIDE DEF r
  <2> QED
    BY <1>2, <2>1, <2>2, CallChanges DEF PoolTypes
<1>4. ASSUME NEW c \in Callers, Pool!Turn(c) PROVE PoolTypes'
  <2> DEFINE r == [calls[c] EXCEPT !.wants = readIdx + 1]
  <2>1. /\ PoolSize > 0 /\ turn' = c /\ readIdx' = (readIdx + 1) % PoolSize /\ UNCHANGED conn
        /\ calls' = [calls EXCEPT ![c] = r]
    BY <1>4 DEF Pool!Turn
  <2>2. readIdx + 1 \in Pool!Conns /\ readIdx' \in 0..(PoolSize - 1)
    BY <1>2, <2>1 DEF Pool!Conns
  <2>3. IsCall(r)
    BY <1>2, <2>2 DEF IsCall
  <2> HIDE DEF r
  <2> QED
    BY <1>2, <2>1, <2>2, <2>3, CallChanges DEF PoolTypes
<1>5. ASSUME NEW c \in Callers, Pool!TurnToWriter(c) PROVE PoolTypes'
  <2> DEFINE r == [calls[c] EXCEPT !.wants = 0]
  <2>1. calls' = [calls EXCEPT ![c] = r] /\ UNCHANGED <<readIdx, turn, conn>>
    BY <1>5 DEF Pool!TurnToWriter
  <2>2. 0 \in Pool!Conns
    BY <1>2 DEF Pool!Conns
  <2>3. IsCall(r)
    BY <1>2, <2>2 DEF IsCall
  <2> HIDE DEF r
  <2> QED
    BY <1>2, <2>1, <2>3, CallChanges DEF PoolTypes
<1>6. ASSUME NEW c \in Callers, Pool!Take(c) PROVE PoolTypes'
  <2>1. /\ UNCHANGED <<readIdx, calls>> /\ turn' \in {Nobody, turn}
        /\ conn' = [conn EXCEPT ![calls[c].wants] = c]
    BY <1>6 DEF Pool!Take
  <2>2. conn' \in [Pool!Conns -> Callers \cup {Nobody}]
    BY <1>2, <2>1
  <2> QED
    BY <1>2, <2>1, <2>2 DEF PoolTypes
<1>7. ASSUME NEW c \in Callers, Pool!Done(c) PROVE PoolTypes'
  <2>1. calls[c].wants \in Pool!Conns /\ UNCHANGED <<readIdx, turn>>
    BY <1>2, <1>7 DEF Pool!Done, IsCall
  <2>2. PICK k : /\ k \in {calls[c].keeps, calls[c].keeps \cup {calls[c].wants}}
                 /\ calls' = [calls EXCEPT ![c] =
                       [name |-> calls[c].name, left |-> Tail(calls[c].left),
                        wants |-> Pool!None, keeps |-> k]]
    <3>1. \/ calls' = [calls EXCEPT ![c].left = Tail(@), ![c].wants = Pool!None,
                                   ![c].keeps = @ \cup {calls[c].wants}]
          \/ calls' = [calls EXCEPT ![c].left = Tail(@), ![c].wants = Pool!None]
      BY <1>7 DEF Pool!Done
    <3>2. calls[c] = [name |-> calls[c].name, left |-> calls[c].left, wants |-> calls[c].wants,
                      keeps |-> calls[c].keeps]
      BY <1>2 DEF IsCall
    <3> QED
      BY <1>2, <3>1, <3>2
  <2>3. conn' \in [Pool!Conns -> Callers \cup {Nobody}]
    <3>1. conn' \in {conn, [conn EXCEPT ![calls[c].wants] = Nobody]}
      BY <1>7 DEF Pool!Done
    <3> QED
      BY <1>2, <3>1
  <2> DEFINE r == [name |-> calls[c].name, left |-> Tail(calls[c].left),
                   wants |-> Pool!None, keeps |-> k]
  <2>4. IsCall(r)
    BY <1>2, <2>1, <2>2 DEF IsCall
  <2>5. calls' = [calls EXCEPT ![c] = r]
    BY <2>2
  <2> HIDE DEF r
  <2> QED
    BY <1>2, <2>1, <2>3, <2>4, <2>5, CallChanges DEF PoolTypes
<1>8. ASSUME NEW c \in Callers, Pool!Return(c) PROVE PoolTypes'
  <2>1. /\ conn' = [i \in Pool!Conns |-> IF i \in calls[c].keeps THEN Nobody ELSE conn[i]]
        /\ calls' = [calls EXCEPT ![c] = Pool!Idle] /\ UNCHANGED <<readIdx, turn>>
    BY <1>8 DEF Pool!Return
  <2>2. conn' \in [Pool!Conns -> Callers \cup {Nobody}]
    BY <1>2, <2>1
  <2>3. IsCall(Pool!Idle)
    BY DEF Pool!Idle, IsCall
  <2> QED
    BY <1>2, <2>1, <2>2, <2>3, CallChanges DEF PoolTypes
<1> QED
  BY <1>1, <1>3, <1>4, <1>5, <1>6, <1>7, <1>8 DEF Pool!Next, Pool!Proceed

LEMMA ShardTypesBegin == ShardCaching!Init => ShardCaching!TypeOK
<1> SUFFICES ASSUME ShardCaching!Init PROVE ShardCaching!TypeOK
  OBVIOUS
<1>1. (CHOOSE k \in ShardKeys : TRUE) \in ShardKeys /\ MaxStamp \in Nat
  BY ShardCacheAssumption
<1> QED
  BY <1>1 DEF ShardCaching!Init, ShardCaching!NoCall, ShardCaching!TypeOK

LEMMA ShardTypesNext ==
  ShardCaching!TypeOK /\ [ShardCaching!Next]_shardsVars => ShardCaching!TypeOK'
<1> SUFFICES ASSUME ShardCaching!TypeOK, [ShardCaching!Next]_shardsVars PROVE ShardCaching!TypeOK'
  OBVIOUS
<1> DEFINE CallRecords == [method : {"none", "get", "insert"}, key : ShardKeys, ts : 0..MaxStamp]
<1>1. CASE UNCHANGED shardsVars
  BY <1>1 DEF shardsVars, ShardCaching!TypeOK
<1>2. /\ counter \in 0..MaxStamp /\ entries \in [ShardKeys -> 0..MaxStamp] /\ MaxStamp \in Nat
      /\ lookup \in [CacheThreads -> CallRecords] /\ served \in ShardKeys \cup {ShardCaching!NoKey}
  BY ShardCacheAssumption DEF ShardCaching!TypeOK
<1>3. ShardCaching!NoCall \in CallRecords
  <2>1. (CHOOSE k \in ShardKeys : TRUE) \in ShardKeys
    BY ShardCacheAssumption
  <2> QED
    BY <1>2, <2>1 DEF ShardCaching!NoCall
<1>4. ASSUME NEW t \in CacheThreads, NEW k \in ShardKeys, NEW method \in {"get", "insert"},
             ShardCaching!Stamp(t, method, k)
      PROVE  ShardCaching!TypeOK'
  <2>1. /\ counter < MaxStamp /\ counter' = counter + 1 /\ UNCHANGED <<entries, served>>
        /\ lookup' = [lookup EXCEPT ![t] = [method |-> method, key |-> k, ts |-> counter + 1]]
    BY <1>4 DEF ShardCaching!Stamp
  <2>2. [method |-> method, key |-> k, ts |-> counter + 1] \in CallRecords
    BY <1>2, <2>1
  <2> HIDE DEF CallRecords
  <2>3. lookup' \in [CacheThreads -> CallRecords]
    BY <1>2, <2>1, <2>2
  <2>4. counter' \in 0..MaxStamp
    BY <1>2, <2>1
  <2> QED
    BY <1>2, <2>1, <2>3, <2>4 DEF ShardCaching!TypeOK, CallRecords
<1>5. ASSUME NEW t \in CacheThreads, ShardCaching!Get(t) \/ ShardCaching!Insert(t)
      PROVE  ShardCaching!TypeOK'
  <2>1. lookup[t].key \in ShardKeys /\ lookup[t].ts \in 0..MaxStamp
    BY <1>2
  <2>2. lookup' = [lookup EXCEPT ![t] = ShardCaching!NoCall] /\ UNCHANGED counter
    BY <1>5 DEF ShardCaching!Get, ShardCaching!Insert
  <2>3. served' \in ShardKeys \cup {ShardCaching!NoKey}
    BY <1>2, <1>5, <2>1 DEF ShardCaching!Get, ShardCaching!Insert
  <2>4. entries' \in [ShardKeys -> 0..MaxStamp]
    <3>1. \/ entries' = entries
          \/ entries' = [entries EXCEPT ![lookup[t].key] = lookup[t].ts]
          \/ entries' = [[entries EXCEPT ![ShardCaching!Oldest] = 0]
                            EXCEPT ![lookup[t].key] = lookup[t].ts]
      BY <1>5 DEF ShardCaching!Get, ShardCaching!Insert
    <3>2. \A k : [entries EXCEPT ![k] = 0] \in [ShardKeys -> 0..MaxStamp]
      <4>1. 0 \in 0..MaxStamp /\ entries \in [ShardKeys -> 0..MaxStamp]
        BY <1>2
      <4> QED
        BY <4>1
    <3> QED
      BY <1>2, <2>1, <3>1, <3>2
  <2> HIDE DEF CallRecords
  <2>5. lookup' \in [CacheThreads -> CallRecords]
    BY <1>2, <1>3, <2>2
  <2> QED
    BY <1>2, <2>2, <2>3, <2>4, <2>5 DEF ShardCaching!TypeOK, CallRecords
<1>6. CASE ShardCaching!Clear
  BY <1>2, <1>6 DEF ShardCaching!Clear, ShardCaching!TypeOK
<1> QED
  BY <1>1, <1>4, <1>5, <1>6 DEF ShardCaching!Next

LEMMA VaultTypesBegin == Vault!Init => Vault!TypeOK
<1> SUFFICES ASSUME Vault!Init PROVE Vault!TypeOK
  OBVIOUS
<1>1. (CHOOSE d \in Devices : TRUE) \in Devices
  BY DeviceVaultAssumption
<1> QED
  BY <1>1 DEF Vault!Init, Vault!Resting, Vault!TypeOK

LEMMA VaultTypesNext == Vault!TypeOK /\ [Vault!Next]_vaultVars => Vault!TypeOK'
<1> SUFFICES ASSUME Vault!TypeOK, [Vault!Next]_vaultVars PROVE Vault!TypeOK'
  OBVIOUS
<1> DEFINE Enrollments ==
      [step : {"idle", "empty", "write"}, device : Devices, vault : SUBSET Devices]
<1>1. CASE UNCHANGED vaultVars
  BY <1>1 DEF vaultVars, Vault!TypeOK
<1>2. /\ vaultFile \in (SUBSET Devices) \cup {Torn} /\ registered \subseteq Devices
      /\ safe \subseteq Devices /\ enrolling \in [Registrars -> Enrollments]
  BY DEF Vault!TypeOK
<1>3. Vault!Resting \in Enrollments
  <2>1. (CHOOSE d \in Devices : TRUE) \in Devices
    BY DeviceVaultAssumption
  <2> QED
    BY <2>1 DEF Vault!Resting
<1>4. ASSUME NEW t \in Registrars, NEW d \in Devices, Vault!Load(t, d) PROVE Vault!TypeOK'
  <2>1. PICK old : /\ old = IF vaultFile = Torn THEN {} ELSE vaultFile
                   /\ enrolling' = [enrolling EXCEPT ![t] =
                                       [step |-> "empty", device |-> d, vault |-> old \cup {d}]]
                   /\ UNCHANGED <<vaultFile, registered, safe>>
    BY <1>4 DEF Vault!Load
  <2>2. [step |-> "empty", device |-> d, vault |-> old \cup {d}] \in Enrollments
    BY <1>2, <2>1
  <2> QED
    BY <1>2, <2>1, <2>2 DEF Vault!TypeOK
<1>5. ASSUME NEW t \in Registrars, NEW d \in Devices, Vault!FailToLoad(t, d) PROVE Vault!TypeOK'
  <2>1. /\ enrolling' = [enrolling EXCEPT ![t] = [step |-> "empty", device |-> d, vault |-> {d}]]
        /\ safe' = {} /\ UNCHANGED <<vaultFile, registered>>
    BY <1>5 DEF Vault!FailToLoad
  <2>2. [step |-> "empty", device |-> d, vault |-> {d}] \in Enrollments
    OBVIOUS
  <2> QED
    BY <1>2, <2>1, <2>2 DEF Vault!TypeOK
<1>6. ASSUME NEW t \in Registrars, Vault!Empty(t) PROVE Vault!TypeOK'
  <2>1. /\ enrolling' = [enrolling EXCEPT ![t] = [enrolling[t] EXCEPT !.step = "write"]]
        /\ vaultFile' = Torn /\ UNCHANGED <<registered, safe>>
    BY <1>6 DEF Vault!Empty
  <2>2. [enrolling[t] EXCEPT !.step = "write"] \in Enrollments
    BY <1>2
  <2> QED
    BY <1>2, <2>1, <2>2 DEF Vault!TypeOK
<1>7. ASSUME NEW t \in Registrars, Vault!Write(t) PROVE Vault!TypeOK'
  <2>1. /\ vaultFile' = enrolling[t].vault /\ registered' = registered \cup {enrolling[t].device}
        /\ enrolling' = [enrolling EXCEPT ![t] = Vault!Resting]
        /\ safe' = safe \cup {enrolling[t].device}
    BY <1>7 DEF Vault!Write
  <2>2. enrolling[t].vault \subseteq Devices /\ enrolling[t].device \in Devices
    BY <1>2
  <2> QED
    BY <1>2, <1>3, <2>1, <2>2 DEF Vault!TypeOK
<1>8. ASSUME NEW t \in Registrars, Vault!FailToWrite(t) PROVE Vault!TypeOK'
  <2>1. /\ enrolling' = [enrolling EXCEPT ![t] = Vault!Resting]
        /\ safe' \subseteq safe /\ UNCHANGED <<vaultFile, registered>>
    BY <1>8 DEF Vault!FailToWrite
  <2> QED
    BY <1>2, <1>3, <2>1 DEF Vault!TypeOK
<1>9. CASE Vault!Crash
  <2>1. /\ enrolling' = [t \in Registrars |-> Vault!Resting] /\ UNCHANGED <<vaultFile, registered>>
        /\ safe' \subseteq safe
    BY <1>9 DEF Vault!Crash
  <2> QED
    BY <1>2, <1>3, <2>1 DEF Vault!TypeOK
<1> QED
  BY <1>1, <1>4, <1>5, <1>6, <1>7, <1>8, <1>9 DEF Vault!Next

Rated == [id : Engine!Ids, score : 0..100, snippet : Engine!Texts \cup {"none"}]

Searches == [step : Engine!Resting \cup {"fuzzy", "bodies", "rank"}, results : Seq(Rated)]

Witnesses ==
    [late : SUBSET Engine!Ids, captions : SUBSET Engine!Ids, deleted : SUBSET Engine!Ids,
     matched : SUBSET Engine!Ids, cut : BOOLEAN]

SearchTypes ==
    /\ content \in [Engine!Ids -> Engine!Texts \cup {"none"}]
    /\ indexed \in [Engine!Ids -> SUBSET Engine!Texts]
    /\ grams \subseteq Engine!Ids /\ deleted \subseteq Engine!Ids
    /\ slow \in [calls : SUBSET (Engine!Writes \X Engine!Ids), count : 0..MaxSlow]
    /\ engine \in Searches
    /\ changes \in 0..MaxChanges
    /\ witness \in Witnesses

LEMMA SearchTypesBegin == Engine!Init => SearchTypes
<1> SUFFICES ASSUME Engine!Init PROVE SearchTypes
  OBVIOUS
<1>1. <<>> \in Seq(Rated)
  OBVIOUS
<1>2. 0 \in 0..MaxChanges /\ 0 \in 0..MaxSlow
  BY SearchAssumption
<1>3. engine \in Searches
  BY <1>1 DEF Engine!Init, Searches, Engine!Resting
<1> QED
  BY <1>2, <1>3 DEF Engine!Init, SearchTypes, Witnesses

LEMMA SearchTypesHold == SearchTypes => Engine!TypeOK
<1> SUFFICES ASSUME SearchTypes PROVE Engine!TypeOK
  OBVIOUS
<1>1. engine.results \in Seq(Rated) /\ engine.step \in Engine!Resting \cup {"fuzzy", "bodies", "rank"}
  BY DEF SearchTypes, Searches
<1>2. \A i \in DOMAIN engine.results : engine.results[i] \in Rated
  BY <1>1, LenProperties
<1>3. /\ witness.late \subseteq Engine!Ids /\ witness.captions \subseteq Engine!Ids
      /\ witness.deleted \subseteq Engine!Ids /\ witness.matched \subseteq Engine!Ids
      /\ witness.cut \in BOOLEAN
  BY DEF SearchTypes, Witnesses
<1>4. slow.calls \subseteq Engine!Writes \X Engine!Ids /\ slow.count \in 0..MaxSlow
  BY DEF SearchTypes
<1> QED
  BY <1>1, <1>2, <1>3, <1>4 DEF SearchTypes, Engine!TypeOK, Rated

LEMMA TypesWhenChanged ==
  ASSUME SearchTypes, NEW w, NEW m \in Engine!Ids, NEW t, Engine!Changed(w, m, t),
         slow' = slow \/ slow' = [slow EXCEPT !.calls = {}],
         \/ w \in {"ingest", "edit"} /\ t \in Engine!Texts /\ Engine!Becomes(w, m, t)
         \/ w = "delete" /\ Engine!Becomes(w, m, t)
         \/ Engine!SendMedia(m, t) /\ t \in Engine!Texts
  PROVE  SearchTypes'
<1>1. /\ UNCHANGED engine
      /\ engine.step \notin Engine!Resting => changes < MaxChanges
      /\ changes' = IF engine.step \in Engine!Resting THEN 0 ELSE changes + 1
  BY DEF Engine!Changed
<1>2. witness' \in Witnesses
  <2> DEFINE late == IF w = "edit" /\ m \in deleted THEN witness.late \cup {m}
                     ELSE IF w = "edit" THEN witness.late ELSE witness.late \ {m}
             captions == IF w = "caption" THEN witness.captions \cup {m}
                         ELSE IF w = "delete" THEN witness.captions ELSE witness.captions \ {m}
             dead == IF w = "delete" THEN witness.deleted ELSE witness.deleted \ {m}
             matched == IF w # "delete" /\ t \in Engine!Exact THEN witness.matched
                        ELSE witness.matched \ {m}
  <2>1. witness' = [witness EXCEPT !.late = late, !.captions = captions, !.deleted = dead,
                                   !.matched = matched]
    BY DEF Engine!Changed
  <2>2. /\ late \subseteq Engine!Ids /\ captions \subseteq Engine!Ids
        /\ dead \subseteq Engine!Ids /\ matched \subseteq Engine!Ids
    BY DEF SearchTypes, Witnesses
  <2>3. witness \in Witnesses
    BY DEF SearchTypes
  <2> HIDE DEF late, captions, dead, matched
  <2> QED
    BY <2>1, <2>2, <2>3 DEF Witnesses
<1>3. changes' \in 0..MaxChanges
  BY <1>1, SearchAssumption DEF SearchTypes
<1>4. slow' \in [calls : SUBSET (Engine!Writes \X Engine!Ids), count : 0..MaxSlow]
  BY DEF SearchTypes
<1>5. /\ content' \in [Engine!Ids -> Engine!Texts \cup {"none"}]
      /\ indexed' \in [Engine!Ids -> SUBSET Engine!Texts]
      /\ grams' \subseteq Engine!Ids /\ deleted' \subseteq Engine!Ids
  <2>1. CASE w = "ingest" /\ t \in Engine!Texts /\ Engine!Becomes(w, m, t)
    <3>1. /\ content' = [content EXCEPT ![m] = t]
          /\ indexed' = [indexed EXCEPT ![m] = indexed[m] \cup {t}]
          /\ grams' \in {grams, grams \cup {m}} /\ deleted' = deleted \ {m}
      BY <2>1 DEF Engine!Becomes
    <3> QED
      BY <2>1, <3>1 DEF SearchTypes
  <2>2. CASE w = "edit" /\ t \in Engine!Texts /\ Engine!Becomes(w, m, t)
    <3>1. /\ content' = [content EXCEPT ![m] = IF content[m] = "none" THEN "none" ELSE t]
          /\ indexed' = [indexed EXCEPT ![m] = {t}]
          /\ grams' \in {grams \ {m}, grams \cup {m}} /\ deleted' = deleted
      BY <2>2 DEF Engine!Becomes
    <3> QED
      BY <2>2, <3>1 DEF SearchTypes
  <2>3. CASE w = "delete" /\ Engine!Becomes(w, m, t)
    <3>1. /\ content' = [content EXCEPT ![m] = IF t = "none" THEN "none" ELSE content[m]]
          /\ indexed' = [indexed EXCEPT ![m] = {}]
          /\ grams' = grams \ {m} /\ deleted' = deleted \cup {m}
      BY <2>3 DEF Engine!Becomes
    <3> QED
      BY <3>1 DEF SearchTypes
  <2>4. CASE Engine!SendMedia(m, t) /\ t \in Engine!Texts
    BY <2>4 DEF Engine!SendMedia, SearchTypes
  <2> QED
    BY <2>1, <2>2, <2>3, <2>4
<1> QED
  BY <1>1, <1>2, <1>3, <1>4, <1>5 DEF SearchTypes

(* What is made of the hits of a list of rows, of whatever length.           *)
LEMMA RowsAreRated ==
  ASSUME NEW n \in Nat, NEW ids \in [1..n -> Engine!Ids], NEW hits,
         hits = [i \in 1..n |-> hits[i]],
         \A i \in 1..n : \E score \in 0..100 : hits[i] = Engine!Hit(ids[i], score)
  PROVE  Engine!UpTo(Limit, hits) \in Seq(Rated)
<1>1. \A i \in 1..n : hits[i] \in Rated
  <2> SUFFICES ASSUME NEW i \in 1..n PROVE hits[i] \in Rated
    OBVIOUS
  <2>1. PICK score \in 0..100 : hits[i] = [id |-> ids[i], score |-> score, snippet |-> "none"]
    BY DEF Engine!Hit
  <2>2. ids[i] \in Engine!Ids
    OBVIOUS
  <2> QED
    BY <2>1, <2>2 DEF Rated
<1>2. hits \in [1..n -> Rated]
  BY <1>1
<1>3. hits \in Seq(Rated)
  BY <1>2
<1> QED
  BY <1>3, ListIsCut, SearchAssumption

LEMMA TypesWhenSearched ==
  ASSUME SearchTypes, Engine!TextSearch \/ Engine!FuzzySearch
  PROVE  SearchTypes'
<1>1. CASE Engine!TextSearch
  <2> DEFINE n == Cardinality(Engine!FtsMatches)
  <2>1. PICK rows \in Engine!FtsRows :
           engine' = [step |-> "fuzzy", results |-> Engine!UpTo(Limit, Engine!TextHits(rows))]
    BY <1>1 DEF Engine!TextSearch
  <2>2. rows \in [1..n -> Engine!FtsMatches] /\ n \in Nat
    BY <2>1, CountsInSearch, MatchesAreFew DEF Engine!FtsRows, Engine!Sorted
  <2> HIDE DEF n
  <2>3. PICK hits : hits = Engine!TextHits(rows)
    OBVIOUS
  <2>4. hits = [i \in 1..n |-> Engine!Hit(rows[i][1], Engine!FtsScore(rows[i][2]))]
    BY <2>2, <2>3 DEF Engine!TextHits
  <2>5. PICK ids : ids = [i \in 1..n |-> rows[i][1]]
    OBVIOUS
  <2>6. ids \in [1..n -> Engine!Ids]
    BY <2>2, <2>5, MatchesAreFew
  <2>7. hits = [i \in 1..n |-> hits[i]]
    BY <2>4
  <2>8. \A i \in 1..n : Engine!FtsScore(rows[i][2]) \in 0..100
    BY DEF Engine!FtsScore
  <2>9. \A i \in 1..n : \E score \in 0..100 : hits[i] = Engine!Hit(ids[i], score)
    BY <2>4, <2>5, <2>8
  <2>10. Engine!UpTo(Limit, hits) \in Seq(Rated)
    BY <2>2, <2>6, <2>7, <2>9, RowsAreRated
  <2>11. engine' \in Searches
    BY <2>1, <2>3, <2>10 DEF Searches
  <2>12. changes' \in 0..MaxChanges /\ UNCHANGED <<content, indexed, grams, deleted, slow>>
    BY <1>1, SearchAssumption DEF Engine!TextSearch
  <2>13. witness' \in Witnesses
    <3> DEFINE matched == {m \in (InScope \cap Wanted) \ (deleted \cup witness.captions) :
                              content[m] \in Engine!Exact}
               cut == Limit < Engine!Cardinality(Engine!FtsMatches)
    <3>1. witness' = [witness EXCEPT !.deleted = deleted \ witness.late, !.matched = matched,
                                     !.cut = cut]
      BY <1>1 DEF Engine!TextSearch
    <3>2. matched \subseteq Engine!Ids /\ deleted \ witness.late \subseteq Engine!Ids
      BY SearchAssumption DEF SearchTypes, Engine!Ids
    <3>3. witness \in Witnesses /\ cut \in BOOLEAN
      BY DEF SearchTypes
    <3> HIDE DEF matched, cut
    <3> QED
      BY <3>1, <3>2, <3>3 DEF Witnesses
  <2> QED
    BY <2>11, <2>12, <2>13 DEF SearchTypes
<1>2. CASE Engine!FuzzySearch
  <2> DEFINE S == {m \in grams \ deleted : content[m] # "none"}
             n == Cardinality(S)
  <2>1. UNCHANGED <<content, indexed, grams, deleted, slow, changes, witness>>
    BY <1>2 DEF Engine!FuzzySearch
  <2>2. engine.results \in Seq(Rated)
    BY DEF SearchTypes, Searches
  <2>3. CASE engine' = [step |-> "bodies", results |-> engine.results]
    <3>1. engine' \in Searches
      BY <2>2, <2>3 DEF Searches
    <3> QED
      BY <2>1, <3>1 DEF SearchTypes
  <2>4. ASSUME NEW rows \in Engine!FuzzyRows,
               engine' = [step |-> "bodies",
                          results |-> engine.results \o Engine!UpTo(Limit, Engine!FuzzyHits(rows))]
        PROVE  SearchTypes'
    <3>1. S \in SUBSET Engine!Ids /\ \A m \in S : content[m] \in {"once", "twice", "near"}
      BY DEF SearchTypes, Engine!Texts
    <3>2. rows \in [1..n -> S] /\ n \in Nat
      BY <2>4, <3>1, CountsInSearch, MessagesAreFew DEF Engine!FuzzyRows, Engine!Sorted
    <3> HIDE DEF S, n
    <3>3. PICK hits : hits = Engine!FuzzyHits(rows)
      OBVIOUS
    <3>4. hits = [i \in 1..n |-> Engine!Hit(rows[i], Engine!Similarity(content[rows[i]]))]
      BY <3>2, <3>3 DEF Engine!FuzzyHits
    <3>5. \A i \in 1..n : content[rows[i]] \in {"once", "twice", "near"}
      BY <3>1, <3>2
    <3>6. \A t \in {"once", "twice", "near"} : Engine!Similarity(t) \in 0..100
      BY DEF Engine!Similarity
    <3>7. /\ hits = [i \in 1..n |-> hits[i]] /\ rows \in [1..n -> Engine!Ids]
          /\ \A i \in 1..n : \E score \in 0..100 : hits[i] = Engine!Hit(rows[i], score)
      BY <3>1, <3>2, <3>4, <3>5, <3>6
    <3>8. Engine!UpTo(Limit, hits) \in Seq(Rated)
      BY <3>2, <3>7, RowsAreRated
    <3>9. engine.results \o Engine!UpTo(Limit, hits) \in Seq(Rated)
      BY <2>2, <3>8, ConcatProperties
    <3>10. engine' \in Searches
      BY <2>4, <3>3, <3>9 DEF Searches
    <3> QED
      BY <2>1, <3>10 DEF SearchTypes
  <2> QED
    BY <1>2, <2>3, <2>4 DEF Engine!FuzzySearch
<1> QED
  BY <1>1, <1>2

LEMMA TypesWhenShown ==
  ASSUME SearchTypes, Engine!FetchBodies \/ Engine!Rank
  PROVE  SearchTypes'
<1>1. PICK r : r = engine.results
  OBVIOUS
<1>2. /\ r \in Seq(Rated) /\ Len(r) \in Nat /\ DOMAIN r = 1..Len(r)
      /\ \A i \in DOMAIN r : r[i] \in Rated
  BY <1>1, LenProperties DEF SearchTypes, Searches
<1>3. UNCHANGED <<content, indexed, grams, deleted, slow, changes>>
  BY DEF Engine!FetchBodies, Engine!Rank
<1>4. CASE Engine!FetchBodies
  <2>1. PICK now : /\ now = [i \in DOMAIN r |-> [r[i] EXCEPT !.snippet = content[r[i].id]]]
                   /\ engine' = [step |-> "rank", results |-> now]
    BY <1>1, <1>4 DEF Engine!FetchBodies
  <2>2. ASSUME NEW i \in 1..Len(r) PROVE now[i] \in Rated
    <3>1. r[i] \in Rated /\ now[i] = [r[i] EXCEPT !.snippet = content[r[i].id]]
      BY <1>2, <2>1
    <3>2. content[r[i].id] \in Engine!Texts \cup {"none"}
      BY <3>1 DEF Rated, SearchTypes
    <3> QED
      BY <3>1, <3>2 DEF Rated
  <2>3. now \in [1..Len(r) -> Rated]
    BY <1>2, <2>1, <2>2
  <2>4. now \in Seq(Rated)
    BY <1>2, <2>3
  <2>5. engine' \in Searches
    <3>1. engine' = [step |-> "rank", results |-> now]
      BY <2>1
    <3> QED
      BY <2>4, <3>1 DEF Searches
  <2>6. witness' = witness
    BY <1>4 DEF Engine!FetchBodies
  <2> QED
    BY <1>3, <2>5, <2>6 DEF SearchTypes
<1>5. CASE Engine!Rank
  <2>1. PICK first : first = {i \in DOMAIN r :
                                r[i].id \in Wanted /\ \A j \in 1..(i - 1) : r[j].id # r[i].id}
    OBVIOUS
  <2>2. PICK ranked \in Engine!Ranked(r, first) :
           engine' = [step |-> "done", results |-> Engine!UpTo(Limit, ranked)]
    BY <1>1, <1>5, <2>1 DEF Engine!Rank
  <2>3. PICK order \in [1..Cardinality(first) -> first] :
           ranked = [k \in DOMAIN order |-> r[order[k]]]
    BY <2>2, CountsInSearch DEF Engine!Ranked, Engine!Sorted
  <2>4. Cardinality(first) \in Nat
    <3>1. IsFiniteSet(1..Len(r)) /\ first \subseteq 1..Len(r)
      BY <1>2, <2>1, FS_Interval
    <3> QED
      BY <3>1, FS_Subset, FS_CardinalityType
  <2>5. ranked \in [1..Cardinality(first) -> Rated]
    BY <1>2, <2>1, <2>3
  <2>6. ranked \in Seq(Rated)
    BY <2>4, <2>5
  <2>7. Engine!UpTo(Limit, ranked) \in Seq(Rated)
    BY <2>6, ListIsCut, SearchAssumption
  <2>8. engine' \in Searches
    BY <2>2, <2>7 DEF Searches, Engine!Resting
  <2>9. witness' \in Witnesses
    <3>1. PICK cut \in BOOLEAN : witness' = [witness EXCEPT !.cut = cut]
      <4>1. witness' = [witness EXCEPT !.cut = witness.cut \/ Limit < Engine!Cardinality(first)]
        BY <1>1, <1>5, <2>1 DEF Engine!Rank
      <4>2. (witness.cut \/ Limit < Engine!Cardinality(first)) \in BOOLEAN
        OBVIOUS
      <4> QED
        BY <4>1, <4>2
    <3> QED
      BY <3>1 DEF SearchTypes, Witnesses
  <2> QED
    BY <1>3, <2>8, <2>9 DEF SearchTypes
<1> QED
  BY <1>4, <1>5

LEMMA TypesWhenGivenUp ==
  ASSUME SearchTypes, Engine!PanicOnSnippet \/ Engine!FailToRead
  PROVE  SearchTypes'
<1>1. PICK end \in {"idle", "panicked"} : engine' = [step |-> end, results |-> <<>>]
  BY DEF Engine!PanicOnSnippet, Engine!FailToRead
<1>2. UNCHANGED <<content, indexed, grams, deleted, slow, changes, witness>>
  BY DEF Engine!PanicOnSnippet, Engine!FailToRead
<1>3. <<>> \in Seq(Rated)
  OBVIOUS
<1>4. engine' \in Searches
  BY <1>1, <1>3 DEF Searches, Engine!Resting
<1> QED
  BY <1>2, <1>4 DEF SearchTypes

LEMMA SearchTypesNext == SearchTypes /\ [Engine!Next]_searchVars => SearchTypes'
<1> SUFFICES ASSUME SearchTypes, [Engine!Next]_searchVars PROVE SearchTypes'
  OBVIOUS
<1>1. CASE UNCHANGED searchVars
  BY <1>1 DEF searchVars, SearchTypes
<1>2. ASSUME NEW m \in Engine!Ids, NEW w \in Engine!Writes, Engine!Check(w, m) PROVE SearchTypes'
  <2>1. slow' = [calls |-> {<<w, m>>}, count |-> slow.count + 1] /\ slow.count < MaxSlow
        /\ UNCHANGED <<content, indexed, grams, deleted, engine, changes, witness>>
    BY <1>2 DEF Engine!Check
  <2>2. slow.count + 1 \in 0..MaxSlow
    BY <2>1, SearchAssumption DEF SearchTypes
  <2>3. slow' \in [calls : SUBSET (Engine!Writes \X Engine!Ids), count : 0..MaxSlow]
    BY <2>1, <2>2
  <2> QED
    BY <2>1, <2>3 DEF SearchTypes
<1>3. ASSUME NEW m \in Engine!Ids, NEW t \in Engine!Texts, Engine!SendMedia(m, t) PROVE SearchTypes'
  BY <1>3, TypesWhenChanged DEF Engine!SendMedia
<1>4. ASSUME NEW m \in Engine!Ids, NEW t \in Engine!Texts, NEW w \in {"ingest", "edit"},
             Engine!Write(w, m, t) \/ Engine!WriteLate(w, m, t)
      PROVE  SearchTypes'
  BY <1>4, TypesWhenChanged DEF Engine!Write, Engine!WriteLate
<1>5. ASSUME NEW m \in Engine!Ids, NEW t \in {"none", "kept"},
             Engine!Write("delete", m, t) \/ Engine!WriteLate("delete", m, t)
      PROVE  SearchTypes'
  BY <1>5, TypesWhenChanged DEF Engine!Write, Engine!WriteLate
<1> QED
  BY <1>1, <1>2, <1>3, <1>4, <1>5, TypesWhenSearched, TypesWhenShown, TypesWhenGivenUp
  DEF Engine!Next

Pagers ==
    [step : {"idle", "paging", "done"}, spelling : Pages!Spellings,
     before : Times \cup {Pages!Max(Times) + 1}, shown : Seq(TimelineIds)]

PagesTypes ==
    /\ seeded \subseteq Pages!Spellings
    /\ createdAt \in [TimelineIds -> Times \cup {0}]
    /\ tombstones \subseteq TimelineIds
    /\ newest \in TimelineIds \cup {Pages!NoMessage}
    /\ pager \in Pagers
    /\ there \subseteq TimelineIds
    /\ IsFiniteSet(Arrived)

LEMMA PagesTypesHold == PagesTypes => Pages!TypeOK
<1> SUFFICES ASSUME PagesTypes PROVE Pages!TypeOK
  OBVIOUS
<1>1. pager \in Pagers
  BY DEF PagesTypes
<1>2. \A i \in DOMAIN pager.shown : pager.shown[i] \in TimelineIds
  BY <1>1, LenProperties DEF Pagers
<1>3. Pages!Range(pager.shown) \subseteq TimelineIds
  BY <1>2 DEF Pages!Range
<1> QED
  BY <1>1, <1>3 DEF PagesTypes, Pages!TypeOK, Pagers

LEMMA UnreadIsPager ==
  /\ Pages!Unread \in Pagers
  /\ \A s \in Pages!Spellings : [Pages!Unread EXCEPT !.step = "paging", !.spelling = s] \in Pagers
<1> DEFINE end == Pages!Max(Times) + 1
<1>1. <<>> \in Seq(TimelineIds) /\ end \in Times \cup {Pages!Max(Times) + 1}
  OBVIOUS
<1>2. Pages!Canonical \in Pages!Spellings
  BY DEF Pages!Canonical, Pages!Spellings
<1>3. Pages!Unread = [step |-> "idle", spelling |-> Pages!Canonical, before |-> end, shown |-> <<>>]
  BY DEF Pages!Unread
<1> HIDE DEF end
<1>4. Pages!Unread \in Pagers
  BY <1>1, <1>2, <1>3 DEF Pagers
<1>5. ASSUME NEW s \in Pages!Spellings, NEW p \in Pagers
      PROVE  [p EXCEPT !.step = "paging", !.spelling = s] \in Pagers
  BY <1>5 DEF Pagers
<1> QED
  BY <1>4, <1>5

LEMMA PagesTypesBegin == Pages!Init => PagesTypes
<1> SUFFICES ASSUME Pages!Init PROVE PagesTypes
  OBVIOUS
<1>1. /\ createdAt = [m \in TimelineIds |-> 0] /\ seeded = {} /\ there = {} /\ tombstones = {}
      /\ pager = Pages!Unread /\ newest = Pages!NoMessage
  BY DEF Pages!Init
<1>2. Arrived = {}
  BY <1>1 DEF Arrived
<1>3. IsFiniteSet(Arrived)
  BY <1>2, FS_EmptySet
<1> QED
  BY <1>1, <1>3, UnreadIsPager DEF PagesTypes

LEMMA TypesOfPage == ASSUME PagesTypes, Pages!FetchPage PROVE PagesTypes'
<1> DEFINE earlier == {m \in Pages!RowsOf(pager.spelling) : createdAt[m] < pager.before}
<1>1. UNCHANGED <<seeded, createdAt, tombstones, newest, there>>
  BY DEF Pages!FetchPage
<1>2. PICK page \in SUBSET earlier :
          pager' = IF page = {} THEN [pager EXCEPT !.step = "done"]
                   ELSE [pager EXCEPT !.before = Pages!Min({createdAt[m] : m \in page}),
                                      !.shown = pager.shown \o Pages!SetToSeq(page)]
  BY DEF Pages!FetchPage
<1>3. page \subseteq Arrived
  <2>1. Pages!RowsOf(pager.spelling) \subseteq Arrived
    BY DEF Pages!RowsOf, Pages!Live, Arrived
  <2> QED
    BY <2>1
<1>4. IsFiniteSet(page) /\ page \subseteq TimelineIds
  BY <1>3, FS_Subset DEF PagesTypes, Arrived
<1> HIDE DEF earlier
<1>5. pager' \in Pagers
  <2>1. CASE page = {}
    BY <1>2, <2>1 DEF PagesTypes, Pagers
  <2>2. CASE page # {}
    <3> DEFINE ages == {createdAt[m] : m \in page}
    <3>1. ages \subseteq Times
      BY <1>3, TimelineAssumption DEF PagesTypes, Arrived
    <3>2. ages \in SUBSET Nat /\ ages # {}
      BY <2>2, <3>1, TimelineAssumption
    <3>3. Pages!Min(ages) \in ages
      BY <3>2, LeastTime
    <3>4. Pages!SetToSeq(page) \in Seq(TimelineIds)
      BY <1>4, PageIsList
    <3>5. pager.shown \o Pages!SetToSeq(page) \in Seq(TimelineIds)
      BY <3>4, ConcatProperties DEF PagesTypes, Pagers
    <3>6. pager' = [pager EXCEPT !.before = Pages!Min(ages),
                                 !.shown = pager.shown \o Pages!SetToSeq(page)]
      BY <1>2, <2>2
    <3>7. Pages!Min(ages) \in Times
      BY <3>1, <3>3
    <3> HIDE DEF ages
    <3> QED
      BY <3>5, <3>6, <3>7 DEF PagesTypes, Pagers
  <2> QED
    BY <2>1, <2>2
<1>6. Arrived' = Arrived
  BY <1>1 DEF Arrived
<1> QED
  BY <1>1, <1>5, <1>6 DEF PagesTypes

LEMMA PagesTypesNext == PagesTypes /\ [Pages!Next]_timelineVars => PagesTypes'
<1> SUFFICES ASSUME PagesTypes, [Pages!Next]_timelineVars PROVE PagesTypes'
  OBVIOUS
<1>1. CASE UNCHANGED timelineVars
  BY <1>1 DEF timelineVars, PagesTypes, Arrived
<1>2. ASSUME NEW s \in Pages!Spellings, Pages!Seed(s) PROVE PagesTypes'
  <2>1. /\ seeded' = seeded \cup {Pages!Key(s)} /\ newest' \in {newest, Pages!NoMessage}
        /\ UNCHANGED <<createdAt, tombstones, pager, there>>
    BY <1>2 DEF Pages!Seed
  <2>2. Pages!Key(s) \in Pages!Spellings
    BY DEF Pages!Key, Pages!Canonical, Pages!Spellings
  <2> QED
    BY <2>1, <2>2 DEF PagesTypes, Arrived
<1>3. ASSUME NEW s \in Pages!Spellings, Pages!Open(s) PROVE PagesTypes'
  <2>1. /\ pager' = [Pages!Unread EXCEPT !.step = "paging", !.spelling = s]
        /\ there' = Pages!Live /\ UNCHANGED <<seeded, createdAt, tombstones, newest>>
    BY <1>3 DEF Pages!Open
  <2>2. pager' \in Pagers
    BY <2>1, UnreadIsPager
  <2>3. Pages!Live \subseteq TimelineIds
    BY DEF Pages!Live
  <2> QED
    BY <2>1, <2>2, <2>3 DEF PagesTypes, Arrived
<1>4. ASSUME NEW m \in TimelineIds, Pages!Delete(m) PROVE PagesTypes'
  BY <1>4 DEF Pages!Delete, PagesTypes, Arrived
<1>5. ASSUME NEW m \in TimelineIds, NEW t \in Times, Pages!Arrive(m, t) PROVE PagesTypes'
  <2>1. /\ createdAt' = [createdAt EXCEPT ![m] = t] /\ newest' = m
        /\ UNCHANGED <<seeded, tombstones, pager, there>>
    BY <1>5 DEF Pages!Arrive
  <2>2. Arrived' \subseteq Arrived \cup {m}
    BY <2>1 DEF Arrived, PagesTypes
  <2>3. IsFiniteSet(Arrived \cup {m})
    BY FS_AddElement DEF PagesTypes
  <2>4. IsFiniteSet(Arrived')
    BY <2>2, <2>3, FS_Subset
  <2> QED
    BY <2>1, <2>4 DEF PagesTypes
<1>6. CASE Pages!Clear
  <2>1. /\ seeded' = {} /\ createdAt' = [m \in TimelineIds |-> 0] /\ tombstones' = {}
        /\ newest' = Pages!NoMessage /\ there' = {} /\ UNCHANGED pager
    BY <1>6 DEF Pages!Clear
  <2>2. Arrived' = {}
    BY <2>1 DEF Arrived
  <2>3. IsFiniteSet(Arrived')
    BY <2>2, FS_EmptySet
  <2> QED
    BY <2>1, <2>3 DEF PagesTypes
<1> QED
  BY <1>1, <1>2, <1>3, <1>4, <1>5, <1>6, TypesOfPage DEF Pages!Next

(* One manifest more, or the same twice.                                     *)
IsPosted(m) ==
    /\ IsManifest(m) /\ m.process \in 1..MaxProcesses /\ m.generation \in 0..MaxManifests
    /\ m.body \in {"sound", "damaged"}

CoordinatorTypes ==
    /\ IsCoordinator(coordinator)
    /\ coordinator.process \in 1..MaxProcesses /\ coordinator.generation \in 0..MaxManifests
    /\ coordinator.generation =< Len(kept)

ListsTypes ==
    /\ \E S : kept \in Seq(S)
    /\ Len(kept) =< 1 + MaxManifests
    /\ \A i \in 1..Len(kept) : IsPosted(kept[i])
    /\ CoordinatorTypes
    /\ \A i \in DOMAIN fetched : IsPosted(fetched[i])

LEMMA ListsTypesBegin == Lists!Init => ListsTypes
<1> SUFFICES ASSUME coordinator = Lists!New(1), kept = <<>>, fetched = <<>> PROVE ListsTypes
  BY DEF Lists!Init
<1>1. kept \in Seq({}) /\ Len(kept) = 0 /\ DOMAIN fetched = {}
  OBVIOUS
<1>2. CoordinatorTypes
  BY <1>1, ManifestsAssumption DEF CoordinatorTypes, IsCoordinator, Lists!New
<1> QED
  BY <1>1, <1>2, ManifestsAssumption DEF ListsTypes

LEMMA ListsTypesHold == ListsTypes => Lists!TypeOK
<1> SUFFICES ASSUME ListsTypes PROVE Lists!TypeOK
  OBVIOUS
<1>1. DOMAIN kept = 1..Len(kept)
  BY LenProperties DEF ListsTypes
<1> QED
  BY <1>1 DEF ListsTypes, IsPosted, CoordinatorTypes, Lists!TypeOK

LEMMA TypesWhenPublished == ASSUME ListsTypes, Lists!Publish PROVE ListsTypes'
<1> DEFINE next == Lists!Prepared
<1>1. PICK S : kept \in Seq(S)
  BY DEF ListsTypes
<1>2. /\ \E T : kept' \in Seq(T)
      /\ Len(kept) \in Nat /\ Len(kept) < MaxManifests
      /\ Len(kept') \in {Len(kept) + 1, Len(kept) + 2}
      /\ \A i \in 1..Len(kept') :
            kept'[i] = IF i =< Len(kept) THEN kept[i] ELSE next
      /\ fetched' = <<>>
      /\ coordinator' \in {coordinator, Lists!Finalized(next)}
  BY <1>1, WhenPublished
<1>3. IsPosted(next) /\ next.generation = coordinator.generation
  BY DEF ListsTypes, CoordinatorTypes, IsPosted, IsManifest, Lists!Prepared
<1> HIDE DEF next
<1>4. \A i \in 1..Len(kept') : IsPosted(kept'[i])
  <2> SUFFICES ASSUME NEW i \in 1..Len(kept') PROVE IsPosted(kept'[i])
    OBVIOUS
  <2>1. kept'[i] = next \/ (i \in 1..Len(kept) /\ kept'[i] = kept[i])
    BY <1>2
  <2> QED
    BY <1>3, <2>1 DEF ListsTypes
<1>5. Len(kept') =< 1 + MaxManifests /\ Len(kept) =< Len(kept') /\ Len(kept) + 1 =< Len(kept')
      /\ Len(kept') \in Nat
  BY <1>2, ManifestsAssumption
<1>6. CoordinatorTypes'
  <2>1. CASE coordinator' = coordinator
    BY <1>2, <1>5, <2>1, ManifestsAssumption DEF ListsTypes, CoordinatorTypes, IsCoordinator
  <2>2. CASE coordinator' = Lists!Finalized(next)
    <3>1. coordinator \in [process : {coordinator.process}, generation : {coordinator.generation},
                           previous : {coordinator.previous}]
      BY DEF ListsTypes, CoordinatorTypes, IsCoordinator
    <3>2. /\ IsCoordinator(coordinator') /\ coordinator'.process = coordinator.process
          /\ coordinator'.generation = coordinator.generation + 1
      BY <1>3, <2>2, <3>1 DEF Lists!Finalized, IsCoordinator
    <3>3. coordinator.generation + 1 \in 0..MaxManifests /\ coordinator.generation + 1 =< Len(kept')
      BY <1>2, <1>5, ManifestsAssumption DEF ListsTypes, CoordinatorTypes
    <3>4. IsCoordinator(coordinator)'
      BY <3>2 DEF IsCoordinator
    <3> QED
      BY <3>2, <3>3, <3>4 DEF ListsTypes, CoordinatorTypes
  <2> QED
    BY <1>2, <2>1, <2>2
<1>7. DOMAIN fetched' = {}
  BY <1>2
<1>8. (\A i \in 1..Len(kept) : IsPosted(kept[i]))'
  BY <1>4 DEF IsPosted, IsManifest
<1> QED
  BY <1>2, <1>5, <1>6, <1>7, <1>8 DEF ListsTypes

LEMMA ListsTypesNext == ListsTypes /\ [Lists!Next]_manifestsVars => ListsTypes'
<1> SUFFICES ASSUME ListsTypes, [Lists!Next]_manifestsVars PROVE ListsTypes'
  OBVIOUS
<1>1. CASE UNCHANGED manifestsVars
  BY <1>1 DEF manifestsVars, ListsTypes, CoordinatorTypes, IsCoordinator
<1>2. CASE Lists!Fetch
  <2>0. PICK order \in UNION {[1..n -> DOMAIN kept] : n \in 0..Len(kept)}, bad \in 0..Len(kept) :
          fetched' = [i \in DOMAIN order |->
                         IF i = bad THEN Lists!Damaged(kept[order[i]]) ELSE kept[order[i]]]
    BY <1>2 DEF Lists!Fetch
  <2>1. PICK n \in 0..Len(kept) : order \in [1..n -> DOMAIN kept]
    BY <2>0
  <2>2. UNCHANGED <<coordinator, kept>>
    BY <1>2 DEF Lists!Fetch
  <2>3. DOMAIN kept = 1..Len(kept)
    BY LenProperties DEF ListsTypes
  <2>4. ASSUME NEW m, IsPosted(m) PROVE IsPosted(Lists!Damaged(m))
    <3>1. Lists!Damaged(m) = [process |-> m.process, generation |-> m.generation,
                              previous |-> m.previous, segment |-> m.segment, body |-> "damaged"]
      BY <2>4 DEF IsPosted, IsManifest, Lists!Damaged
    <3> QED
      BY <2>4, <3>1 DEF IsPosted, IsManifest
  <2>5. \A i \in DOMAIN order : IsPosted(kept[order[i]])
    BY <2>1, <2>3 DEF ListsTypes
  <2>6. \A i \in DOMAIN fetched' : IsPosted(fetched'[i])
    BY <2>0, <2>4, <2>5
  <2> QED
    BY <2>2, <2>6 DEF ListsTypes, CoordinatorTypes, IsCoordinator
<1>3. CASE Lists!Restart
  <2>1. /\ UNCHANGED <<kept, fetched>> /\ coordinator' = Lists!New(coordinator.process + 1)
        /\ coordinator.process < MaxProcesses
    BY <1>3 DEF Lists!Restart
  <2>2. Len(kept) \in Nat
    BY LenProperties DEF ListsTypes
  <2>3. CoordinatorTypes'
    BY <2>1, <2>2, ManifestsAssumption DEF ListsTypes, CoordinatorTypes, IsCoordinator, Lists!New
  <2> QED
    BY <2>1, <2>3 DEF ListsTypes
<1>4. CASE Lists!Leave
  <2>1. UNCHANGED <<coordinator, kept>> /\ DOMAIN fetched' = {}
    BY <1>4 DEF Lists!Leave
  <2> QED
    BY <2>1 DEF ListsTypes, CoordinatorTypes, IsCoordinator
<1> QED
  BY <1>1, <1>2, <1>3, <1>4, TypesWhenPublished DEF Lists!Next

SignaturesTypes == SignaturesInv /\ Signatures!TypeOK

LEMMA SignaturesTypesBegin == Signatures!Init => SignaturesTypes
<1> SUFFICES ASSUME Signatures!Init PROVE SignaturesTypes
  OBVIOUS
<1>1. (CHOOSE b \in Bodies : TRUE) \in Bodies
  BY ManifestSignaturesAssumption
<1> QED
  BY <1>1, SignaturesBegin DEF Signatures!Init, Signatures!Draft, Signatures!TypeOK, SignaturesTypes

LEMMA SignaturesTypesNext ==
  SignaturesTypes /\ [Signatures!Next]_signaturesVars => SignaturesTypes'
<1> SUFFICES ASSUME SignaturesTypes, [Signatures!Next]_signaturesVars PROVE Signatures!TypeOK'
  BY SignaturesNext DEF SignaturesTypes
<1>1. CASE UNCHANGED signaturesVars
  BY <1>1 DEF signaturesVars, SignaturesTypes, Signatures!TypeOK
<1>2. CASE Signatures!Transfer
  <2>1. draft = [body |-> draft.body, ed |-> draft.ed, pqc |-> draft.pqc]
    BY DEF SignaturesTypes, SignaturesInv, IsDraft
  <2>2. draft'.body \in Bodies \cup {draft.body}
    BY <1>2, <2>1 DEF Signatures!Transfer
  <2>3. issued' = issued
    BY <1>2 DEF Signatures!Transfer
  <2> QED
    BY <2>2, <2>3 DEF SignaturesTypes, Signatures!TypeOK
<1>3. ASSUME NEW key \in SigningKeys, Signatures!Sign(key) PROVE Signatures!TypeOK'
  <2>1. draft = [body |-> draft.body, ed |-> draft.ed, pqc |-> draft.pqc]
    BY DEF SignaturesTypes, SignaturesInv, IsDraft
  <2>2. PICK sig : draft' = [draft EXCEPT !.ed = sig, !.pqc = sig]
    BY <1>3 DEF Signatures!Sign
  <2>3. draft'.body = draft.body /\ issued' = issued \cup {<<draft', key>>}
    BY <1>3, <2>1, <2>2 DEF Signatures!Sign
  <2> QED
    BY <2>3 DEF SignaturesTypes, Signatures!TypeOK
<1> QED
  BY <1>1, <1>2, <1>3 DEF Signatures!Next

KeysTypes ==
    KeysInv /\ reader.use \in Keys!Uses \cup {Keys!NoReader.use} /\ reader.opened \in BOOLEAN

LEMMA KeysTypesBegin == Keys!Init => KeysTypes
<1> SUFFICES ASSUME Keys!Init PROVE KeysTypes
  OBVIOUS
<1>1. reader = Keys!NoReader /\ KeysInv
  BY KeysBegin DEF Keys!Init
<1>2. reader.opened \in BOOLEAN
  BY <1>1 DEF Keys!NoReader
<1> QED
  BY <1>1, <1>2 DEF KeysTypes

LEMMA KeysTypesNext == KeysTypes /\ [Keys!Next]_keysVars => KeysTypes'
<1> SUFFICES ASSUME KeysTypes, [Keys!Next]_keysVars PROVE KeysTypes'
  OBVIOUS
<1>1. KeysInv'
  BY KeysNext DEF KeysTypes
<1>2. CASE UNCHANGED keysVars
  <2>1. reader' = reader
    BY <1>2 DEF keysVars
  <2>2. reader'.opened \in BOOLEAN
    BY <2>1, Zenon DEF KeysTypes
  <2> QED
    BY <1>1, <2>1, <2>2 DEF KeysTypes
<1>3. ASSUME NEW u \in Keys!Uses, Keys!Seal(u) PROVE KeysTypes'
  <2>1. reader' = Keys!NoReader
    BY <1>3 DEF Keys!Seal
  <2>2. reader'.opened \in BOOLEAN
    BY <2>1 DEF Keys!NoReader
  <2> QED
    BY <1>1, <2>1, <2>2 DEF KeysTypes
<1>4. ASSUME NEW u \in Keys!Uses, Keys!Open(u) PROVE KeysTypes'
  <2>1. PICK fits \in BOOLEAN : reader' = [use |-> u, opened |-> fits]
    BY <1>4, Zenon DEF Keys!Open
  <2> QED
    BY <1>1, <2>1 DEF KeysTypes
<1> QED
  BY <1>2, <1>3, <1>4 DEF Keys!Next

(* The other parts have their types in the invariants of above.              *)
StreamTypes == StreamInv /\ gone \subseteq Rows /\ began.left \in BOOLEAN

LEMMA StreamTypesBegin == Stream!Init => StreamTypes
<1> SUFFICES ASSUME Stream!Init PROVE StreamTypes
  OBVIOUS
<1>1. gone = {} /\ began = Stream!Nothing
  BY DEF Stream!Init
<1>2. began.left \in BOOLEAN
  BY <1>1 DEF Stream!Nothing
<1> QED
  BY <1>1, <1>2, StreamBegins DEF StreamTypes

LEMMA StreamTypesHold == StreamTypes => Stream!TypeOK
<1> SUFFICES ASSUME StreamTypes PROVE Stream!TypeOK
  OBVIOUS
<1>1. \A list \in Seq(Rows) : Stream!Range(list) \subseteq Rows
  <2> TAKE list \in Seq(Rows)
  <2>1. \A i \in DOMAIN list : list[i] \in Rows
    BY ElementOfSeq, LenProperties
  <2> QED
    BY <2>1 DEF Stream!Range
<1>2. IsStream(stream) /\ skeletons \in Seq(Rows) /\ bodies \in Seq(Rows)
  BY DEF StreamTypes, StreamInv
<1>3. /\ stream.step \in {"idle", "skeletons", "bodies", "done"}
      /\ stream.sAt \in Nat /\ stream.bAt \in Nat
      /\ \A list \in {stream.batch, stream.sSent, stream.bSent} : list \in Seq(Rows)
  BY <1>2 DEF IsStream
<1>4. \A list \in {stream.batch, stream.sSent, stream.bSent} : Stream!Range(list) \subseteq Rows
  BY <1>1, <1>3
<1> QED
  BY <1>2, <1>3, <1>4 DEF StreamTypes, Stream!TypeOK

LEMMA StreamTypesNext == StreamTypes /\ [Stream!Next]_streamVars => StreamTypes'
<1> SUFFICES ASSUME StreamTypes, [Stream!Next]_streamVars
             PROVE  gone' \subseteq Rows /\ began'.left \in BOOLEAN
  BY StreamNext DEF StreamTypes
<1>1. gone \subseteq Rows /\ began.left \in BOOLEAN
      /\ DOMAIN began = {"skeletons", "bodies", "left"}
  BY DEF StreamTypes, StreamInv
<1>2. CASE UNCHANGED <<gone, began>>
  BY <1>1, <1>2
<1>3. CASE Stream!Begin
  <2>1. /\ began' = [skeletons |-> Stream!Range(skeletons), bodies |-> Stream!Range(bodies),
                     left |-> FALSE]
        /\ gone' = gone
    BY <1>3 DEF Stream!Begin
  <2>2. began'.left \in BOOLEAN
    BY <2>1
  <2> QED
    BY <1>1, <2>1, <2>2
<1>4. ASSUME NEW m \in Rows, Stream!Leave(m)
      PROVE  gone' \subseteq Rows /\ began'.left \in BOOLEAN
  <2>1. gone' = gone \cup {m} /\ began' = [began EXCEPT !.left = TRUE]
    BY <1>4 DEF Stream!Leave
  <2>2. began'.left \in BOOLEAN
    BY <1>1, <2>1
  <2> QED
    BY <1>1, <2>1, <2>2
<1>5. CASE UNCHANGED streamVars
  BY <1>2, <1>5 DEF streamVars
<1>6. ASSUME NEW m \in Rows, Stream!Ingest(m) PROVE UNCHANGED <<gone, began>>
  BY <1>6 DEF Stream!Ingest
<1>7. CASE Stream!ReadSkeletons \/ Stream!Send \/ Stream!CallbackFails
  BY <1>2, <1>7 DEF Stream!ReadSkeletons, Stream!Send, Stream!CallbackFails
<1> QED
  BY <1>2, <1>3, <1>4, <1>5, <1>6, <1>7 DEF Stream!Next

ObjectsTypes ==
    /\ ObjectsInv
    /\ object.length =< MaxLength
    /\ {object.sealSize, object.openSize} \subseteq ChunkSizes \cup {DefaultSize}
    /\ opening.cursor =< Len(wire.cells)

LEMMA ListOfItsElements ==
  ASSUME NEW S, NEW T, NEW list \in Seq(S), \A i \in 1..Len(list) : list[i] \in T
  PROVE  list \in Seq(T)
<1>1. Len(list) \in Nat /\ list \in [1..Len(list) -> S]
  BY LenProperties
<1>2. list \in [1..Len(list) -> T]
  BY <1>1
<1> QED
  BY <1>1, <1>2, IsASeq

LEMMA NoObject == Objects!NotOpened.cursor = 0 /\ Len(Objects!NoWire.cells) = 0
BY DEF Objects!NotOpened, Objects!NoWire

LEMMA ObjectsTypesBegin == Objects!Init => ObjectsTypes
<1> SUFFICES ASSUME Objects!Init PROVE ObjectsTypes
  OBVIOUS
<1>1. /\ object = [length |-> 0, sealSize |-> DefaultSize, openSize |-> DefaultSize]
      /\ opening = Objects!NotOpened /\ wire = Objects!NoWire
  BY DEF Objects!Init
<1> QED
  BY <1>1, NoObject, ObjectsBegin, ConvergentAssumption DEF ObjectsTypes

LEMMA ObjectsTypesHold == ObjectsTypes => Objects!TypeOK
<1> SUFFICES ASSUME ObjectsTypes PROVE Objects!TypeOK
  OBVIOUS
<1>1. ObjectTypes /\ sealing.offset =< object.length /\ Counts(opening.out)
  BY DEF ObjectsTypes, ObjectsInv
<1>2. PICK marks : /\ Framed(marks, sealing.out, sealing.offset, SealSize, object.length)
                   /\ <<Len(opening.out), opening.cursor>> \in marks
  BY DEF ObjectsTypes, ObjectsInv
<1>3. <<Len(opening.out), opening.cursor>>[1] =< sealing.offset
  BY <1>2 DEF Framed
<1>4. /\ object.length \in Nat /\ sealing.offset \in Nat /\ opening.cursor \in Nat
      /\ sealing.step \in {"idle", "loop", "done", "refused"}
      /\ wire.state \in {"none", "whole", "cut", "damaged"}
      /\ opening.step \in {"idle", "loop", "done", "refused"}
      /\ wire.cells \in Seq(Cells) /\ opening.out \in Seq(Nat)
  BY <1>1 DEF ObjectTypes
<1>5. /\ Len(wire.cells) \in Nat /\ Len(opening.out) \in Nat
      /\ DOMAIN opening.out = 1..Len(opening.out)
  BY <1>4, LenProperties
<1>6. /\ object.length =< MaxLength /\ opening.cursor =< Len(wire.cells)
      /\ {object.sealSize, object.openSize} \subseteq ChunkSizes \cup {DefaultSize}
  BY DEF ObjectsTypes
<1>7. \A i \in 1..Len(opening.out) : opening.out[i] \in 1..MaxLength
  <2>1. Len(opening.out) =< sealing.offset /\ sealing.offset =< object.length
        /\ object.length =< MaxLength /\ MaxLength \in Nat
    BY <1>1, <1>3, <1>6, ConvergentAssumption
  <2>2. Len(opening.out) =< MaxLength
    BY <1>4, <1>5, <2>1
  <2>3. \A i \in 1..Len(opening.out) : opening.out[i] = i
    BY <1>1, <1>5 DEF Counts
  <2> QED
    BY <1>5, <2>1, <2>2, <2>3
<1>8. opening.out \in Seq(1..MaxLength)
  <2> DEFINE list == opening.out
  <2>1. list \in Seq(Nat) /\ \A i \in 1..Len(list) : list[i] \in 1..MaxLength
    BY <1>4, <1>7
  <2> HIDE DEF list
  <2>2. list \in Seq(1..MaxLength)
    BY <2>1, ListOfItsElements
  <2> QED
    BY <2>2 DEF list
<1> QED
  BY <1>1, <1>4, <1>5, <1>6, <1>8, ConvergentAssumption DEF Objects!TypeOK

LEMMA ObjectsTypesNext == ObjectsTypes /\ [Objects!Next]_objectsVars => ObjectsTypes'
<1> SUFFICES ASSUME ObjectsTypes, [Objects!Next]_objectsVars
             PROVE  /\ object'.length =< MaxLength
                    /\ {object'.sealSize, object'.openSize} \subseteq ChunkSizes \cup {DefaultSize}
                    /\ opening'.cursor =< Len(wire'.cells)
  BY ObjectsNext DEF ObjectsTypes
<1>1. /\ object.length =< MaxLength
      /\ {object.sealSize, object.openSize} \subseteq ChunkSizes \cup {DefaultSize}
      /\ opening.cursor =< Len(wire.cells) /\ ObjectTypes /\ ObjectsInv
  BY DEF ObjectsTypes, ObjectsInv
<1>2. CASE UNCHANGED <<object, wire>> /\ opening'.cursor = opening.cursor
  BY <1>1, <1>2
<1>3. CASE UNCHANGED objectsVars \/ Objects!Seal \/ Objects!SealChunk \/ Objects!SealRefused
  BY <1>2, <1>3 DEF objectsVars, Objects!Seal, Objects!SealChunk, Objects!SealRefused
<1>4. CASE Objects!Open
  <2>1. UNCHANGED <<object, wire>> /\ \E step : opening' = [opening EXCEPT !.step = step]
    BY <1>4 DEF Objects!Open
  <2>2. opening'.cursor = opening.cursor
    BY <1>1, <2>1 DEF ObjectTypes
  <2> QED
    BY <1>2, <2>1, <2>2
<1>5. CASE Objects!Transfer
  <2>1. UNCHANGED <<object, opening>> /\ wire.state = "none"
    BY <1>5 DEF Objects!Transfer
  <2>2. opening.cursor = 0
    BY <1>1, <2>1, NoObject DEF ObjectsInv
  <2>3. ObjectTypes'
    BY <1>1, ObjectsNext DEF ObjectsInv
  <2>4. Len(wire'.cells) \in Nat
    BY <2>3, LenProperties DEF ObjectTypes
  <2> QED
    BY <1>1, <2>1, <2>2, <2>4
<1>6. CASE Objects!OpenFrame
  <2>1. UNCHANGED <<object, wire>>
    BY <1>1, <1>6, FrameIsOpened
  <2>2. \/ opening'.cursor = opening.cursor
        \/ SoundRead /\ opening'.cursor = opening.cursor + 2 + LengthRead
    <3> DEFINE end == opening.cursor + 2 + LengthRead
               all == opening.out \o [i \in 1..(LengthRead - 1) |-> BodyRead[i].value]
    <3>1. \/ \E s : opening' = [opening EXCEPT !.step = s]
          \/ SoundRead /\ opening' = [opening EXCEPT !.cursor = end, !.out = all]
      BY <1>1, <1>6, FrameIsOpened
    <3>2. DOMAIN opening = {"step", "cursor", "out"}
      BY <1>1 DEF ObjectTypes
    <3> HIDE DEF end, all
    <3>3. \/ opening'.cursor = opening.cursor
          \/ SoundRead /\ opening'.cursor = end
      BY <3>1, <3>2
    <3> QED
      BY <3>3 DEF end
  <2>3. Len(wire.cells) \in Nat /\ opening.cursor \in Nat
    BY <1>1, LenProperties DEF ObjectTypes
  <2>4. SoundRead => LengthRead \in Int /\ RestOf >= 2 + LengthRead
    BY DEF SoundRead
  <2>5. opening'.cursor =< Len(wire.cells)
    BY <1>1, <2>2, <2>3, <2>4 DEF RestOf
  <2> QED
    BY <1>1, <2>1, <2>5
<1>7. CASE Objects!Finish
  <2>1. /\ object' \in [length : 0..MaxLength, sealSize : ChunkSizes, openSize : ChunkSizes]
        /\ wire' = Objects!NoWire /\ opening' = Objects!NotOpened
    BY <1>7 DEF Objects!Finish
  <2> QED
    BY <2>1, NoObject, ConvergentAssumption
<1> QED
  BY <1>3, <1>4, <1>5, <1>6, <1>7 DEF Objects!Next

ColumnsTypes == ColumnsInv /\ toInsert \subseteq MediaIds

LEMMA ColumnsTypesBegin == Columns!Init => ColumnsTypes
BY ColumnsBegin DEF Columns!Init, ColumnsTypes

LEMMA ColumnsTypesNext == ColumnsTypes /\ [Columns!Next]_columnsVars => ColumnsTypes'
<1> SUFFICES ASSUME ColumnsTypes, [Columns!Next]_columnsVars PROVE (toInsert \subseteq MediaIds)'
  BY ColumnsNext DEF ColumnsTypes
<1>1. CASE \E m \in MediaIds : Columns!FindNoRow(m) \/ Columns!InsertOrReplace(m)
  BY <1>1 DEF ColumnsTypes, Columns!FindNoRow, Columns!InsertOrReplace
<1>2. CASE toInsert' = toInsert
  BY <1>2 DEF ColumnsTypes
<1> QED
  BY <1>1, <1>2
  DEF Columns!Next, columnsVars, Columns!Evict, Columns!Insert, Columns!HostMoves,
      Columns!PlanEviction, Columns!BeginBackup, Columns!Upload, Columns!Mark,
      Columns!BeginRestore, Columns!Advance, Columns!FetchManifests, Columns!Clear,
      Columns!RestoreRows

LEMMA ColumnsTypesHold == ColumnsTypes => Columns!TypeOK
<1> SUFFICES ASSUME ColumnsTypes PROVE Columns!TypeOK
  OBVIOUS
<1> USE DEF ColumnsTypes
<1>1. /\ mediaState \in [MediaIds -> Columns!MediaStates \cup {Columns!NoRow}]
      /\ backupState \in [MediaIds ->
            {Columns!BackupLine[i] : i \in DOMAIN Columns!BackupLine} \cup {Columns!NoRow}]
      /\ toEvict \subseteq MediaIds
  BY DEF ColumnsInv, RowsFit, BackupValues
<1>2. /\ toMark.step \in {"idle", "upload", "mark"}
      /\ toMark.rows \subseteq MediaIds /\ toMark.sent \subseteq MediaIds
  BY DEF ColumnsInv
<1>3. /\ recovery.stage \in RestoreStages
      /\ recovery.outcome \in {"none", "running", "complete", "failed", "illegal"}
  <2>1. CASE Over
    BY <2>1 DEF Over
  <2>2. ASSUME NEW way \in Ways, NEW at \in Nat, OnWay(way, at), at < Len(Route(way))
        PROVE  recovery.stage \in RestoreStages /\ recovery.outcome = "running"
    <3>1. at =< Len(Route(way))
      BY <2>2, RouteLengths DEF Route
    <3> QED
      BY <2>2, <3>1, StagesAreStages DEF OnWay
  <2> QED
    BY <2>1, <2>2 DEF ColumnsInv
<1> QED
  BY <1>1, <1>2, <1>3 DEF Columns!TypeOK, RestoreStages

LEMMA EpochsTypesHold == EpochsInv => Epochs!TypeOK
<1> SUFFICES ASSUME EpochsInv PROVE Epochs!TypeOK
  OBVIOUS
<1>1. \A i \in DOMAIN rotations : rotations[i] \in Rotation
  BY ElementOfSeq, LenProperties DEF EpochsInv
<1> QED
  BY <1>1 DEF EpochsInv, Rotation, Epochs!TypeOK

(* TypeOK of every part, for all values of the constants: what each part     *)
(* keeps is what its code can hold, among others that a page, a batch or a   *)
(* list of hits is cut at its limit (Timeline, BackupStream, Search), that   *)
(* frames are read within what arrived (decrypt_object_pattern_c), and that  *)
(* no restore leaves its stages (StateColumns).                              *)
THEOREM PartsTyped == Spec => []TypeOK
<1> DEFINE Inv == /\ focus \in PartNames
                  /\ PoolTypes /\ ShardCaching!TypeOK /\ MediaInv /\ Vault!TypeOK /\ StreamTypes
                  /\ FuzzyInv /\ SearchTypes /\ PagesTypes /\ ColumnsTypes /\ ListsTypes
                  /\ SignaturesTypes /\ ObjectsTypes /\ KeysTypes /\ EpochsInv
<1>1. Init => Inv
  BY PoolBegins, ShardTypesBegin, CacheBegins, VaultTypesBegin, StreamTypesBegin, FuzzyBegins,
     SearchTypesBegin, PagesTypesBegin, ColumnsTypesBegin, ListsTypesBegin, SignaturesTypesBegin,
     ObjectsTypesBegin, KeysTypesBegin, EpochsBegin
  DEF Init, AloneEpochsInv
<1>2. Inv /\ [Next]_vars => Inv'
  <2> SUFFICES ASSUME Inv, [Next]_vars PROVE Inv'
    OBVIOUS
  <2>1. focus' = focus
    BY DEF Next, Still, vars
  <2>2. PoolTypes' /\ ShardCaching!TypeOK' /\ MediaInv' /\ Vault!TypeOK'
    BY PartsMove, PoolNext, ShardTypesNext, CacheNext, VaultTypesNext
  <2>3. StreamTypes' /\ FuzzyInv' /\ SearchTypes' /\ PagesTypes' /\ ColumnsTypes'
    BY PartsMove, StreamTypesNext, FuzzyNext, SearchTypesNext, PagesTypesNext, ColumnsTypesNext
  <2>4. ListsTypes' /\ SignaturesTypes' /\ ObjectsTypes' /\ KeysTypes' /\ EpochsInv'
    BY PartsMove, ListsTypesNext, SignaturesTypesNext, ObjectsTypesNext, KeysTypesNext, EpochsNext
  <2> QED
    BY <2>1, <2>2, <2>3, <2>4
<1>3. Inv => TypeOK
  <2> SUFFICES ASSUME Inv PROVE TypeOK
    OBVIOUS
  <2>1. Pool!TypeOK /\ Keys!TypeOK /\ Signatures!TypeOK
    BY DEF PoolTypes, IsCall, Pool!TypeOK, KeysTypes, KeysInv, Keys!TypeOK, SignaturesTypes
  <2>2. MediaFiles!TypeOK /\ Fuzzy!TypeOK
    BY DEF MediaInv, FuzzyInv
  <2> QED
    BY <2>1, <2>2, StreamTypesHold, SearchTypesHold, PagesTypesHold, ColumnsTypesHold,
       ListsTypesHold, ObjectsTypesHold, EpochsTypesHold
    DEF TypeOK
<1> QED
  BY <1>1, <1>2, <1>3, PTL DEF Spec
================================================================================
