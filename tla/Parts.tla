--------------------------------- MODULE Parts ----------------------------------
(***************************************************************************)
(* The parts of the system that share no state with the message store's    *)
(* core or with one another, side by side: in a behaviour one of them      *)
(* moves, and which one is chosen at the beginning.  Each is a module of   *)
(* its own, with its constants and variables under the names it gives      *)
(* them.                                                                   *)
(***************************************************************************)
EXTENDS Integers, Sequences

CONSTANTS
    Callers, PoolSize, StatsAlone, Nobody,  \* ReadPool
    CacheThreads, ShardKeys, MaxEntries, MaxStamp,  \* ShardCache
    Files, Sizes, MaxBytes, MaxCount,  \* MediaCache
    Registrars, Devices, Torn,  \* DeviceVault
    Rows, BatchSize,  \* BackupStream
    Alphabet, MaxQuery, MaxText,  \* FuzzyMatch
    MessageCount, InScope, Wanted, Limit, MaxChanges, MaxSlow,  \* Search
    Binding, TimelineIds, Times, PageSize, Distinct,  \* Timeline
    MediaIds, HostAlone,  \* StateColumns
    MaxManifests, MaxProcesses,  \* Manifests
    SigningKeys, Bodies,  \* ManifestSignatures
    MaxLength, ChunkSizes, DefaultSize, MaxFrame,  \* ConvergentObjects
    IdBytes,  \* KeySchedule
    Hosts, Cadence, MaxTime, EpochMax  \* EpochRotation

ASSUME ReadPoolAssumption ==
    PoolSize \in Nat /\ StatsAlone \in BOOLEAN /\ Nobody \notin Callers

ASSUME ShardCacheAssumption ==
    /\ MaxEntries \in Nat \ {0} /\ MaxStamp \in Nat
    /\ "none" \notin ShardKeys /\ ShardKeys # {}

ASSUME MediaCacheAssumption ==
    /\ Sizes \subseteq Nat \ {0} /\ MaxBytes \in Nat /\ MaxCount \in Nat

ASSUME DeviceVaultAssumption == Devices # {} /\ \A vault \in SUBSET Devices : Torn # vault

ASSUME BackupStreamAssumption == BatchSize \in Nat \ {0} /\ Rows \subseteq Nat

ASSUME FuzzyMatchAssumption ==
    Alphabet \subseteq {"a", "b", "A", "han", "kan", " "} /\ MaxQuery \in Nat /\ MaxText \in Nat

ASSUME SearchAssumption ==
    /\ MessageCount \in Nat /\ Limit \in Nat /\ MaxChanges \in Nat /\ MaxSlow \in Nat
    /\ InScope \cup Wanted \subseteq 1..MessageCount

ASSUME TimelineAssumption ==
    /\ Binding \in {"uniffi", "napi"} /\ TimelineIds \subseteq Nat
    /\ Times \subseteq Nat \ {0} /\ \E last \in Times : \A t \in Times : t =< last
    /\ PageSize \in Nat \ {0} /\ Distinct \in BOOLEAN

ASSUME StateColumnsAssumption == HostAlone \in BOOLEAN

ASSUME ManifestsAssumption == MaxManifests \in Nat \ {0} /\ MaxProcesses \in Nat \ {0}

ASSUME ManifestSignaturesAssumption == Bodies # {}

ASSUME ConvergentAssumption ==
    /\ MaxLength \in Nat /\ ChunkSizes \subseteq Nat /\ DefaultSize \in Nat \ {0}
    /\ MaxFrame \in Nat

ASSUME KeyScheduleAssumption == IdBytes \subseteq Seq(Nat)

ASSUME EpochRotationAssumption ==
    Cadence \in Int /\ MaxTime \in Nat /\ EpochMax \in Nat

VARIABLES
    focus,  \* the part that moves
    readIdx, turn, conn, calls,  \* ReadPool
    counter, entries, lookup, served,  \* ShardCache
    onDisk, older, current, disturbed,  \* MediaCache
    vaultFile, enrolling, registered, safe,  \* DeviceVault
    skeletons, bodies, gone, stream, began,  \* BackupStream
    query, text, row, prev,  \* FuzzyMatch
    content, indexed, grams, deleted, slow, engine, changes, witness,  \* Search
    seeded, createdAt, tombstones, newest, pager, there,  \* Timeline
    mediaState, backupState, toEvict, toMark, toInsert, recovery,  \* StateColumns
    coordinator, kept, fetched,  \* Manifests
    draft, issued,  \* ManifestSignatures
    object, sealing, wire, opening,  \* ConvergentObjects
    item, reader,  \* KeySchedule
    rotator, today, plan, rotations  \* EpochRotation

poolVars == <<readIdx, turn, conn, calls>>
shardsVars == <<counter, entries, lookup, served>>
mediaVars == <<onDisk, older, current, disturbed>>
vaultVars == <<vaultFile, enrolling, registered, safe>>
streamVars == <<skeletons, bodies, gone, stream, began>>
fuzzyVars == <<query, text, row, prev>>
searchVars == <<content, indexed, grams, deleted, slow, engine, changes, witness>>
timelineVars == <<seeded, createdAt, tombstones, newest, pager, there>>
columnsVars == <<mediaState, backupState, toEvict, toMark, toInsert, recovery>>
manifestsVars == <<coordinator, kept, fetched>>
signaturesVars == <<draft, issued>>
objectsVars == <<object, sealing, wire, opening>>
keysVars == <<item, reader>>
epochsVars == <<rotator, today, plan, rotations>>

vars ==
    <<focus, poolVars, shardsVars, mediaVars, vaultVars, streamVars, fuzzyVars, searchVars,
      timelineVars, columnsVars, manifestsVars, signaturesVars, objectsVars, keysVars, epochsVars>>

Pool == INSTANCE ReadPool
ShardCaching == INSTANCE ShardCache
MediaFiles == INSTANCE MediaCache
Vault == INSTANCE DeviceVault
Stream == INSTANCE BackupStream
Fuzzy == INSTANCE FuzzyMatch
Engine == INSTANCE Search
Pages == INSTANCE Timeline
Columns == INSTANCE StateColumns
Lists == INSTANCE Manifests
Signatures == INSTANCE ManifestSignatures
Objects == INSTANCE ConvergentObjects
Keys == INSTANCE KeySchedule
Epochs == INSTANCE EpochRotation

PartNames ==
    {"pool", "shards", "media", "vault", "stream", "fuzzy", "search",
     "timeline", "columns", "manifests", "signatures", "objects", "keys", "epochs"}

TypeOK ==
    /\ focus \in PartNames
    /\ Pool!TypeOK
    /\ ShardCaching!TypeOK
    /\ MediaFiles!TypeOK
    /\ Vault!TypeOK
    /\ Stream!TypeOK
    /\ Fuzzy!TypeOK
    /\ Engine!TypeOK
    /\ Pages!TypeOK
    /\ Columns!TypeOK
    /\ Lists!TypeOK
    /\ Signatures!TypeOK
    /\ Objects!TypeOK
    /\ Keys!TypeOK
    /\ Epochs!TypeOK

Init ==
    /\ focus \in PartNames
    /\ Pool!Init
    /\ ShardCaching!Init
    /\ MediaFiles!Init
    /\ Vault!Init
    /\ Stream!Init
    /\ Fuzzy!Init
    /\ Engine!Init
    /\ Pages!Init
    /\ Columns!Init
    /\ Lists!Init
    /\ Signatures!Init
    /\ Objects!Init
    /\ Keys!Init
    /\ Epochs!Init

(* All parts but one stay as they are. *)
Still(part) ==
    /\ UNCHANGED focus
    /\ part # "pool" => UNCHANGED poolVars
    /\ part # "shards" => UNCHANGED shardsVars
    /\ part # "media" => UNCHANGED mediaVars
    /\ part # "vault" => UNCHANGED vaultVars
    /\ part # "stream" => UNCHANGED streamVars
    /\ part # "fuzzy" => UNCHANGED fuzzyVars
    /\ part # "search" => UNCHANGED searchVars
    /\ part # "timeline" => UNCHANGED timelineVars
    /\ part # "columns" => UNCHANGED columnsVars
    /\ part # "manifests" => UNCHANGED manifestsVars
    /\ part # "signatures" => UNCHANGED signaturesVars
    /\ part # "objects" => UNCHANGED objectsVars
    /\ part # "keys" => UNCHANGED keysVars
    /\ part # "epochs" => UNCHANGED epochsVars

Next ==
    \/ focus = "pool" /\ Pool!Next /\ Still("pool")
    \/ focus = "shards" /\ ShardCaching!Next /\ Still("shards")
    \/ focus = "media" /\ MediaFiles!Next /\ Still("media")
    \/ focus = "vault" /\ Vault!Next /\ Still("vault")
    \/ focus = "stream" /\ Stream!Next /\ Still("stream")
    \/ focus = "fuzzy" /\ Fuzzy!Next /\ Still("fuzzy")
    \/ focus = "search" /\ Engine!Next /\ Still("search")
    \/ focus = "timeline" /\ Pages!Next /\ Still("timeline")
    \/ focus = "columns" /\ Columns!Next /\ Still("columns")
    \/ focus = "manifests" /\ Lists!Next /\ Still("manifests")
    \/ focus = "signatures" /\ Signatures!Next /\ Still("signatures")
    \/ focus = "objects" /\ Objects!Next /\ Still("objects")
    \/ focus = "keys" /\ Keys!Next /\ Still("keys")
    \/ focus = "epochs" /\ Epochs!Next /\ Still("epochs")

(* The fairness of ReadPool, where the pool is what moves.                   *)
Fairness ==
    \A c \in Callers :
       /\ SF_poolVars(focus = "pool" /\ Pool!Turn(c) /\ Still("pool"))
       /\ SF_poolVars(focus = "pool" /\ Pool!Take(c) /\ Still("pool"))
       /\ WF_poolVars(focus = "pool" /\ Pool!Proceed(c) /\ Still("pool"))

Spec == Init /\ [][Next]_vars /\ Fairness

--------------------------------------------------------------------------------

(* Every call of the bindings that has begun returns, as long as the host    *)
(* makes no other during get_storage_stats (ReadPool).                       *)
CallsReturn == Pool!CallsReturn

(* The shard cache implements one that drops the least recently used entry,  *)
(* with one thread (ShardCache, LruCache).                                   *)
DropsLeastRecent == ShardCaching!DropsLeastRecent

(* The files beside the database: the cached media stay within the budget,   *)
(* but for one file that is larger, in a process that found none and whose   *)
(* removals succeed (MediaCache); the device keys that were said to be       *)
(* stored since a read or a write of the vault last failed stay in it, with  *)
(* one thread (DeviceVault).                                                 *)
FilesAreKept == MediaFiles!WithinBudget /\ Vault!KeysStay

(* A batched backup reads every row that was there when it began, once, if   *)
(* no row leaves meanwhile (BackupStream).                                   *)
StreamsAll == Stream!StreamsAll

(* A search that answers finds what matches word for word throughout it,     *)
(* unless a limit cuts a list or the text is a caption, and not what was     *)
(* deleted before it, unless a call that had checked the message before the  *)
(* delete wrote it after (Search); a text with a word of the query is a      *)
(* candidate of the fuzzy index, and its score is of the edit distance       *)
(* (FuzzyMatch).                                                             *)
SearchFinds ==
    /\ Engine!MatchIsFound /\ Engine!DeletedNotFound
    /\ Fuzzy!WordIsCandidate /\ Fuzzy!RowsAreDistances

(* Paging to the end shows each message once, and a conversation that was    *)
(* seeded takes messages, however the host spells its id (Timeline).         *)
TimelineIsWhole == Pages!PagesShowAll /\ Pages!SeededTakesMessages

(* The state columns: assets move along their diagram and a message that is  *)
(* backed up stays so as long as its row, unless a delivery replaces the     *)
(* rows of one that overtook it, and no restore is stopped by its own stages *)
(* (StateColumns).                                                           *)
ColumnsAdvance == Columns!MediaLifecycle /\ Columns!BackedUpStays /\ []Columns!StagesInOrder

(* A list of manifests that is accepted is the beginning of what one process *)
(* published, if not all of it and with its last one's body unchecked        *)
(* (Manifests); one that verifies is what was signed, and what was signed    *)
(* verifies (ManifestSignatures).                                            *)
ManifestsTell ==
    /\ Lists!AcceptedIsPrefix
    /\ Signatures!SignedIsIntact /\ Signatures!SignedVerifies

(* An object that arrives whole is opened as it was, or refused for the      *)
(* chunk size it is opened with, and what comes of a damaged one is an error *)
(* or lacks whole chunks of its end (ConvergentObjects).                     *)
ObjectsOpen == Objects!RoundTrip /\ Objects!OpensPrefix

(* What is sealed for one use opens for that use alone, and what a backup    *)
(* seals for none (KeySchedule); the keys of the archive last for their      *)
(* cadence, with one thread, and are replaced by new ones (EpochRotation).   *)
KeysSeparate == Keys!OpensForItsUse /\ Epochs!EpochsAreNew /\ Epochs!EpochsLast
================================================================================
