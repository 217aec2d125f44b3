# Specifications of the chat-storage core

TLA+ modules, TLC configurations and machine-checked proofs for the Rust core of
this repository (`crates/cs-core` with its bindings): the encrypted local message
store of a chat client, its backup, restore and archive, and the transport below
them. Paths in this document are relative to `crates/cs-core/src/`.

Run everything from this directory:

    tlc -config store_serial.cfg MCMessageStore.tla
    tlapm MessageStoreProofs.tla

`PROJECT.json` lists the runs, the lines of code each definition stands for,
the hazards of the code and the properties that cover them, and the theorems.

## 1. Inventory

The core is a library. The host application calls one `CoreImpl` from any of
its threads through the UniFFI or N-API bindings, all calls are blocking, and
there is no thread of the core's own. So concurrency is several host threads in
the methods of one object; what they share is:

- the **local store** (`local_store/db.rs`): one SQLite write connection behind
  a mutex and three read-only connections behind theirs, in WAL mode;
- the **backup coordinator** behind a mutex (`core_impl.rs:70`);
- the **circuit breaker** of the transport, two relaxed atomics;
- `last_enforcement_ms`, the device vault file, and the gateway.

| Component | State | Operations | What is hard |
|---|---|---|---|
| Message store: `message/processor.rs`, `local_store/db.rs` | skeletons, bodies, media rows, two search indexes, outbox, event journal, conversations | ingest, queue for sending, mark sent, send media, edit, delete for me, delete for everyone, evict | checks on the read pool before the write lock; several tables in step, written by three methods that do not write the same ones; failures that are ignored inside a savepoint |
| Migrations: `local_store/db.rs`, `schema.rs` | `user_version`, tables and columns | open, migrate | no transaction around a migration and its version |
| Breaker and retries: `transport/circuit_breaker.rs`, `kdrive_bridge.rs` | failure count, opening time | allow, record failure, record success, send with retry | interleaved loads and stores |
| Incremental backup: `backup/`, `core_impl.rs:242` | generation, previous hash; segments and manifests at the gateway; `backup_state` | snapshot, prepare, upload twice, finalize, mark | no lock over the uploads; lost replies; restarts; a store that changes |
| Restore: `restore/pipeline.rs` | an open savepoint on the write connection | clear, download and insert, roll back or release | the lock is dropped while the savepoint is open, and failures to end it are ignored |
| Archive: `archive/` | pending segments, epoch keys, generation, previous hash | archive a batch, finalize an epoch, rotate, prune | in memory only; upload before the check of the cap; epochs by the calendar |
| Ingestion loop, budget, hydration: `core_impl.rs`, `offload/` | cursor (the host's), time of the last enforcement | fetch a page, enforce the budget, hydrate | a page that never passes; eviction that frees nothing; a cooldown read before it is stamped |
| Media: `media/`, `core_impl.rs:490` | media rows, blobs, cache directory, byte count | send, cache, evict | rows before the upload; a count apart from the files; a file larger than the budget |
| Device vault: `core_impl.rs:371` | the vault file | register a device | read, extended and overwritten without a lock; a failing read counts as an empty file |
| Search: `search/` | indexes (in the store), shard cache | search, index, cache | three reads at different moments; writes decided on before a delete; limits before filters; order of stamps in the LRU |
| State columns: `local_store/state_machines.rs` and their writers | media, backup and body state, stage of a restore | UPDATEs from plans read earlier | nobody asks `try_transition`; a late delivery replaces the row |
| Connections: `local_store/db.rs:145` | write connection, read pool, `read_idx` | `read`, `write` | a call that keeps one connection and asks for another |
| Formats: `formats/`, `restore/manifest_verifier.rs` | none | sign, verify, chain | lists that come incomplete |
| Cryptography: `crypto/` | epoch counter and time of the rotator | derive, rotate, seal and open chunk by chunk | ids without a fixed length; frames at the end of an object; a counter at its end |
| Bindings: `cs-core-uniffi`, `cs-core-napi` | none | convert and call; timeline, statistics, seeding | two spellings of an id; pages while messages come and go |
| Other transport, knowledge, models, tenant, scheduler | none shared | pure functions, records, stubs | section 6 |

How they interact: `ingest_remote_messages` fetches a page over the transport,
persists each message and then enforces the budget, which evicts bodies.
`run_incremental_backup` reads the store, chains a manifest, uploads through the
transport (and so through the breaker) and marks rows of the store.
`restore_from_backup` verifies the chain and rewrites the store. Sending writes
skeleton, body and outbox; the host delivers and calls `mark_sent`.

What makes each component correct: a message is created once and the indexes
show what is stored and not deleted; the state columns follow their
diagrams; a version never promises what the file lacks; an open breaker lets
requests through again and holds them back until then; the manifests form one
chain, name only segments that exist, and what is marked backed up can be
restored; a restore leaves the old store or the restored one; nothing before the
host's cursor is missing; what is evicted is still readable; a cache drops what
was used least recently and stays within its size; a search finds what matches
and not what is deleted; paging shows each message once; what is sealed for one
use opens for that use alone; and every call comes back.

## 2. Modules

| Module | Models |
|---|---|
| `MessageStore` | the tables and the operations on them, by several workers |
| `StateMachines`, `BodyLifecycle` | the five diagrams of `try_transition` as relations; abstract: every body moves along its own |
| `StateColumns` | who writes `media_state`, `backup_state` and the stage of a restore, and from what |
| `Migrations` | open and migrate |
| `CircuitBreaker` | the breaker's atomics under the retry loop |
| `BackupChain`, `ManifestChain` | `run_incremental_backup`, the coordinator, the gateway and a changing store; abstract: manifests are published one after the other |
| `BackupStream` | the batched snapshot |
| `Manifests`, `ManifestSignatures` | what a restore can tell from a list of manifests; the two signatures of one |
| `Restore` | the restore pipeline on the shared write connection |
| `Archive` | the archive coordinator and its epoch keys |
| `CoreCalls` | the page loop, the budget, hydration, sending of media |
| `ReadPool` | the connections and the calls that take them |
| `ShardCache`, `LruCache` | the shard cache; abstract: a cache that drops what was used first |
| `MediaCache`, `DeviceVault` | files beside the database |
| `Search`, `FuzzyMatch` | one search over a changing store; grams, candidates and edit distance |
| `Timeline` | seeding, the timeline and its pages, in both bindings |
| `KeySchedule`, `EpochRotation`, `ConvergentObjects` | which key each use derives; the epoch rotator; objects sealed chunk by chunk |
| `Parts` | composes the fourteen modules that share no state with the store's core |
| `MessageStoreProofs`, `MigrationsProofs`, `CircuitBreakerProofs`, `BackupChainProofs`, `RestoreProofs`, `ArchiveProofs`, `CoreCallsProofs`, `PartsProofs` | theorems (section 5) |
| `MC...` | constants of the model-checking runs |

Every property stands at the end of its module, under a comment that says what it is
about; the larger modules have those of section 4 under the heading "What the
documentation says and the code does not do". A definition whose comment begins with
"Mutant" is the code with a plausible error in it, beside the definition it would
replace; the runs detect each of them.

### MessageStore

One variable per column or table the operations share, as a function of the message
id. A public method reads through the pool, gives that connection back and then runs
one savepoint under the write mutex, so it is two actions: `BeginEdit` is the check
of `edit_message` on what the row holds now, `CommitEdit` the savepoint on whatever
the row holds by then. A savepoint is one action because nothing else sees it before
it is released; `Fail` between the two steps is its rollback. `mark_sent` has no
savepoint and is `MarkSentOutbox` and `MarkSentJournal`, with the mutex held between
(`lock`). Inside a savepoint the inserts into the fuzzy index (`processor.rs:377`,
`539`, `698`) and the update of the conversation are `let _ =`: each of them may
fail and the rest is committed, so `InsertText` and `Reindex` leave any part of the
grams and `BumpConversation` may change nothing. `SendMedia` is the savepoint of
`send_media_inner`: a skeleton, a body with the caption or NULL and an asset,
without an index row, an event or an outbox entry. Eviction is a plan and then one
update per message; a NULL caption of an archived message makes the query of the
plan fail (`db.rs:611`), so that nothing is evicted as long as it is there. `Crash`
forgets what workers were doing and keeps the tables. `INSERT OR REPLACE`, `INSERT
OR IGNORE` and an `UPDATE` of no row are modelled as what they do to the row that is
there.

`ReadersAgree` is what a reader may rely on: a deleted message is not found, a text
that is stored and not deleted is, unless it is a caption that was never edited, and
the mark and the body state say the same. `GramsOfIndexedText`: the fuzzy index may
lack grams but has none of another text. `FollowsLifecycle`: through the column
`body_state` the store implements `BodyLifecycle`. `JournalExplainsRow` relates each
row to the events written for it; that of a message sent by `send_media` exists
without one.

### StateColumns

The plan of an eviction, the rows of a backup and the stages of a restore are
variables of their own, as each is read first and applied later by UPDATEs that do
not look at the column again. Only the stage of a restore asks `try_transition`.
`FindNoRow` is the duplicate check of a delivery and `InsertOrReplace` its
savepoint, which replaces the row that another thread has inserted since, or even
backed up. What a restore does to other columns is module `Restore`.

### Migrations

`Open` reads `user_version` (a failing read counts as 0, `db.rs:95`), `RunBatch`
runs one migration, `Bump` writes the version, `Interrupt` may end the open
between any two statements, `Upgrade` installs the next build. `applied` is the
set of versions whose tables and columns are in the file.

### CircuitBreaker

Each atomic load or store is an action, in program order per thread; the order
between relaxed operations on two variables of different threads is whatever the
interleaving gives. The opening time is modelled by its age.

### BackupChain, ManifestChain, BackupStream

A worker goes through the two reads of the snapshot, `Prepare` and `Finalize`
(under the coordinator's mutex), the two uploads and `Mark`. `Answered` lets an
applied upload be answered with an error when `LostReplies` is set, `Restart`
gives the process a new coordinator when `Restarts` is set, and `Receive`, `Edit`
and `DeleteForEveryone` change the store at any time. `PublishesOneChain`: with
one worker, no restart and no lost reply the backup implements `ManifestChain`.

`BackupStream` is `stream_backup_batches`: two tables read by LIMIT and OFFSET in
turn until both give a short batch, with rows that arrive and rows that leave
between the queries.

### Manifests, ManifestSignatures

In `Manifests` a process prepares, posts and finalizes one manifest after the other,
a POST may be applied twice or answered with an error, and the next process starts a
chain of its own (`Restart`, `core_impl.rs:70`). `verify_chain` is given every list
that a lossy gateway could answer with: some of the published manifests, in any
order, repeated, one of them damaged. `AcceptedIsPrefix` is what the links can show:
the beginning of one of these chains, and section 4 says what they cannot, above all
that there is no more. `ManifestSignatures` is the payload that both signatures
cover and the verification that asks for both, for a manifest whose parts were
changed on the way or taken from another.

### Restore

`disk` is what is committed and what the read pool shows, `work` what the write
connection sees, `saves` its open savepoints, each with the state it rolls back to.
A write outside a savepoint commits at once. The pipeline takes the mutex for one
row at a time, so each row is an action, and `Ingest` may come between. `SealedWith`
is the key of the segments: the code seals with one and opens with another (section
4), and the other properties of the pipeline are checked with the key it opens with.
A statement may fail at each place (`StatementsFail`): `ClearFails` and `RowFails`
in the middle, with what the statements before have done, and `Release` and
`Rollback` at the end, where `execute` ignores the result and leaves its savepoint
open for the writes that follow. `MaxOpen` bounds the savepoints that are left.
`RestoreIsAtomic`: what is on disk is the old data or all of the restored, a failure
leaves the old, and a restore that says it is done has committed unless the end of
its savepoint failed and nobody looked (`ignored`).

### Archive

The methods of `ArchiveCoordinator` take `&mut self`, so one action is one call:
`ArchiveBatch` and `FinalizeEpoch` when the upload is answered, `...Fails` when it
is answered with an error, applied or not. The coordinator is in memory only and
`Restart` makes a new one; `sealed`, `built`, `inherited` and `accepted` are
history. A manifest's id stands for its hash. The calendar of `current_epoch_id`
is `EpochOf`, with its days per year and per month as constants; the clock
advances a day at a time and is not set back. Nothing in `CoreImpl` calls the
coordinator yet: the model is of any host that does.

### CoreCalls

`job` holds each thread's place in its call: what is left of its page, the clock
reading it took, the bodies it still has to evict. `Fetch`, `Check` (validation
and the duplicate check), `Insert` (the savepoint), `Budget`, `CheckCooldown`,
`Plan`, `Evict` and `Stamp` are the steps of `ingest_remote_messages` and of
`enforce_storage_budget`; `Deliver` is the return that gives the host its next
cursor. `Process` is the hydration queue, which goes through the same `Check` and
`Insert` without descriptors, and ends at a duplicate. `BeginSendMedia` commits the
rows, `Upload` follows. `InsertFails`, `EvictFails`, `TransportFails`, `Crash` and
`StartOver` (a host without its cursor) use up `faults`. `Archive` stands for the
part of the host that verifies what the archive holds: no code of the core writes
`archive_state`, so that without it nothing would be evictable.

### ReadPool

A call is the sequence of connections it takes (`Program`). `Turn` advances
`read_idx` and keeps its mutex until `Take` has the connection, as `read` does;
`keep` is a statement that `get_storage_stats` has not finished when it reads
again. With `StatsAlone` the host makes no other call during that one.

### ShardCache, LruCache, MediaCache, DeviceVault

`Stamp` takes the number, `Get` and `Insert` use it under another mutex. The
refinement mapping reads from the stamps which key was used before which, and
`DropsLeastRecent` says that this is an LRU cache. `MediaCache` keeps the bytes
on disk apart from the byte count, and `older` for the order by modification time:
a file is dropped when the count without those older than it is still above
the target, which is when the loop of `evict_oldest_until_fit` reaches it.
`StoreDisturbed` is a store whose removals or
whose write fail, `Reopen` a new process over the same directory. `DeviceVault`
has the three steps of `register_device`: `Load`, `Empty` and `Write`, the last
two because `fs::write` empties the file first. `FailToLoad` is the read of a file
that is there and fails (`if let Ok`, `core_impl.rs:398`), after which the next
write drops what it held, `FailToWrite` a write that fails before or after it
emptied the file. `safe` is what was answered since the last of these failures.

### Search, FuzzyMatch

`TextSearch`, `FuzzySearch`, `FetchBodies` and `Rank` are the reads of one search
and what is made of them. `Write` is an ingestion, an edit or a delete between two
of them; `Check` and `WriteLate` are the same call with the writes of others between
its check on the read pool and its savepoint, as `processor.rs:627` and `:638`
allow, and `SendMedia` stores a caption that no index has. `Becomes` may lose the
grams of the fuzzy index. `PanicOnSnippet` is the slice of `generate_snippet` at a
byte inside a character. A text is named for what the query makes of it.
`FuzzyMatch` computes the edit distance as the code does, one row at a time over two
arrays, and `RowsAreDistances` compares every cell with the least cost over all
alignments; `WordIsCandidate` relates tokens, grams and scores. The loop of
`tokenize` is described by what it gives, the longest runs of one script without
white space; a score is a fraction, as the code divides without rounding.

### Timeline

One conversation and a host that pages through it with `before_ms`. `Key` is what
a binding makes of the host's spelling of an id: `facade.rs` normalises it,
the N-API `lib.rs` does not in these methods.

### KeySchedule, EpochRotation, ConvergentObjects

A derived key is the term of its derivation: parent, label and the bytes of the
info. A segment of a backup is sealed with the backup root itself, as
`run_incremental_backup` does, and opened with the key of an archive segment, as
the restore does (`OpeningKey`). In
`EpochRotation` hosts look whether a rotation is due and then rotate, and the
counter has an end. `ConvergentObjects` seals an object chunk by chunk, sends it
whole, cut or damaged, and opens it frame by frame; `MaxFrame` stands for the
largest `u32`, which both sides check, one by the chunk and one by the argument.

### Parts

The fourteen modules that share no variable are instantiated side by side. `focus`
is chosen at the beginning and says which of them moves, so that the states of
`parts` are the sum of those of its modules and not the product. The assumptions
on their constants stand here. Each property of `Parts` is a conjunction of
properties of its modules, and every conjunct is broken by some definition marked
"Mutant" in its module.

## 3. Runs

Eleven runs pass; one shows a disagreement with the repository's documentation.

| Run | Question | Bounds | States |
|---|---|---|---|
| `store_serial` | With one worker, failing and crashing anywhere: is each message created once, do its readers agree, and do bodies follow the diagram? | a remote message with a photo and no text, an own one, two texts, four events per message | 313,119 |
| `store_shared` | What do the savepoints protect when two workers interleave? | two workers, a remote message with a photo and a text and three events, an own one with two | |
| `migrations` | Do interrupted opens and upgrades leave an honest version? | the five versions of the schema, two of them altering ones | 526 |
| `breaker_single` | Does an open breaker admit again? | one thread, the real threshold of 5 and 3 retries | 265 |
| `breaker_shared` | Are late requests bounded and do calls end when threads race? | two threads, threshold 2, two retries | |
| `chain_single` | One worker, failing anywhere, while the store changes: one chain? | two messages, three backups, two versions of a text | 1,225,959 |
| `chain_shared` | Two workers, restarts, lost replies: does every manifest have its segment, and is what is marked recoverable? | one message, three backups, two versions | |
| `restore_alone` | Failures and crashes anywhere, messages arriving: old store or restored store? | two segments, three messages, one of them not in the backup; two savepoints left open | 599,812 |
| `archive` | Uploads fail or lose their answer, the process restarts, a year ends: is no batch accepted by this process forgotten, and do recent segments keep their key? | a year of 7 days in months of 2, two years begun; cap 2, one kept key, four segments, two manifests | 1,034,224 |
| `core_calls` | A poller, and a thread that enforces, hydrates and sends: is nothing skipped, does everything before a malformed message arrive, is what is evicted still readable, and is the cooldown kept? | four messages in pages of two, the third of media alone, the fourth malformed; one asset; a database that overflows at three rows; two faults, two ticks, cooldown 1 | 337,343 |
| `parts` | One question per module, below | below | 315,091 |
| `restore_key` | violated: `NeverFails` with the key the backup uses | | |

What `parts` asks, and of what size:

| Property | Modules | Size |
|---|---|---|
| `CallsReturn` | `ReadPool` | two callers, the real pool of three, four kinds of calls |
| `DropsLeastRecent` | `ShardCache` | three keys, two entries, six calls |
| `FilesAreKept` | `MediaCache`, `DeviceVault` | three files of 1, 2 or 5 units in a budget of 4; three devices |
| `StreamsAll` | `BackupStream` | three rows in batches of two |
| `SearchFinds` | `Search`, `FuzzyMatch` | two messages, one of them filtered out, a limit of 2 over two indexes, one change during a search, one call with others between check and savepoint; every pair of strings up to 3 over `a`, `A`, a Han character and white space |
| `TimelineIsWhole` | `Timeline` | three messages at different times, pages of two, the UniFFI binding |
| `ColumnsAdvance` | `StateColumns` | two messages with an asset each, deliveries that overtake one another |
| `ManifestsTell` | `Manifests`, `ManifestSignatures` | three manifests by two processes, any list of them; two keys, two bodies |
| `ObjectsOpen` | `ConvergentObjects` | objects up to 5 units, chunks of 2, 4 or the default 3, frames up to 4, any cut, any one damaged cell |
| `KeysSeparate` | `KeySchedule`, `EpochRotation` | ids of one byte and of two, one the beginning of the other; a counter that ends at 3, a cadence of 0 |

Why the bounds suffice. Operations of `MessageStore` touch one message, except that
the last message of the conversation is shared and an eviction plan is a set: two
messages show both. A race needs two workers and one message; three events of a
message allow a creation, a change and a second change or creation, and two those of
the other, whose part is to be the other one. Migration code does not depend on how
many versions there are beyond altering and creating ones in either order. In the
breaker the count matters only below or at the threshold; two threads suffice for a
lost update and the threshold of 2 for a failure that opens and one that does not.
Three backups give a first, a second that builds on it and a third that would expose
what the second got wrong; two versions of a text tell old from new. Two segments
give a restore that fails after a part is in, and two savepoints one that is left
open below a second. The year of the archive has the odd day that gives it a month
too many, and the clock passes the end of the year; with one kept key, two rotations
are enough for a pruned one. In `core_calls` a page has a message before the
malformed one and a page before it; two rows pass the threshold of the budget and
three the maximum, so that enforcement runs with something to evict and without; two
faults allow a failure while recovering from another. Two entries and three keys
make a cache full, with a right and a wrong one to drop. Two batches and a row more
give a short batch and an empty one. A string of three has one trigram and two
bigrams, a shorter one is its own gram. Chunks of 2 and 3 cut an object of 5 into
full chunks and a short one, and a chunk of 4 does not fit a frame of 4 with its
tag. Two rows of one message in an index and one of another exceed a limit of 2. Two
processes give a second genesis, and a size of 5 a file that is larger than the
budget.

`SYMMETRY` is used in `store_shared` and `chain_shared`, which check invariants
only. Deadlock is checked in every run.

Fairness. `CircuitBreaker`: `WF(Tick)`, time passes; `WF(Proceed(c))`, a thread that
has called runs on, as the request has a timeout and the sleep between retries
ends. No fairness makes a thread call, and none makes the gateway answer well.
`CoreCalls`: `WF(Ingestion(t))` for pollers: the host polls, and a call that has
begun goes on. Nothing is assumed of the clock, of the archive, of the other
calls or of faults, which the bound alone ends. `ReadPool`: `SF(Turn(c))` and
`SF(Take(c))`, because a mutex of the standard library is not fair and a thread
may be passed by, but not for ever while the mutex becomes free again and again;
`WF(Proceed(c))`: a query ends. `Parts` restates it for the behaviours in which the
pool moves.

## 4. Disagreements: where the code and its documentation disagree

`PROJECT.json` "findings" quotes the lines for `restore_key`. The following are
stated as properties of their modules, with the run whose constants, and the
constants to change in it, violate them; they are kept because a change of the
code should make them hold. For the modules in `parts` the property is that of
the module, and "as in `parts`" means that no constant is changed.

| Module | Property | Constants | What happens |
|---|---|---|---|
| `MessageStore` | `IngestedOnce` | `store_shared`, `MaxEvents = 2` | two threads pass the duplicate check on the read pool and both create the message |
| `MessageStore` | `DeletedNeverFound` | `store_shared` | an edit that read the row before a delete indexes the deleted message again |
| `MessageStore` | `DeletedMarkIsState` | `store_shared` | an eviction planned before a delete takes the body out of its end state |
| `MessageStore` | `FollowsLifecycle` | `store_shared` | of two deletes that both saw the message there the later writes over the end state of the other |
| `MessageStore` | `SentIsJournaled` | `store_serial` | `mark_sent` stops between its two statements |
| `MessageStore` | `FoundTextStored` | `store_serial` | editing a message without a body indexes a text that is not stored |
| `MessageStore` | `IndexesAgree` | `store_serial` | a failing insert into the fuzzy index is ignored and the rest of the savepoint is committed |
| `MessageStore` | `OutboxHasSkeleton` | `store_serial` | a media entry without a caption gets no skeleton, and `mark_sent` refuses it |
| `Migrations` | `NeverRefused` | `migrations` | an altering migration is repeated after an interruption and refused for good |
| `CircuitBreaker` | `AdmitsAgain` | `breaker_shared`, `MaxRetries = 1` | the stores of a success and of a failure interleave and leave an open breaker without an opening time |
| `BackupChain` | `ChainVerifies` | `chain_single`, `Messages = {m1}`, `MaxVersion = 1`, and `Workers = {w1, w2}` or `LostReplies = TRUE` | overlapping backups, or a lost reply, fork the chain |
| `BackupChain` | `ChainVerifies` | `chain_single`, `Messages = {m1}`, `MaxVersion = 1`, `Restarts = TRUE` | the first backup of a new process starts the chain again at generation 0; `save_state` is never called |
| `BackupChain` | `BackupIsCurrent` | `chain_single`, `Messages = {m1}`, `MaxVersion = 1` | a deletion after the backup never reaches it |
| `Restore` | `NeverFails` | `restore_key` | segments are sealed with one key and opened with another |
| `Restore` | `NeverFails` | `restore_alone`, `GatewayFails = FALSE`, `StatementsFail = FALSE` | rebuilding the index begins a transaction in the savepoint |
| `Restore` | `RestoredIsFound` | `restore_alone`, `GatewayFails = FALSE`, `StatementsFail = FALSE` | the skeleton is looked up on the read pool, which does not see the savepoint: restored bodies are not indexed |
| `Restore` | `OkIsCommitted` | `restore_alone` | a failing `RELEASE` is ignored (`restore/pipeline.rs:193`): `execute` says Ok, and nothing that is written after it is committed either until the process ends |
| `Restore` | `IngestedIsKept` | `restore_alone`, `StatementsFail = FALSE` | a message ingested during a failing restore is lost |
| `Restore` | `DoneIsCommitted` | `restore_alone`, `StatementsFail = FALSE`, `Restorers = {r1, r2}`, `Messages = {m1, m2}`, `Backup <- MCSmallBackup` | one restore rolls back what another reports as done |
| `Archive` | `InheritedSegmentsOpen` | `archive`, `MaxSegments = 3` | the keys kept "for restore" (`archive/epoch_keys.rs:11`) are in memory only, and `build_manifest` drops those it is given: after a restart `epoch_key` answers `None` for the epochs of segments that manifests name |
| `CoreCalls` | `EverythingArrives` | `core_calls`, `Malformed = {3}`, `MaxFaults = 0` | a page with a message that does not validate is given up each time it is fetched; what stands behind it never arrives |
| `CoreCalls` | `PressureEases` | `core_calls`, `MaxFaults = 0` | eviction changes a state and deletes no byte, so the database stays above its maximum |
| `CoreCalls` | `EnforcedSparingly` | `core_calls`, `Threads = Pollers = {poller, poller2}`, `MaxFaults = 0` | both read `last_enforcement_ms` before one of them stamps it |
| `CoreCalls` | `RemoteIsThere` | `core_calls` | rows that say `remote_original` stay when the upload fails, and no one uploads again |
| `CoreCalls` | `MediaIsComplete` | `core_calls` | hydration ingests a message without its descriptors, and later ingestion takes it for a duplicate |
| `CoreCalls` | `EvictedIsArchived` | `core_calls` | the plan of an eviction is applied to a row that `INSERT OR REPLACE` has set back meanwhile |
| `ReadPool` | deadlock | `StatsAlone = FALSE`, or `PoolSize = 0` | `get_storage_stats` keeps one connection and asks for another; in memory there is only one |
| `ReadPool` | `ReadsInParallel` | as in `parts` | a reader that waits for a busy connection keeps the mutex of the index, and the others wait behind it while connections are free |
| `ShardCache` | `DropsLeastRecent` | `CacheThreads = {t1, t2}` | an older stamp is stored after a newer one, and the wrong entry goes |
| `MediaCache` | `AlwaysWithinBudget` | as in `parts` | a file larger than `max_bytes` is stored after everything else was removed; a new process counts from 0 over a full directory; a removal that fails counts as done |
| `MediaCache` | `CountIsTrue` | as in `parts` | a file that is stored again is counted twice |
| `DeviceVault` | `KeysStay` | `Registrars = {r1, r2}` | of two registrations at a time the later write drops the key of the other |
| `DeviceVault` | `KeysSurvive` | as in `parts` | a process that ends, or a write that fails, between emptying and writing leaves a file that does not parse, which the next registration takes for none, as it does a file that cannot be read once |
| `BackupStream` | `StreamsAllThatStays` | as in `parts` | a row that leaves moves the others below the offset, and one is skipped |
| `Search` | `DeletedNeverFound` | as in `parts` | an edit that passed its check before a delete indexes the message again, and the full-text query does not look at `deleted_at_ms` |
| `Search` | `MatchIsNotCrowdedOut` | as in `parts` | the limit is applied to the query, before the filters |
| `Search` | `CaptionIsFound` | as in `parts` | `send_media` stores a caption and indexes nothing |
| `Search` | `NeverPanics` | as in `parts` | `generate_snippet` slices at byte offsets that need not be the beginning of a character |
| `Search` | `StaysInScope` | `InScope = {1}` | the fuzzy search does not ask about the conversation, nor do the filters |
| `Search` | `BestFirst` | `Wanted = {1, 2}` | the score `1 / (1 + abs(rank))` is smaller for better matches |
| `Search` | `SnippetMatches` | as in `parts` | an edit or a delete between the queries leaves a hit without a matching text |
| `Timeline` | `PagesShowAll` | `Distinct = FALSE` | `before_ms` skips what has the time of the last row of a page |
| `Timeline` | `PagesShowAll`, `SeededTakesMessages` | `Binding = "napi"` | an id in another spelling names another conversation |
| `Timeline` | `NewestIsLast` | as in `parts` | the message that came last is noted, not the newest |
| `Timeline` | `NamesItsLast` | as in `parts` | seeding a conversation again forgets its last message |
| `StateColumns` | `MediaLifecycle` | `HostAlone = FALSE` | an eviction is applied to an asset that has moved on since the plan |
| `StateColumns` | `BackedUpIsKept` | as in `parts` | a delivery that found no row replaces the row that another thread has inserted and backed up since, and sets it back to `not_backed_up` |
| `StateColumns` | `BackupLifecycle` | as in `parts` | a backup goes from the first state of the line to the last |
| `StateColumns` | `StageTellsTruth` | as in `parts` | the stage says that the rows are reconstructed before they are in |
| `Manifests` | `AcceptedIsAll` | as in `parts` | nothing in a list says that its end is missing, or that another process has published a chain too |
| `Manifests` | `AcceptedIsSound` | as in `parts` | no link covers the last manifest, and a restore does not look at its signatures |
| `Manifests` | `KeptVerifies` | as in `parts` | a second process begins again at generation 0, and a POST that is repeated after it was applied stands in the list twice |
| `ConvergentObjects` | `CutIsNoticed` | as in `parts` | no frame says that it is the last one |
| `KeySchedule` | `OpensAgain` | as in `parts` | a backup segment is sealed with the backup root itself and opened with the key of an archive segment |
| `KeySchedule` | `OneKeyOneUse` | as in `parts` | the database and the device vault have the same key, and so have all segments of all backups |
| `EpochRotation` | `EpochsLast` | `Hosts = {h1, h2}`, `Cadence = 2` | two threads see that a rotation is due and both rotate |

## 5. Proofs

TLAPS checks, for every value of the constants:

- `MessageStoreProofs!TypeCorrect`: `Spec => []TypeOK`.
- `FuzzyIndexNeverStale`: the fuzzy index has no gram of a text that the full-text
  index does not hold, whatever inserts into it fail. Inductive with the type
  invariant alone. That it holds all of them is not true (section 4).
- `RowsAreReferred` and `TombstonesStayEmpty`: no body, media or full-text row
  without a skeleton, and no text under a message deleted for everyone. Neither
  is inductive: an edit or a delete that has begun commits without looking at the
  row again. The strengthening `RowInv` adds `JobsHaveRow`, that the message of
  such a job has a skeleton; it is preserved because no operation removes one
  (`RowsStay`). `TombstonesStayEmpty` needs no condition on what a job has read:
  deleting removes the body row, the edit is an UPDATE that then changes no row,
  and the ingestion that could bring the row back gives it a new state.
- `MigrationsProofs!VersionAlwaysHonest`, `OpenedAlwaysComplete`,
  `VersionsOnlyGrow`: the three properties of `migrations`, for any number of
  versions of which any may be altering ones. The invariant relates the place in
  `init_connection`, the version it read and the migrations it ran.
- `ArchiveProofs!TypeCorrect`, `EpochNeverAhead`, `AcceptedNeverForgotten`,
  `NamedAlwaysUploaded` and `RecentAlwaysOpen`: the properties of `archive` and two
  more, for any calendar, cap and number of kept keys. `EpochNeverAhead` rests on
  `EpochOfGrows`: the epoch of a day is not less than that of the day before, at
  the end of a year either, for which `CalendarAssumption` asks that a year has
  no more than one month too many. `RecentSegmentsOpen` is not inductive; `KeyInv`
  adds that the wrapped keys are those of consecutive epochs up to the current
  one, and that segments of this process are among them until keys are pruned.
- `CircuitBreakerProofs!TypeCorrect` and `LateAtMostOnce`: the types, and at most
  one late request per thread, for any number of threads, threshold, recovery
  time and retries. `OneLateRequest` is not inductive; the strengthening says
  that a closed breaker has no late requests to count and that an admitted
  thread has sent none since the breaker opened.
- `BackupChainProofs!NamedSegmentsExist` and `MarkedMessagesRecoverable`: the two
  invariants of `chain_shared`, for any number of workers and messages. The
  strengthening `JobsAreSound` follows the order of a backup's steps: the
  skeletons it holds were read before the bodies, so a message that is still
  live has one of its texts among them; its segment is at the gateway before its
  manifest, and both before it marks. `StoreOnlyStays` is where the store comes
  in: no change takes a row away or a version back, except for deletions, which
  the property allows for.
- `BackupChainProofs!BackupImplementsChain`: the refinement `PublishesOneChain`
  under `RunsAlone` (one worker, no restarts, no lost replies, as in
  `chain_single`). `InStep` relates the coordinator's generation and hash to the
  tip of the published chain, with `finalize` as the one place where they lag.
- `RestoreProofs!TypeCorrect` for any number of restorers, and
  `RestoreAloneIsAtomic` under `RunsAlone` for any backup, either key and any
  failure, those of statements, of the rollback and of the release among them.
  `Progress` says for each place of the pipeline what the open savepoint rolls back
  to and which segments the write connection has; a write of another thread only
  adds to what it has (`WriteKeepsProgress`).
- `CoreCallsProofs!TypeCorrect`, `CursorIsCovered`, `BlobsHaveRows` and
  `EvictedIsReadable`: the four invariants of `core_calls`, for any threads,
  conversation, page size, budget and cooldown. `JobsAreSound` is what a call
  knows of the store in each of its steps: up to the page's end every message is
  stored or still on the page, an upload has its rows, what is planned for
  eviction has its text. It outlives the steps of other threads because rows,
  texts and assets' rows are never taken away (`StoreOnlyGrows`).
- `MessageStoreProofs!JournalTellsRows`: `JournalExplainsRow` for any workers. Every
  savepoint but those of `send_media` and of an eviction logs an event with the row
  that it writes; the former's rows are told by their ids, which no outbox entry has
  (`QueuedStays`, `RowAppears`), the latter writes nothing that the journal tells.
  So what a replay of the journal gives after one more event (`ReplayOfAppend`) is
  what the row became, whatever the operation had read before.
- `MessageStoreProofs!AloneIngestsOnce`, `AloneReadersAgree` and
  `AloneFollowsLifecycle`: what one worker (`RunsAlone`, as in `store_serial`)
  keeps, the refinement of `BodyLifecycle` among it. With two workers TLC violates
  all three (section 4), so the condition is needed. `AloneInv` adds that what the
  worker's operation read early still holds when it commits (`CheckHolds`), which
  is what another worker would break, and that the tables agree about each message
  (`Consistent`).
- `BackupChainProofs!GenerationsAreBounded`: `TypeOK` of `BackupChain`, whose bound on
  the generation takes a count. `GenerationsCounted` says that the generation and
  the payloads that are prepared and not yet finalized are together no more than
  the payloads prepared, and `OpenAreDistinct` that no two workers hold the same.
- `CoreCallsProofs!EnforcementKeepsPace`: `EnforcedSparingly` with one poller
  (`OnePoller`). Of the threads only the poller enforces automatically, so the
  instant it read is still the last one when it writes the next; two pollers
  violate it (section 4).
- `PartsProofs`: the part properties of `parts`. A step of the whole is a step of
  each part or leaves it alone (`PartsMove`), so each theorem finds its invariant
  in its own part.
  - `KeysAreSeparate` under `OneHost`: keys and associated data of two uses differ,
    but for segments of backups, whose key no reader derives. Ids are byte strings
    of any length; that the length before the first of two ids tells where it ends
    is `TwoIdsTellBoth`. `KeysAreNeverReused` is the half about rotations that holds
    with any number of hosts.
  - `ManifestsTellTruth`, without a condition: a list that is accepted is the
    beginning of what one process published. `Linked` describes each published
    manifest, and the accepted list is followed from its first one by induction.
  - `ColumnsOnlyAdvance` under `HostAlone`, up to the deliveries that replace a row:
    `OnWay` gives the place of a restore on its way and what that says of its stage
    and of the rows.
  - `BatchesReadAll`: `SentUpTo` says that what was sent is what stood before the
    offset of the next query, of the rows there at the beginning, each once; rows
    that come are put behind, so that offsets keep their meaning, which is what a
    row that leaves would break (`gone`).
  - `PagingShowsAll` under `Binding = "uniffi"` and `Distinct`: of the messages that
    were there, those before the cursor are yet to be shown and the others have
    been shown once. A page is a list without repetition of the newest before
    the cursor, and its last time is the least on it.
  - `FilesStay` under `OneRegistrar`. For the keys: what a registration holds in
    memory has the keys of all that were answered since a read or a write last
    failed. For the media, `CacheWithinBudget` needs no condition: files are counted
    byte by byte (`Bytes`), so that facts on finite sets say that a smaller set has
    no more of them and separate sets add up. `MediaInv` says that the bytes on disk
    are no more than the count, which overwriting makes too large and never too
    small (section 4), and no more than the budget or of one file alone;
    `OldestAreDropped` is the step from the rule of each file to the total of those
    that stay.
  - `LeastRecentIsDropped` under `OneSearcher`: `ShardCache` implements `LruCache`
    step by step. The mapping reads from the stamps which key was used before
    which; it is that of an LRU cache because each stamp belongs to one entry and
    the call that is under way has the latest, which a second thread would break
    (section 4). `TouchedIsLast` is the step that all calls share.
  - `SearchesFind`, without a condition. Of `Search`: from its first read to its
    last a search has every message that matches throughout it, unless a limit has
    cut a list, which `cut` records, and a deleted message has index rows only if a
    call wrote late (`late`), or got them during the search; a list without
    repetition as long as a set has all of it (`ListedAll`), so that no order can
    lose a row. Of `FuzzyMatch`, `ScoresAreDistances` needs no condition:
    `DistanceFromThree` is the equation of the edit distance, that the least cost of
    aligning two prefixes is the least of three, from how an alignment that has or
    has not the last pair shortens to one of shorter prefixes. A row exists because
    each cell determines the next, by induction over the columns (`RowExists`), and
    each row has distances if the one before had. A distance is 0 of equal strings
    alone (`NothingToPay`), and two tokens that are equal up to case have a gram in
    common (`WordsShareGram`), as cases of the script and of the length.
  - `ObjectsAreOpened`: `Framed` lists the offsets of the object together with the
    place in the stream where the frame of each begins. The decisive lemma is
    `SoundIsFrame`: where a frame begins no other length than its own passes the
    tag, because a shorter body does not end with the tag and a longer one has cells
    of the next frame. What is refused whole is refused for its sizes alone. Like
    all of `KeySchedule` this takes the algorithms for granted: a tag stands for the
    text that it authenticates.
  - `PartsTyped`: `TypeOK` of every part, without a condition. Where a part's types
    are not inductive the strengthening says why they hold: what the gateway lists
    was posted by a process, and a generation is no more than what was posted
    (`ListsTypes`); what is opened of an object counts from 1 and ends where sealing
    has come to (`ObjectsTypesHold`); a stage is that of a place on the way of the
    restore (`ColumnsTypesHold`); the list of a page or of hits has members of the
    set it was cut from (`TypesOfPage`, `TypesWhenSearched`). There are a shard, a
    device and something a manifest can say, and room for a manifest, so that what
    `Init` chooses exists.

The conditions are those of the runs: `RunsAlone`, `OnePoller`, `OneHost`,
`OneRegistrar`, `OneSearcher` and `HostAlone` say that one thread does it; `Binding`
and `Distinct` choose the variant of section 4 in which the code does what is
documented. Induction over the naturals, which the library states with an operator,
is used in the form of a set (`Inductive`: a set of naturals with zero and every
successor has them all), from the well-foundedness of `<`.

Assumptions are the named `ASSUME`s of the modules, which TLC evaluates on every
run. The type invariants of `MessageStore` and `Archive` and `EpochIsNotAhead` are
proved and therefore in no run.

Only model-checked: liveness (`AdmitsAgain`, `CallsEnd`, `ArrivesUpToMalformed`,
`CallsReturn`), which the prover does not handle. What the recursive function of `Row`
computes is proved; it is the only recursion of the models.

## 6. Not modelled

- Contents of encrypted data, CBOR and field validation, embeddings, classifiers,
  captions and the inference models: pure functions of their input. The
  cryptographic algorithms are those of libraries: a key stands for its
  derivation, a hash or a signature for what it covers, a tag for its text.
- The semantic search and the search of cold shards, which have no embedder and
  no shards in this build and return nothing; how FTS5 matches and ranks, beyond
  the sign of its rank.
- The scores that order the candidates of an eviction. `MessageStore` lets any
  subset be planned, `CoreCalls` takes the oldest first.
- `upload` and `download` of `media/`, which return `NotImplemented`; thumbnails
  and chunk arithmetic.
- Code that nothing in the core calls: the coalescer and the deduplication bridge
  of the transport, key recovery, compaction, the routing, prefetch and privacy
  helpers of the archive, the tables of the quota and of tenants.
- Pinning and muting, `checkpoint` and the size of the WAL, and the pruning of the
  journal, whose events nothing reads.
- SQLite's own durability, and the gateway beyond what it keeps and in which
  order. The paths of its resources are left out: the sink of the archive posts to
  `/v1/chat/archive/segments` and a restore asks for `/v1/chat/backup/segment`,
  which no model compares.

## 7. Plan

In this order next:

1. `AtomicRestore`: the store is the old or the restored one, as an abstract
   specification that `Restore` implements when it runs alone.
2. The scores that order evictions and the batches of the shard builder, against
   reference definitions over bounded inputs.
