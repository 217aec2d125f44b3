------------------------------- MODULE CoreCalls -------------------------------
(***************************************************************************)
(* The calls of CoreImpl (core_impl.rs) that go between the gateway and    *)
(* the local store: ingestion of delivery pages, the storage budget that   *)
(* it enforces, hydration, and the sending of media.                       *)
(*                                                                         *)
(* Grain of atomicity.  A fetch, a look through the read pool, a savepoint *)
(* and a single UPDATE are a step each, and so are the accesses to the     *)
(* mutex last_enforcement_ms; threads interleave between them.             *)
(*                                                                         *)
(* Data.  A conversation of the gateway is the numbers 1..Log in delivery  *)
(* order and a cursor is the last number seen.  Every row set takes one    *)
(* unit of the database file, which no UPDATE shrinks; bodies have one     *)
(* unit of text, and a message is as old as its number is small.           *)
(***************************************************************************)
EXTENDS Integers, Sequences, FiniteSets, SequencesExt

CONSTANTS
    Threads,     \* threads of the host
    Pollers,     \* those of them that ingest; the others make the other calls
    Log,         \* how many messages the conversation gets
    HasText, HasMedia,
    Malformed,   \* messages that validate refuses
    Assets,      \* media the user sends
    PageSize,    \* of the gateway
    SchemaSize,  \* of the database file without messages
    MaxDb,       \* max_db_bytes
    Cooldown,    \* 60 s
    Unset,       \* the None of last_enforcement_ms
    MaxTime, MaxFaults   \* bounds: the last instant; crashes and errors

ASSUME CoreCallsAssumption ==
    /\ Pollers \subseteq Threads
    /\ Log \in Nat /\ PageSize \in Nat \ {0}
    /\ HasText \cup HasMedia = 1..Log /\ Malformed \subseteq 1..Log
    /\ MaxDb \in Nat /\ SchemaSize \in Nat /\ Cooldown \in Nat
    /\ MaxTime \in Nat /\ MaxFaults \in Nat /\ Unset \notin Nat

VARIABLES
    row,         \* message_skeleton.body_state, "none" without a row
    text,        \* messages with a message_body row
    media,       \* messages with their media_asset rows
    archived,    \* archive_state is archive_verified
    sent,        \* assets with rows of their own
    blobs,       \* gateway: uploaded media blobs
    cursor,      \* the host's cursor
    last,        \* last_enforcement_ms
    now,         \* the wall clock
    job,         \* per thread: the call under way
    faults,      \* bound on crashes and errors
    enforcedAt   \* history: clock reading of the last automatic enforcement

store == <<row, text, media, archived, sent>>
vars == <<store, blobs, cursor, last, now, job, faults, enforcedAt>>

Messages == 1..Log
BodyStates == {"none", "local_plain_available", "remote_archive_only"}
Times == 0..MaxTime
Steps == {"idle", "fetch", "check", "insert", "budget", "cooldown", "plan", "evict",
          "stamp", "return", "hydrate", "upload"}

(* page: what is left of it; next: its next_cursor; seen: the clock reading; *)
(* plan: bodies still to evict; call: which method runs.                     *)
Idle == [step |-> "idle", call |-> "none", of |-> 0, page |-> <<>>, next |-> 0,
         seen |-> Unset, plan |-> {}]

TypeOK ==
    /\ row \in [Messages -> BodyStates]
    /\ text \subseteq HasText /\ media \subseteq HasMedia
    /\ archived \subseteq Messages
    /\ sent \subseteq Assets /\ blobs \subseteq Assets
    /\ cursor \in 0..Log
    /\ last \in Times \cup {Unset} /\ enforcedAt \in Times \cup {Unset}
    /\ now \in Times
    /\ faults \in 0..MaxFaults
    /\ \A t \in Threads :
          /\ job[t].step \in Steps
          /\ job[t].call \in {"none", "ingest", "enforce", "hydrate", "send_media"}
          /\ Range(job[t].page) \cup job[t].plan \subseteq Messages
          /\ job[t].seen \in Times \cup {Unset}

Init ==
    /\ row = [m \in Messages |-> "none"]
    /\ text = {} /\ media = {} /\ archived = {} /\ sent = {} /\ blobs = {}
    /\ cursor = 0
    /\ last = Unset /\ enforcedAt = Unset
    /\ now = 0
    /\ job = [t \in Threads |-> Idle]
    /\ faults = 0

Stored(m) == row[m] # "none"
Size == SchemaSize + Cardinality({m \in Messages : Stored(m)}) + Cardinality(sent)

At(t, step) == job[t].step = step
Goto(t, step) == job' = [job EXCEPT ![t].step = step]
Return(t) == job' = [job EXCEPT ![t] = Idle]

(* An error ends the call: the transport, a statement, the file system.      *)
Fault == faults < MaxFaults /\ faults' = faults + 1

PageAfter(c) == [i \in 1..(IF Log - c < PageSize THEN Log - c ELSE PageSize) |-> c + i]

--------------------------------------------------------------------------------
(* ingest_remote_messages: the page                                         *)

BeginIngest(t) ==
    /\ t \in Pollers
    /\ At(t, "idle")
    /\ job' = [job EXCEPT ![t] = [Idle EXCEPT !.step = "fetch", !.call = "ingest"]]
    /\ UNCHANGED <<store, blobs, cursor, last, now, faults, enforcedAt>>

(* The host passes the cursor it has.                                       *)
Fetch(t) ==
    /\ At(t, "fetch")
    /\ job' = [job EXCEPT ![t].step = "check",
                          ![t].page = PageAfter(cursor),
                          ![t].next = cursor + Len(PageAfter(cursor))]
    /\ UNCHANGED <<store, blobs, cursor, last, now, faults, enforcedAt>>

(* validate_ingest: hydration hands over no descriptors, and what is left of *)
(* a message without a text is nothing.                                      *)
Refused(t, m) == m \in Malformed \/ (job[t].call = "hydrate" /\ m \notin HasText)

(* Mutant: the page is validated before anything of it is persisted. *)
CheckWholePage(t) ==
    /\ At(t, "check")
    /\ job[t].page # <<>>
    /\ LET m == Head(job[t].page)
           hydrating == job[t].call = "hydrate"
       IN IF (\E p \in Range(job[t].page) : Refused(t, p)) \/ (hydrating /\ Stored(m))
          THEN Return(t)
          ELSE IF Stored(m)
          THEN job' = [job EXCEPT ![t].page = Tail(@)]
          ELSE Goto(t, "insert")
    /\ UNCHANGED <<store, blobs, cursor, last, now, faults, enforcedAt>>

(* validate, then the duplicate check of persist_ingested_message, which     *)
(* validates too.  Hydration takes a duplicate for an error.                 *)
Check(t) ==
    /\ At(t, "check")
    /\ job[t].page # <<>>
    /\ LET m == Head(job[t].page)
           hydrating == job[t].call = "hydrate"
       IN IF Refused(t, m) \/ (hydrating /\ Stored(m))
          THEN Return(t)
          ELSE IF Stored(m)
          THEN job' = [job EXCEPT ![t].page = Tail(@)]
          ELSE Goto(t, "insert")
    /\ UNCHANGED <<store, blobs, cursor, last, now, faults, enforcedAt>>

(* Mutant: every message gets a media row. *)
InsertMediaOfAll(t) ==
    /\ At(t, "insert")
    /\ LET m == Head(job[t].page)
           bare == job[t].call = "hydrate"
       IN /\ row' = [row EXCEPT ![m] = "local_plain_available"]
          /\ archived' = archived \ {m}
          /\ media' = IF bare THEN media ELSE media \cup {m}
          /\ text' = text \cup ({m} \cap HasText)
          /\ UNCHANGED sent
          /\ job' = [job EXCEPT ![t].step = "check", ![t].page = Tail(@)]
    /\ UNCHANGED <<blobs, cursor, last, now, faults, enforcedAt>>

(* The savepoint: INSERT OR REPLACE of the skeleton, the descriptors' rows   *)
(* and the body, if the message has them.  Hydration drops the descriptors.  *)
Insert(t) ==
    /\ At(t, "insert")
    /\ LET m == Head(job[t].page)
           bare == job[t].call = "hydrate"
       IN /\ row' = [row EXCEPT ![m] = "local_plain_available"]
          /\ archived' = archived \ {m}
          /\ media' = IF bare THEN media ELSE media \cup ({m} \cap HasMedia)
          /\ text' = text \cup ({m} \cap HasText)
          /\ UNCHANGED sent
          /\ job' = [job EXCEPT ![t].step = "check", ![t].page = Tail(@)]
    /\ UNCHANGED <<blobs, cursor, last, now, faults, enforcedAt>>

(* Mutant: an error of one message does not end the page. *)
InsertFailsQuietly(t) ==
    /\ At(t, "insert")
    /\ Fault
    /\ job' = [job EXCEPT ![t].step = "check", ![t].page = Tail(@)]
    /\ UNCHANGED <<store, blobs, cursor, last, now, enforcedAt>>

(* The savepoint is rolled back, and the page is given up with its cursor.   *)
InsertFails(t) ==
    /\ At(t, "insert")
    /\ Fault
    /\ Return(t)
    /\ UNCHANGED <<store, blobs, cursor, last, now, enforcedAt>>

PageDone(t) ==
    /\ At(t, "check")
    /\ job[t].page = <<>>
    /\ IF job[t].call = "hydrate" THEN Return(t) ELSE Goto(t, "budget")
    /\ UNCHANGED <<store, blobs, cursor, last, now, faults, enforcedAt>>

--------------------------------------------------------------------------------
(* ingest_remote_messages: the budget                                       *)

Budget(t) ==
    /\ At(t, "budget")
    /\ IF MaxDb > 0 /\ Size > (MaxDb * 80) \div 100
       THEN job' = [job EXCEPT ![t].step = "cooldown", ![t].seen = now]
       ELSE Goto(t, "return")
    /\ UNCHANGED <<store, blobs, cursor, last, now, faults, enforcedAt>>

(* Mutant: the cooldown is over one instant early. *)
CooldownEndsEarly(t) ==
    /\ At(t, "cooldown")
    /\ IF last = Unset \/ job[t].seen - last >= Cooldown THEN Goto(t, "plan") ELSE Goto(t, "return")
    /\ UNCHANGED <<store, blobs, cursor, last, now, faults, enforcedAt>>

CheckCooldown(t) ==
    /\ At(t, "cooldown")
    /\ IF last = Unset \/ job[t].seen - last > Cooldown THEN Goto(t, "plan") ELSE Goto(t, "return")
    /\ UNCHANGED <<store, blobs, cursor, last, now, faults, enforcedAt>>

(* Whatever became of the enforcement.                                       *)
Stamp(t) ==
    /\ At(t, "stamp")
    /\ last' = job[t].seen
    /\ Goto(t, "return")
    /\ UNCHANGED <<store, blobs, cursor, now, faults, enforcedAt>>

(* The host stores next_cursor when the call returns Ok.                     *)
Deliver(t) ==
    /\ At(t, "return")
    /\ cursor' = job[t].next
    /\ Return(t)
    /\ UNCHANGED <<store, blobs, last, now, faults, enforcedAt>>

--------------------------------------------------------------------------------
(* enforce_storage_budget, called by the loop or by the host                 *)

BeginEnforce(t) ==
    /\ t \notin Pollers
    /\ At(t, "idle")
    /\ job' = [job EXCEPT ![t] = [Idle EXCEPT !.step = "plan", !.call = "enforce"]]
    /\ UNCHANGED <<store, blobs, cursor, last, now, faults, enforcedAt>>

(* fetch_evictable_bodies does not ask for the body state.                   *)
Evictable == {m \in text : m \in archived}

(* Oldest first, until the excess is covered.                                *)
Planned ==
    {m \in Evictable : Cardinality({k \in Evictable : k < m}) < Size - MaxDb}

Plan(t) ==
    /\ At(t, "plan")
    /\ enforcedAt' = IF job[t].call = "ingest" THEN job[t].seen ELSE enforcedAt
    /\ job' = [job EXCEPT ![t] =
                 IF Planned # {} THEN [@ EXCEPT !.step = "evict", !.plan = Planned]
                 ELSE IF job[t].call = "ingest" THEN [@ EXCEPT !.step = "stamp"]
                 ELSE Idle]
    /\ UNCHANGED <<store, blobs, cursor, last, now, faults>>

IsNext(t, m) == m \in job[t].plan /\ \A k \in job[t].plan : m =< k

Evicted(t, m) ==
    job' = [job EXCEPT ![t] = IF job[t].plan # {m} THEN [@ EXCEPT !.plan = job[t].plan \ {m}]
                              ELSE IF job[t].call = "ingest"
                              THEN [@ EXCEPT !.step = "stamp", !.plan = {}]
                              ELSE Idle]

(* Mutant: eviction takes the text away with the state. *)
EvictWithText(t) ==
    /\ At(t, "evict")
    /\ \E m \in Messages :
          /\ IsNext(t, m) /\ Evicted(t, m)
          /\ row' = [row EXCEPT ![m] = "remote_archive_only"]
          /\ text' = text \ {m}
    /\ UNCHANGED <<media, archived, sent, blobs, cursor, last, now, faults, enforcedAt>>

(* One UPDATE per body of the plan, whatever the row is by now.              *)
Evict(t) ==
    /\ At(t, "evict")
    /\ \E m \in Messages :
          /\ IsNext(t, m) /\ Evicted(t, m)
          /\ row' = [row EXCEPT ![m] = "remote_archive_only"]
    /\ UNCHANGED <<text, media, archived, sent, blobs, cursor, last, now, faults, enforcedAt>>

(* The rest of the plan is dropped, and the loop ignores the error.          *)
EvictFails(t) ==
    /\ At(t, "evict")
    /\ Fault
    /\ job' = [job EXCEPT ![t] = IF job[t].call = "ingest"
                                 THEN [@ EXCEPT !.step = "stamp", !.plan = {}]
                                 ELSE Idle]
    /\ UNCHANGED <<store, blobs, cursor, last, now, enforcedAt>>

--------------------------------------------------------------------------------
(* hydrate_message: a message with a row is answered from the store, which   *)
(* changes nothing; otherwise the queue looks for the row again.             *)

BeginHydrate(t, m) ==
    /\ t \notin Pollers
    /\ At(t, "idle")
    /\ ~Stored(m)
    /\ job' = [job EXCEPT ![t] = [Idle EXCEPT !.step = "hydrate", !.call = "hydrate", !.of = m]]
    /\ UNCHANGED <<store, blobs, cursor, last, now, faults, enforcedAt>>

(* Without a row the conversation is not known and the request is skipped;   *)
(* with one, the page behind the message is fetched.                         *)
Process(t) ==
    /\ At(t, "hydrate")
    /\ IF Stored(job[t].of) /\ PageAfter(job[t].of) # <<>>
       THEN job' = [job EXCEPT ![t].step = "check", ![t].page = PageAfter(job[t].of)]
       ELSE Return(t)
    /\ UNCHANGED <<store, blobs, cursor, last, now, faults, enforcedAt>>

--------------------------------------------------------------------------------
(* send_media: skeleton, body and asset in one savepoint, then the upload.   *)

(* Mutant: the upload comes first. *)
BeginSendMediaByUpload(t, a) ==
    /\ t \notin Pollers
    /\ At(t, "idle")
    /\ a \notin sent
    /\ blobs' = blobs \cup {a}
    /\ job' = [job EXCEPT ![t] = [Idle EXCEPT !.step = "upload", !.call = "send_media", !.of = a]]
    /\ UNCHANGED <<store, cursor, last, now, faults, enforcedAt>>

BeginSendMedia(t, a) ==
    /\ t \notin Pollers
    /\ At(t, "idle")
    /\ a \notin sent
    /\ sent' = sent \cup {a}
    /\ job' = [job EXCEPT ![t] = [Idle EXCEPT !.step = "upload", !.call = "send_media", !.of = a]]
    /\ UNCHANGED <<row, text, media, archived, blobs, cursor, last, now, faults, enforcedAt>>

Upload(t) ==
    /\ At(t, "upload")
    /\ blobs' = blobs \cup {job[t].of}
    /\ Return(t)
    /\ UNCHANGED <<store, cursor, last, now, faults, enforcedAt>>

(* A fetch or an upload is answered with an error; an upload may have been   *)
(* applied.  The rows stay.                                                  *)
TransportFails(t) ==
    /\ \/ At(t, "fetch") /\ UNCHANGED blobs
       \/ At(t, "hydrate") /\ Stored(job[t].of) /\ UNCHANGED blobs
       \/ At(t, "upload") /\ blobs' \in {blobs, blobs \cup {job[t].of}}
    /\ Fault
    /\ Return(t)
    /\ UNCHANGED <<store, cursor, last, now, enforcedAt>>

--------------------------------------------------------------------------------

Tick == now < MaxTime /\ now' = now + 1
        /\ UNCHANGED <<store, blobs, cursor, last, job, faults, enforcedAt>>

(* The archive verifies what it holds (elsewhere in the host).               *)
Archive(m) ==
    /\ Stored(m) /\ m \notin archived
    /\ archived' = archived \cup {m}
    /\ UNCHANGED <<row, text, media, sent, blobs, cursor, last, now, job, faults, enforcedAt>>

Crash ==
    /\ Fault
    /\ job' = [t \in Threads |-> Idle]
    /\ last' = Unset /\ enforcedAt' = Unset
    /\ UNCHANGED <<store, blobs, cursor, now>>

(* A host that has lost its cursor begins again: None is the first page.     *)
StartOver ==
    /\ Fault
    /\ \A t \in Pollers : At(t, "idle")
    /\ cursor' = 0
    /\ UNCHANGED <<store, blobs, last, now, job, enforcedAt>>

Ingestion(t) ==
    \/ BeginIngest(t) \/ Fetch(t) \/ Check(t) \/ Insert(t) \/ PageDone(t)
    \/ Budget(t) \/ CheckCooldown(t) \/ Plan(t) \/ Evict(t) \/ Stamp(t) \/ Deliver(t)

OtherCall(t) ==
    \/ InsertFails(t) \/ BeginEnforce(t) \/ EvictFails(t)
    \/ \E m \in Messages : BeginHydrate(t, m)
    \/ Process(t)
    \/ \E a \in Assets : BeginSendMedia(t, a)
    \/ Upload(t) \/ TransportFails(t)

Next ==
    \/ \E t \in Threads : Ingestion(t) \/ OtherCall(t)
    \/ \E m \in Messages : Archive(m)
    \/ Tick
    \/ Crash
    \/ StartOver

(* The host polls, and a call that has begun goes on.                        *)
Spec == Init /\ [][Next]_vars /\ \A t \in Pollers : WF_vars(Ingestion(t))

--------------------------------------------------------------------------------

(* Whatever failed and whenever the process died, everything up to the      *)
(* host's cursor is in the store: a page is given up with its cursor.       *)
NothingSkipped == \A m \in 1..cursor : Stored(m)

(* With finitely many errors and crashes all that precedes the first        *)
(* malformed message arrives, those of its own page included.               *)
ArrivesUpToMalformed ==
    \A m \in Messages : (\A p \in Malformed : m < p) => <>Stored(m)

(* Automatic enforcement runs at most once per cooldown in a process with   *)
(* one poller, by the clock that it reads.                                  *)
EnforcedSparingly ==
    [][enforcedAt # Unset /\ enforcedAt' # enforcedAt
         => enforcedAt' = Unset \/ enforcedAt' - enforcedAt > Cooldown]_vars

(* Every blob at the gateway belongs to rows of the store: rows are written *)
(* before the upload, and stay when it fails.                               *)
BlobHasRows == blobs \subseteq sent

(* An evicted body is still readable: no call takes the text of a row away, *)
(* hydration in the middle of ingestion included.                           *)
EvictedHasText == \A m \in Messages : row[m] = "remote_archive_only" => m \in text

--------------------------------------------------------------------------------
(* What the documentation says and the code does not do.                    *)

(* A page with a malformed message is never passed.                         *)
EverythingArrives == \A m \in Messages \ Malformed : <>Stored(m)

(* "Enforce the storage budget by evicting cold data": with bodies to evict *)
(* the database gets below its maximum.                                     *)
PressureEases == [](Size > MaxDb /\ Evictable # {} => <>(Size <= MaxDb))

(* Rows that say remote_original have their blob at the gateway, or a call  *)
(* that still uploads it.                                                   *)
RemoteIsThere ==
    \A a \in sent : a \in blobs \/ \E t \in Threads : At(t, "upload") /\ job[t].of = a

(* A stored message has its media rows, whoever stored it.                  *)
MediaIsComplete == \A m \in HasMedia : Stored(m) => m \in media

(* Only bodies that the archive holds are evicted.                          *)
EvictedIsArchived == \A m \in Messages : row[m] = "remote_archive_only" => m \in archived
================================================================================
