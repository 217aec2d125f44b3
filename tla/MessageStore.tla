----------------------------- MODULE MessageStore ------------------------------
(***************************************************************************)
(* The message tables of the local store and the operations that threads   *)
(* of the host application run on them at the same time: ingest, outbox,   *)
(* edit, delete (message/processor.rs), sending of media and eviction of   *)
(* bodies (core_impl.rs, offload/) and the columns they share              *)
(* (local_store/db.rs, schema.rs).                                         *)
(*                                                                         *)
(* Grain of atomicity.  A public method reads the skeleton through the     *)
(* read pool, lets that connection go, and only then takes the mutex of    *)
(* the write connection and runs one SAVEPOINT.  So an operation is two    *)
(* steps: Begin*, the check on what the row holds now, and Commit*, the    *)
(* writes on what it holds by then.  A savepoint is invisible until it is  *)
(* released and is gone after a crash or an error, so it is one step.      *)
(* mark_sent has no savepoint: its two statements commit one by one.  The  *)
(* inserts into the fuzzy index and the update of the conversation may     *)
(* fail inside a savepoint that is released all the same.                  *)
(*                                                                         *)
(* Data.  One conversation; a text is a value the properties tell apart;   *)
(* a gram in the fuzzy index is represented by the text it comes from; a   *)
(* message has media_asset rows or has none; the journal is kept per       *)
(* message and before pruning.                                             *)
(***************************************************************************)
EXTENDS StateMachines, Naturals, Sequences

CONSTANTS
    Workers,     \* threads of the host that call the core
    Remote,      \* ids of messages other devices send
    Own,         \* UUID v7 ids this device gives: to outbox entries, to media
    Texts,       \* texts a message or an edit can carry
    Original,    \* id -> the text the message is created with, or NoText
    HasMedia,    \* ids whose delivered message carries media descriptors
    NoText, NullText, NoRow, NoMessage, Nobody,
    MaxEvents    \* bound, id -> how many events it has when no operation starts
                 \* on it any more

Messages == Remote \cup Own

ASSUME ConstantsAssumption ==
    /\ Remote \cap Own = {}
    /\ Original \in [Messages -> Texts \cup {NoText}]
    /\ HasMedia \subseteq Messages
    /\ \A m \in Messages : Original[m] = NoText => m \in HasMedia
    /\ NoText \notin Texts
    /\ NullText \notin Texts \cup {NoText}
    /\ NoRow \notin BodyStates
    /\ NoMessage \notin Messages
    /\ Nobody \notin Workers
    /\ MaxEvents \in [Messages -> Nat]

EventTypes == {"message_received", "outbox_pending", "outbox_sent",
               "message_edited", "message_deleted", "media_deleted"}

(* A delete is named by the state it leads to. *)
Ops == {"idle", "ingest", "send", "mark_sent", "edit", "evict"} \cup DeletedBody

VARIABLES
    bodyState,    \* message_skeleton.body_state, NoRow when there is no skeleton
    edited,       \* message_skeleton.edited_at_ms is set
    deleted,      \* message_skeleton.deleted_at_ms is set
    archived,     \* message_skeleton.archive_state = 'archive_verified'
    bodyText,     \* message_body.text_content: NullText when it is NULL, NoText
                  \* when there is no row
    media,        \* ids with media_asset rows
    fts,          \* search_fts: the texts of the rows of an id, oldest first
    fuzzy,        \* search_fuzzy: the texts of which an id has a gram
    outbox,       \* outbox row of an id: "none", "pending" (sent = 0), "sent"
    journal,      \* backup_event_journal: the event types of an id, oldest first
    lastMessage,  \* conversation.last_message_id
    job,          \* what each worker is in the middle of
    lock          \* who holds the mutex of the write connection between steps

rowVars == <<bodyState, edited, deleted, archived, bodyText, media>>
indexVars == <<fts, fuzzy>>
store == <<rowVars, indexVars, outbox, journal, lastMessage>>
vars == <<store, job, lock>>

Idle == [op |-> "idle", msg |-> NoMessage, text |-> NoText, plan |-> {}]

Job(op, m, t) == [op |-> op, msg |-> m, text |-> t, plan |-> {}]

TypeOK ==
    /\ bodyState \in [Messages -> BodyStates \cup {NoRow}]
    /\ edited \in [Messages -> BOOLEAN]
    /\ deleted \in [Messages -> BOOLEAN]
    /\ archived \in [Messages -> BOOLEAN]
    /\ bodyText \in [Messages -> Texts \cup {NoText, NullText}]
    /\ media \subseteq Messages
    /\ fts \in [Messages -> Seq(Texts)]
    /\ fuzzy \in [Messages -> SUBSET Texts]
    /\ outbox \in [Messages -> {"none", "pending", "sent"}]
    /\ journal \in [Messages -> Seq(EventTypes)]
    /\ lastMessage \in Messages \cup {NoMessage}
    /\ job \in [Workers -> [op : Ops, msg : Messages \cup {NoMessage},
                            text : Texts \cup {NoText}, plan : SUBSET Messages]]
    /\ lock \in Workers \cup {Nobody}

Init ==
    /\ bodyState = [m \in Messages |-> NoRow]
    /\ edited = [m \in Messages |-> FALSE]
    /\ deleted = [m \in Messages |-> FALSE]
    /\ archived = [m \in Messages |-> FALSE]
    /\ bodyText = [m \in Messages |-> NoText]
    /\ media = {}
    /\ fts = [m \in Messages |-> <<>>]
    /\ fuzzy = [m \in Messages |-> {}]
    /\ outbox = [m \in Messages |-> "none"]
    /\ journal = [m \in Messages |-> <<>>]
    /\ lastMessage = NoMessage
    /\ job = [w \in Workers |-> Idle]
    /\ lock = Nobody

--------------------------------------------------------------------------------
(* Helpers: one per idea of the code.                                      *)

HasRow(m) == bodyState[m] # NoRow

Room(m) == Len(journal[m]) < MaxEvents[m]

Begin(w, j) == /\ job[w] = Idle
               /\ job' = [job EXCEPT ![w] = j]
               /\ UNCHANGED <<store, lock>>

(* The worker takes the write mutex, runs its savepoint and returns. *)
Finish(w) == /\ lock = Nobody
             /\ job' = [job EXCEPT ![w] = Idle]
             /\ UNCHANGED lock

Log(m, event) == journal' = [journal EXCEPT ![m] = Append(@, event)]

(* Mutant: an upsert that keeps the marks of the row it meets. *)
InsertSkeletonKeepingMarks(m) ==
    /\ bodyState' = [bodyState EXCEPT ![m] = "local_plain_available"]
    /\ archived' = [archived EXCEPT ![m] = FALSE]
    /\ UNCHANGED <<edited, deleted>>

(* INSERT OR REPLACE of a fresh message_skeleton row. *)
InsertSkeleton(m) ==
    /\ bodyState' = [bodyState EXCEPT ![m] = "local_plain_available"]
    /\ edited' = [edited EXCEPT ![m] = FALSE]
    /\ deleted' = [deleted EXCEPT ![m] = FALSE]
    /\ archived' = [archived EXCEPT ![m] = FALSE]

(* INSERT OR REPLACE of the body, plain INSERT into search_fts, INSERT OR  *)
(* IGNORE into search_fuzzy, of which every row may fail unnoticed.  A     *)
(* message without text touches none of them.                              *)
InsertText(m, t) ==
    IF t = NoText
    THEN UNCHANGED <<bodyText, fts, fuzzy>>
    ELSE /\ bodyText' = [bodyText EXCEPT ![m] = t]
         /\ fts' = [fts EXCEPT ![m] = Append(@, t)]
         /\ \E grams \in SUBSET {t} : fuzzy' = [fuzzy EXCEPT ![m] = @ \cup grams]

(* The UPDATE of the conversation, whose failure is ignored.               *)
BumpConversation(m) == lastMessage' \in {lastMessage, m}

--------------------------------------------------------------------------------
(* persist_ingested_message: the delivery store hands out messages of other *)
(* devices and, once they were queued here, this device's own.              *)

(* Mutant: the duplicate check is gone. *)
BeginIngestUnchecked(w, m) ==
    /\ m \in Remote \/ outbox[m] # "none"
    /\ Room(m)
    /\ Begin(w, Job("ingest", m, Original[m]))

BeginIngest(w, m) ==
    /\ m \in Remote \/ outbox[m] # "none"
    /\ ~HasRow(m)
    /\ Room(m)
    /\ Begin(w, Job("ingest", m, Original[m]))

CommitIngest(w) ==
    LET m == job[w].msg IN
    /\ job[w].op = "ingest"
    /\ Finish(w)
    /\ InsertSkeleton(m)
    /\ media' = IF m \in HasMedia THEN media \cup {m} ELSE media
    /\ InsertText(m, job[w].text)
    /\ BumpConversation(m)
    /\ Log(m, "message_received")
    /\ UNCHANGED outbox

--------------------------------------------------------------------------------
(* create_outbox_entry + persist_outbox_entry: the id is a fresh UUID v7.   *)
(* An entry may name a media asset and carry no text.                       *)

BeginSend(w, m) ==
    /\ m \in Own
    /\ outbox[m] = "none"
    /\ \A v \in Workers : job[v].msg # m
    /\ ~HasRow(m)
    /\ \E t \in {Original[m], NoText} : /\ t = NoText => m \in HasMedia
                                       /\ Begin(w, Job("send", m, t))

CommitSend(w) ==
    LET m == job[w].msg IN
    /\ job[w].op = "send"
    /\ Finish(w)
    /\ outbox' = [outbox EXCEPT ![m] = "pending"]
    /\ IF job[w].text = NoText
       THEN UNCHANGED <<rowVars, indexVars, journal, lastMessage>>
       ELSE /\ InsertSkeleton(m)
            /\ InsertText(m, job[w].text)
            /\ BumpConversation(m)
            /\ Log(m, "outbox_pending")
            /\ UNCHANGED media

(* mark_sent, called once MLS delivery confirms: the lookup and the UPDATE  *)
(* of the outbox row commit first, the journal INSERT commits after them,   *)
(* both while the worker holds the write mutex.                             *)

MarkSentOutbox(w, m) ==
    /\ job[w] = Idle
    /\ lock = Nobody
    /\ m \in Own
    /\ outbox[m] # "none"
    /\ HasRow(m)
    /\ Room(m)
    /\ outbox' = [outbox EXCEPT ![m] = "sent"]
    /\ job' = [job EXCEPT ![w] = Job("mark_sent", m, NoText)]
    /\ lock' = w
    /\ UNCHANGED <<rowVars, indexVars, journal, lastMessage>>

MarkSentJournal(w) ==
    /\ job[w].op = "mark_sent"
    /\ lock = w
    /\ Log(job[w].msg, "outbox_sent")
    /\ job' = [job EXCEPT ![w] = Idle]
    /\ lock' = Nobody
    /\ UNCHANGED <<rowVars, indexVars, outbox, lastMessage>>

--------------------------------------------------------------------------------
(* send_media: under a fresh UUID v7 a skeleton, a body row with the        *)
(* caption or NULL, and the asset, in one savepoint.  No index, no outbox,  *)
(* no journal and no conversation row is written, and the upload that       *)
(* follows, failing or not, changes no row.                                 *)

SendMedia(w, m, caption) ==
    /\ job[w] = Idle
    /\ lock = Nobody
    /\ m \in Own
    /\ outbox[m] = "none"
    /\ \A v \in Workers : job[v].msg # m
    /\ ~HasRow(m)
    /\ InsertSkeleton(m)
    /\ bodyText' = [bodyText EXCEPT ![m] = caption]
    /\ media' = media \cup {m}
    /\ UNCHANGED <<indexVars, outbox, journal, lastMessage, job, lock>>

--------------------------------------------------------------------------------
(* edit_message: the UPDATE of message_body changes a row only if there is  *)
(* one, the index row is replaced in any case.                              *)

(* Mutant: the check of the body state is gone. *)
BeginEditUnchecked(w, m, t) ==
    /\ Room(m)
    /\ Begin(w, Job("edit", m, t))

BeginEdit(w, m, t) ==
    /\ bodyState[m] = "local_plain_available"
    /\ Room(m)
    /\ Begin(w, Job("edit", m, t))

(* Mutant: an upsert of the body. *)
UpsertBody(m, t) == bodyText' = [bodyText EXCEPT ![m] = t]

UpdateBody(m, t) ==
    bodyText' = [bodyText EXCEPT ![m] = IF @ = NoText THEN NoText ELSE t]

(* Mutant: the old rows of the fuzzy index stay. *)
ReindexKeepingGrams(m, t) ==
    /\ fts' = [fts EXCEPT ![m] = <<t>>]
    /\ \E grams \in SUBSET {t} : fuzzy' = [fuzzy EXCEPT ![m] = @ \cup grams]

(* Both DELETEs and the INSERT into search_fts succeed or the savepoint is *)
(* rolled back; the inserts of the grams may fail unnoticed.               *)
Reindex(m, t) ==
    /\ fts' = [fts EXCEPT ![m] = <<t>>]
    /\ \E grams \in SUBSET {t} : fuzzy' = [fuzzy EXCEPT ![m] = grams]

CommitEdit(w) ==
    LET m == job[w].msg
        t == job[w].text
    IN
    /\ job[w].op = "edit"
    /\ Finish(w)
    /\ UpdateBody(m, t)
    /\ edited' = [edited EXCEPT ![m] = TRUE]
    /\ Reindex(m, t)
    /\ Log(m, "message_edited")
    /\ UNCHANGED <<bodyState, deleted, archived, media, outbox, lastMessage>>

--------------------------------------------------------------------------------
(* delete_for_me, delete_for_everyone: try_transition is asked about the    *)
(* skeleton that was read, the UPDATE is unconditional.                     *)

(* Mutant: the state machine is not asked. *)
BeginDeleteUnchecked(w, m, target) ==
    /\ HasRow(m)
    /\ Room(m)
    /\ Begin(w, Job(target, m, NoText))

BeginDelete(w, m, target) ==
    /\ BodyMoves(bodyState[m], target)
    /\ Room(m)
    /\ Begin(w, Job(target, m, NoText))

(* Mutant: the index rows are left to a later cleanup. *)
UnindexLater(m) == UNCHANGED indexVars

Unindex(m) ==
    /\ fts' = [fts EXCEPT ![m] = <<>>]
    /\ fuzzy' = [fuzzy EXCEPT ![m] = {}]

CommitDelete(w) ==
    LET m == job[w].msg
        target == job[w].op
    IN
    /\ target \in DeletedBody
    /\ Finish(w)
    /\ bodyState' = [bodyState EXCEPT ![m] = target]
    /\ deleted' = [deleted EXCEPT ![m] = TRUE]
    /\ Unindex(m)
    /\ bodyText' = IF target = "deleted_for_everyone"
                   THEN [bodyText EXCEPT ![m] = NoText]
                   ELSE bodyText
    /\ journal' = [journal EXCEPT ![m] =
                      @ \o IF m \in media
                           THEN <<"message_deleted", "media_deleted">>
                           ELSE <<"message_deleted">>]
    /\ UNCHANGED <<edited, archived, media, outbox, lastMessage>>

--------------------------------------------------------------------------------
(* enforce_storage_budget, its message bodies: one read lists what may go,  *)
(* the planner keeps as many as it needs, then every candidate is updated   *)
(* by its own unconditional statement, in the order of a score.  The length *)
(* of a NULL text is NULL, which the read cannot decode: with one such row  *)
(* listed the call returns an error and evicts nothing.                     *)

Evictable == {m \in Messages : /\ bodyText[m] # NoText
                               /\ archived[m]
                               /\ ~deleted[m]}

PlanEviction(w, plan) ==
    /\ \A m \in Evictable : bodyText[m] # NullText
    /\ plan \subseteq Evictable
    /\ plan # {}
    /\ Begin(w, [Idle EXCEPT !.op = "evict", !.plan = plan])

EvictBody(w, m) ==
    /\ job[w].op = "evict"
    /\ m \in job[w].plan
    /\ lock = Nobody
    /\ bodyState' = [bodyState EXCEPT ![m] = "remote_archive_only"]
    /\ job' = [job EXCEPT ![w] = IF job[w].plan = {m}
                                 THEN Idle
                                 ELSE [job[w] EXCEPT !.plan = @ \ {m}]]
    /\ UNCHANGED <<edited, deleted, archived, bodyText, media, indexVars,
                   outbox, journal, lastMessage, lock>>

(* The host records that the personal archive verified the message.         *)
MarkArchived(m) ==
    /\ HasRow(m)
    /\ ~archived[m]
    /\ lock = Nobody
    /\ archived' = [archived EXCEPT ![m] = TRUE]
    /\ UNCHANGED <<bodyState, edited, deleted, bodyText, media, indexVars,
                   outbox, journal, lastMessage, job, lock>>

--------------------------------------------------------------------------------
(* A statement fails: the savepoint is rolled back, or, in mark_sent and in *)
(* the eviction loop, what was committed stays; the method returns Err.     *)
Fail(w) ==
    /\ job[w].op # "idle"
    /\ job' = [job EXCEPT ![w] = Idle]
    /\ lock' = IF lock = w THEN Nobody ELSE lock
    /\ UNCHANGED store

(* The process dies and is started again: the tables keep what committed.   *)
Crash ==
    /\ job' = [w \in Workers |-> Idle]
    /\ lock' = Nobody
    /\ UNCHANGED store

WorkerStep(w) ==
    \/ \E m \in Messages :
          \/ BeginIngest(w, m)
          \/ BeginSend(w, m)
          \/ MarkSentOutbox(w, m)
          \/ \E caption \in Texts \cup {NullText} : SendMedia(w, m, caption)
          \/ \E t \in Texts : BeginEdit(w, m, t)
          \/ \E target \in DeletedBody : BeginDelete(w, m, target)
          \/ EvictBody(w, m)
    \/ \E plan \in SUBSET Messages : PlanEviction(w, plan)
    \/ CommitIngest(w)
    \/ CommitSend(w)
    \/ MarkSentJournal(w)
    \/ CommitEdit(w)
    \/ CommitDelete(w)
    \/ Fail(w)

Next ==
    \/ \E w \in Workers : WorkerStep(w)
    \/ \E m \in Messages : MarkArchived(m)
    \/ Crash

Spec == Init /\ [][Next]_vars

--------------------------------------------------------------------------------
(* What holds however the workers interleave.                              *)

(* Every row that names a message names one that has a skeleton: bodies,   *)
(* media assets, index rows and the conversation's last message.           *)
ReferentialIntegrity ==
    \A m \in Messages : ~HasRow(m) =>
        /\ bodyText[m] = NoText
        /\ m \notin media
        /\ fts[m] = <<>>
        /\ lastMessage # m

(* A message deleted for everyone has no stored text, whatever an edit, a  *)
(* second delete, an eviction or a redelivery that had begun before does   *)
(* after it.                                                               *)
TombstoneHasNoText ==
    \A m \in Messages :
        bodyState[m] = "deleted_for_everyone" => bodyText[m] = NoText

(* The fuzzy index, written by other statements with another conflict      *)
(* clause and with failures nobody looks at, may lack grams but never has  *)
(* one of a text that the exact index does not hold.                       *)
GramsOfIndexedText ==
    \A m \in Messages : fuzzy[m] \subseteq {fts[m][i] : i \in DOMAIN fts[m]}

CreationEvents == {"message_received", "outbox_pending"}

(* The message is one that send_media wrote, if it is there: an id of this *)
(* device that never was in the outbox.                                    *)
SentAsMedia(m) == m \in Own /\ outbox[m] = "none"

(* The event of type e at position i still counts: the message was not     *)
(* created anew after it.                                                  *)
Stands(m, e, i) ==
    /\ journal[m][i] = e
    /\ \A k \in DOMAIN journal[m] : k > i => journal[m][k] \notin CreationEvents

(* Replaying the journal of a message gives the marks its skeleton has: a  *)
(* consumer of backup events can rebuild edit and deletion of every        *)
(* message and the existence of those that send_media did not write.       *)
JournalExplainsRow ==
    \A m \in Messages :
        /\ HasRow(m) /\ ~SentAsMedia(m)
               <=> \E i \in DOMAIN journal[m] : journal[m][i] \in CreationEvents
        /\ deleted[m] <=> \E i \in DOMAIN journal[m] : Stands(m, "message_deleted", i)
        /\ edited[m] <=> \E i \in DOMAIN journal[m] : Stands(m, "message_edited", i)

--------------------------------------------------------------------------------
(* What holds when one worker at a time uses the store, and not otherwise. *)

(* Re-ingesting a message is a no-op: it is created once in its life.      *)
IngestedOnce ==
    \A m \in Messages : \A i, k \in DOMAIN journal[m] :
        journal[m][i] \in CreationEvents /\ journal[m][k] \in CreationEvents => i = k

(* A deleted message is in no index.                                       *)
DeletedNeverFound ==
    \A m \in Messages : deleted[m] => fts[m] = <<>>

(* A message that is not deleted is found by exactly its stored text, a    *)
(* caption by nothing until it is edited.                                  *)
StoredTextFound ==
    \A m \in Messages :
        HasRow(m) /\ ~deleted[m] /\ bodyText[m] \in Texts =>
            fts[m] = IF SentAsMedia(m) /\ ~edited[m] THEN <<>> ELSE <<bodyText[m]>>

(* The deletion mark and the body state tell the same story.               *)
DeletedMarkIsState ==
    \A m \in Messages : deleted[m] <=> bodyState[m] \in DeletedBody

(* Whoever looks at a message is told the same of it: a reader of the      *)
(* index, of the deletion mark and of the body state.                      *)
ReadersAgree == DeletedNeverFound /\ StoredTextFound /\ DeletedMarkIsState

(* Bodies move along the body state diagram and stay in its end states.    *)
Lifecycle == INSTANCE BodyLifecycle WITH state <- bodyState
FollowsLifecycle == Lifecycle!Spec

--------------------------------------------------------------------------------
(* What the documentation says and the code does not do.                   *)

(* "Re-index a message into FTS5 and fuzzy search indexes": a message is in *)
(* both or in neither.                                                     *)
IndexesAgree ==
    \A m \in Messages : fuzzy[m] = {fts[m][i] : i \in DOMAIN fts[m]}

(* Every public method "commits as a single unit": an outbox row that says *)
(* sent has its event, except while mark_sent is between its statements.   *)
SentIsJournaled ==
    \A m \in Own :
        outbox[m] = "sent" /\ (\A w \in Workers : job[w].msg # m)
            => \E i \in DOMAIN journal[m] : journal[m][i] = "outbox_sent"

(* edit_message keeps the index in sync: a text that is found is stored.   *)
FoundTextStored ==
    \A m \in Messages : \A i \in DOMAIN fts[m] : fts[m][i] = bodyText[m]

(* The id of an outbox entry is the id of a skeleton.                      *)
OutboxHasSkeleton ==
    \A m \in Own : outbox[m] # "none" => HasRow(m)
================================================================================
