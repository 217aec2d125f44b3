-------------------------------- MODULE Timeline -------------------------------
(***************************************************************************)
(* One conversation as the bindings show it: it is seeded, messages come   *)
(* in, and the host pages through the timeline with before_ms, the oldest  *)
(* time that it has seen.  The methods of one binding normalise the id of  *)
(* the conversation (facade.rs), those of the other take it as it is given *)
(* (napi lib.rs); sending and ingesting parse it in both.                  *)
(***************************************************************************)
EXTENDS Integers, Sequences, FiniteSets, FiniteSetsExt, SequencesExt

CONSTANTS
    Binding,       \* "uniffi" or "napi"
    TimelineIds,   \* message ids, numbered as they arrive
    Times,         \* created_at_ms
    PageSize,      \* limit
    Distinct       \* no two messages have the same time

VARIABLES
    seeded,     \* keys of conversation rows
    createdAt,  \* created_at_ms of each skeleton, 0 without one
    tombstones, \* skeletons with deleted_at_ms
    newest,     \* last_message_id of the conversation
    pager,      \* the host: step, spelling, before_ms, what it was shown
    there       \* history: messages that were in the timeline since it began

vars == <<seeded, createdAt, tombstones, newest, pager, there>>

Spellings == {"lower", "upper"}
Canonical == "lower"     \* what Uuid::to_string gives
NoMessage == -1
Unread == [step |-> "idle", spelling |-> Canonical, before |-> Max(Times) + 1, shown |-> <<>>]

TypeOK ==
    /\ seeded \subseteq Spellings
    /\ createdAt \in [TimelineIds -> Times \cup {0}]
    /\ tombstones \subseteq TimelineIds
    /\ newest \in TimelineIds \cup {NoMessage}
    /\ pager.step \in {"idle", "paging", "done"} /\ pager.spelling \in Spellings
    /\ pager.before \in Times \cup {Max(Times) + 1}
    /\ Range(pager.shown) \subseteq TimelineIds
    /\ there \subseteq TimelineIds

Init ==
    /\ seeded = {}
    /\ createdAt = [m \in TimelineIds |-> 0]
    /\ tombstones = {}
    /\ newest = NoMessage
    /\ pager = Unread
    /\ there = {}

Key(spelling) == IF Binding = "uniffi" THEN Canonical ELSE spelling

(* seed_conversation: INSERT OR REPLACE, so a row that is there starts anew. *)
Seed(spelling) ==
    /\ seeded' = seeded \cup {Key(spelling)}
    /\ newest' = IF Key(spelling) = Canonical THEN NoMessage ELSE newest
    /\ UNCHANGED <<createdAt, tombstones, pager, there>>

(* Messages of any age, in any order; the last one is noted, not the newest. *)
(* The foreign key refuses a message without its conversation.               *)
Arrive(m, time) ==
    /\ createdAt[m] = 0 /\ \A k \in TimelineIds : k < m => createdAt[k] > 0
    /\ Canonical \in seeded
    /\ Distinct => \A k \in TimelineIds : createdAt[k] # time
    /\ createdAt' = [createdAt EXCEPT ![m] = time]
    /\ newest' = m
    /\ UNCHANGED <<seeded, tombstones, pager, there>>

Delete(m) ==
    /\ createdAt[m] > 0
    /\ tombstones' = tombstones \cup {m}
    /\ there' = there \ {m}
    /\ UNCHANGED <<seeded, createdAt, newest, pager>>

(* clear_all_message_data.                                                   *)
Clear ==
    /\ seeded' = {}
    /\ createdAt' = [m \in TimelineIds |-> 0]
    /\ tombstones' = {}
    /\ newest' = NoMessage
    /\ there' = {}
    /\ UNCHANGED pager

(* The rows of a key: every skeleton has the canonical one.                  *)
Live == {m \in TimelineIds : createdAt[m] > 0} \ tombstones
RowsOf(spelling) == IF Key(spelling) = Canonical THEN Live ELSE {}

Open(spelling) ==
    /\ pager.step # "paging"
    /\ seeded # {}
    /\ pager' = [Unread EXCEPT !.step = "paging", !.spelling = spelling]
    /\ there' = Live
    /\ UNCHANGED <<seeded, createdAt, tombstones, newest>>

(* Mutant: the query has no DESC. *)
FetchOldestPage ==
    /\ pager.step = "paging"
    /\ LET older == {m \in RowsOf(pager.spelling) : createdAt[m] < pager.before}
           size == IF Cardinality(older) < PageSize THEN Cardinality(older) ELSE PageSize
       IN \E page \in SUBSET older :
             /\ Cardinality(page) = size
             /\ \A m \in page, k \in older \ page : createdAt[m] =< createdAt[k]
             /\ pager' = IF page = {} THEN [pager EXCEPT !.step = "done"]
                         ELSE [pager EXCEPT !.before = Min({createdAt[m] : m \in page}),
                                            !.shown = @ \o SetToSeq(page)]
    /\ UNCHANGED <<seeded, createdAt, tombstones, newest, there>>

(* fetch_timeline: newest first, those of one time in any order.             *)
FetchPage ==
    /\ pager.step = "paging"
    /\ LET older == {m \in RowsOf(pager.spelling) : createdAt[m] < pager.before}
           size == IF Cardinality(older) < PageSize THEN Cardinality(older) ELSE PageSize
       IN \E page \in SUBSET older :
             /\ Cardinality(page) = size
             /\ \A m \in page, k \in older \ page : createdAt[m] >= createdAt[k]
             /\ pager' = IF page = {} THEN [pager EXCEPT !.step = "done"]
                         ELSE [pager EXCEPT !.before = Min({createdAt[m] : m \in page}),
                                            !.shown = @ \o SetToSeq(page)]
    /\ UNCHANGED <<seeded, createdAt, tombstones, newest, there>>

Next ==
    \/ \E s \in Spellings : Seed(s) \/ Open(s)
    \/ \E m \in TimelineIds : Delete(m) \/ \E t \in Times : Arrive(m, t)
    \/ Clear \/ FetchPage

Spec == Init /\ [][Next]_vars

(* "Get the message timeline for a conversation": a host that pages to the   *)
(* end is shown every message that was there all the while, and each once,   *)
(* whatever arrives and is deleted between the pages and however it spells   *)
(* the conversation; for messages of different times.                        *)
PagesShowAll ==
    pager.step = "done" =>
       \A m \in there : Cardinality({i \in DOMAIN pager.shown : pager.shown[i] = m}) = 1

(* "satisfy foreign-key constraints": once the host has seeded the           *)
(* conversation, in whatever spelling, messages are not refused.             *)
SeededTakesMessages == seeded # {} => Canonical \in seeded

(* The conversation names its newest message.                                *)
NewestIsLast ==
    newest # NoMessage => \A m \in TimelineIds : createdAt[m] =< createdAt[newest]

(* A conversation that has messages names one.                               *)
NamesItsLast == Live # {} => newest # NoMessage
================================================================================
