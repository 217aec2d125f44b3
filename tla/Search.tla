-------------------------------- MODULE Search ---------------------------------
(***************************************************************************)
(* QueryEngine::execute_search (search/query_engine.rs) over a store that  *)
(* changes: each of its queries is a read of its own.  A call that writes  *)
(* checks the row through the read pool before it has the write lock, so   *)
(* its savepoint, one step, may come after those of others.                *)
(*                                                                         *)
(* Data.  A text is named for what the query makes of it: the full-text    *)
(* index finds "once" and "twice", of which the second is the better       *)
(* match, and the fuzzy index finds them and "near".  A message is as old  *)
(* as its number is small.  Of the calls that write all but one at a time  *)
(* have their savepoint right after their check.                           *)
(***************************************************************************)
EXTENDS Integers, Sequences, FiniteSets

CONSTANTS
    MessageCount,  \* messages of the store
    InScope,       \* those of the conversation that the query names
    Wanted,        \* those that pass its filters: sender, dates, kind
    Limit,         \* 50
    MaxChanges,    \* bound on the changes during one search
    MaxSlow        \* bound on the calls between whose check and savepoint others come

VARIABLES
    content,   \* message_body.text_content, or "none"
    indexed,   \* the texts of the rows that search_fts has of the message
    grams,     \* messages of which search_fuzzy has a gram of the query
    deleted,   \* messages with deleted_at_ms
    slow,      \* calls that have checked and not yet written, and how many there were
    engine,    \* the search: step and results
    changes,   \* bound
    witness    \* history: what was there before and during the search

vars == <<content, indexed, grams, deleted, slow, engine, changes, witness>>

Ids == 1..MessageCount
Texts == {"once", "twice", "near"}
Exact == {"once", "twice"}
Writes == {"ingest", "edit", "delete"}
Resting == {"idle", "done", "panicked"}

(* bm25 is negative, the more so the better the match: 1 / (1 + |rank|), in  *)
(* hundredths; fuzzy scores are similarities.                                *)
FtsScore(t) == IF t = "twice" THEN 33 ELSE 50
Similarity(t) == CASE t = "once" -> 60 [] t = "twice" -> 45 [] t = "near" -> 40

TypeOK ==
    /\ content \in [Ids -> Texts \cup {"none"}]
    /\ indexed \in [Ids -> SUBSET Texts]
    /\ grams \subseteq Ids /\ deleted \subseteq Ids
    /\ slow.calls \subseteq Writes \X Ids /\ slow.count \in 0..MaxSlow
    /\ engine.step \in Resting \cup {"fuzzy", "bodies", "rank"}
    /\ \A i \in DOMAIN engine.results :
          LET r == engine.results[i]
          IN r.id \in Ids /\ r.score \in 0..100 /\ r.snippet \in Texts \cup {"none"}
    /\ changes \in 0..MaxChanges
    /\ witness.late \subseteq Ids /\ witness.captions \subseteq Ids
    /\ witness.deleted \subseteq Ids /\ witness.matched \subseteq Ids
    /\ witness.cut \in BOOLEAN

(* Of witness: late is what an edit has indexed after it was deleted,        *)
(* captions what send_media stored; deleted and matched are what was deleted *)
(* and what matched when the search began, and has been so since; cut says   *)
(* that a limit has left out a row of the full-text index or a result.       *)
Init ==
    /\ content = [m \in Ids |-> "none"]
    /\ indexed = [m \in Ids |-> {}]
    /\ grams = {} /\ deleted = {}
    /\ slow = [calls |-> {}, count |-> 0]
    /\ engine = [step |-> "idle", results |-> <<>>]
    /\ changes = 0
    /\ witness = [late |-> {}, captions |-> {}, deleted |-> {}, matched |-> {}, cut |-> FALSE]

Hit(m, score) == [id |-> m, score |-> score, snippet |-> "none"]
UpTo(n, s) == SubSeq(s, 1, IF n < Len(s) THEN n ELSE Len(s))

(* A set as a list in the order that before gives.                           *)
Sorted(S, before(_, _)) ==
    {s \in [1..Cardinality(S) -> S] : \A i, j \in DOMAIN s : i < j => before(s[i], s[j])}

HasRow(m) == content[m] # "none" \/ m \in deleted

(* skeleton_exists for a delivery, and body_state for an edit or a delete.   *)
Passes(write, m) ==
    IF write = "ingest" THEN ~HasRow(m) ELSE content[m] # "none" /\ m \notin deleted

(* What the store is changed to, whatever the row is by now.  A delivery     *)
(* replaces the row and the body and adds to the indexes; an edit replaces   *)
(* the index rows, also of a message that has no body any more; a delete for *)
(* one leaves the body.  A row of search_fuzzy may fail to be inserted.      *)
Becomes(write, m, text) ==
    /\ content' = [content EXCEPT ![m] =
                      CASE write = "ingest" -> text
                        [] write = "edit" -> IF content[m] = "none" THEN "none" ELSE text
                        [] write = "delete" -> IF text = "none" THEN "none" ELSE content[m]]
    /\ indexed' = [indexed EXCEPT ![m] =
                      CASE write = "ingest" -> indexed[m] \cup {text}
                        [] write = "edit" -> {text}
                        [] write = "delete" -> {}]
    /\ grams' \in CASE write = "ingest" -> {grams, grams \cup {m}}
                    [] write = "edit" -> {grams \ {m}, grams \cup {m}}
                    [] write = "delete" -> {grams \ {m}}
    /\ deleted' = CASE write = "ingest" -> deleted \ {m}
                    [] write = "edit" -> deleted
                    [] write = "delete" -> deleted \cup {m}

(* The store changes, and what is known of the search with it.               *)
Changed(write, m, text) ==
    /\ engine.step \notin Resting => changes < MaxChanges
    /\ changes' = IF engine.step \in Resting THEN 0 ELSE changes + 1
    /\ witness' = [witness EXCEPT
          !.late = IF write = "edit" /\ m \in deleted THEN @ \cup {m}
                   ELSE IF write = "edit" THEN @ ELSE @ \ {m},
          !.captions = IF write = "caption" THEN @ \cup {m}
                       ELSE IF write = "delete" THEN @ ELSE @ \ {m},
          !.deleted = IF write = "delete" THEN @ ELSE @ \ {m},
          !.matched = IF write # "delete" /\ text \in Exact THEN @ ELSE @ \ {m}]
    /\ UNCHANGED engine

(* persist_ingested_message, edit_message, delete_inner.                     *)
Write(write, m, text) ==
    /\ Passes(write, m)
    /\ Becomes(write, m, text)
    /\ Changed(write, m, text)
    /\ UNCHANGED slow

(* The same, with others between the check and the savepoint.                *)
Check(write, m) ==
    /\ Passes(write, m)
    /\ slow.calls = {} /\ slow.count < MaxSlow
    /\ slow' = [calls |-> {<<write, m>>}, count |-> slow.count + 1]
    /\ UNCHANGED <<content, indexed, grams, deleted, engine, changes, witness>>

WriteLate(write, m, text) ==
    /\ <<write, m>> \in slow.calls
    /\ Becomes(write, m, text)
    /\ Changed(write, m, text)
    /\ slow' = [slow EXCEPT !.calls = {}]

(* A caption: a new message with a body, and without a row in any index.     *)
SendMedia(m, text) ==
    /\ ~HasRow(m) /\ <<"ingest", m>> \notin slow.calls
    /\ content' = [content EXCEPT ![m] = text]
    /\ Changed("caption", m, text)
    /\ UNCHANGED <<indexed, grams, deleted, slow>>

--------------------------------------------------------------------------------

(* ORDER BY rank LIMIT: the best first; the filter is on the conversation    *)
(* alone, and deleted messages are not asked about.                          *)
FtsMatches == {row \in InScope \X Exact : row[2] \in indexed[row[1]]}

FtsRows ==
    LET before(a, b) == \/ a[2] = "twice" /\ b[2] = "once"
                        \/ a[2] = b[2] /\ a[1] < b[1]
    IN Sorted(FtsMatches, before)

TextHits(rows) == [i \in DOMAIN rows |-> Hit(rows[i][1], FtsScore(rows[i][2]))]

TextSearch ==
    /\ engine.step \in Resting
    /\ \E rows \in FtsRows :
          engine' = [step |-> "fuzzy", results |-> UpTo(Limit, TextHits(rows))]
    /\ changes' = 0
    /\ witness' = [witness EXCEPT
          !.deleted = deleted \ witness.late,
          !.matched = {m \in (InScope \cap Wanted) \ (deleted \cup witness.captions) :
                          content[m] \in Exact},
          !.cut = Limit < Cardinality(FtsMatches)]
    /\ UNCHANGED <<content, indexed, grams, deleted, slow>>

(* Rows of the fuzzy index whose message has a body and is not deleted, with *)
(* the likeness of the body; the conversation is not asked about.            *)
FuzzyRows ==
    LET score(m) == Similarity(content[m])
        before(a, b) == score(a) > score(b) \/ (score(a) = score(b) /\ a > b)
    IN Sorted({m \in grams \ deleted : content[m] # "none"}, before)

FuzzyHits(rows) == [i \in DOMAIN rows |-> Hit(rows[i], Similarity(content[rows[i]]))]

(* Only when the index found few; the semantic search has no embedder, and   *)
(* that of cold shards finds nothing.                                        *)
FuzzySearch ==
    /\ engine.step = "fuzzy"
    /\ IF Len(engine.results) < Limit \div 2
       THEN \E rows \in FuzzyRows :
               engine' = [step |-> "bodies",
                          results |-> engine.results \o UpTo(Limit, FuzzyHits(rows))]
       ELSE engine' = [step |-> "bodies", results |-> engine.results]
    /\ UNCHANGED <<content, indexed, grams, deleted, slow, changes, witness>>

(* fetch_bodies_batch, and a snippet for each body that is there.            *)
FetchBodies ==
    /\ engine.step = "bodies"
    /\ engine' = [step |-> "rank",
                  results |-> [i \in DOMAIN engine.results |->
                                 [engine.results[i] EXCEPT !.snippet = content[engine.results[i].id]]]]
    /\ UNCHANGED <<content, indexed, grams, deleted, slow, changes, witness>>

(* generate_snippet slices the text at bytes where no character may begin.   *)
PanicOnSnippet ==
    /\ engine.step = "bodies"
    /\ \E i \in DOMAIN engine.results : content[engine.results[i].id] # "none"
    /\ engine' = [step |-> "panicked", results |-> <<>>]
    /\ UNCHANGED <<content, indexed, grams, deleted, slow, changes, witness>>

(* A query returns an error, and so does the search.                         *)
FailToRead ==
    /\ engine.step \in {"fuzzy", "bodies"}
    /\ engine' = [step |-> "idle", results |-> <<>>]
    /\ UNCHANGED <<content, indexed, grams, deleted, slow, changes, witness>>

(* The one with the better score first, of equals the younger.               *)
Ranked(r, first) ==
    LET before(i, j) == \/ r[i].score > r[j].score
                        \/ r[i].score = r[j].score /\ r[i].id > r[j].id
    IN {[k \in DOMAIN order |-> r[order[k]]] : order \in Sorted(first, before)}

(* Mutant: messages that were hit twice are dropped. *)
RankWithoutRepeats ==
    /\ engine.step = "rank"
    /\ LET r == engine.results
           first == {i \in DOMAIN r :
                        r[i].id \in Wanted /\ \A j \in DOMAIN r \ {i} : r[j].id # r[i].id}
       IN \E ranked \in Ranked(r, first) :
             engine' = [step |-> "done", results |-> UpTo(Limit, ranked)]
    /\ UNCHANGED <<content, indexed, grams, deleted, slow, changes, witness>>

(* The filters, the first hit of each message, the order, the limit.         *)
Rank ==
    /\ engine.step = "rank"
    /\ LET r == engine.results
           first == {i \in DOMAIN r :
                        r[i].id \in Wanted /\ \A j \in 1..(i - 1) : r[j].id # r[i].id}
       IN /\ \E ranked \in Ranked(r, first) :
                engine' = [step |-> "done", results |-> UpTo(Limit, ranked)]
          /\ witness' = [witness EXCEPT !.cut = @ \/ Limit < Cardinality(first)]
    /\ UNCHANGED <<content, indexed, grams, deleted, slow, changes>>

Next ==
    \/ \E m \in Ids :
          \/ \E w \in Writes : Check(w, m)
          \/ \E t \in Texts :
                \/ SendMedia(m, t)
                \/ \E w \in {"ingest", "edit"} : Write(w, m, t) \/ WriteLate(w, m, t)
          \/ \E t \in {"none", "kept"} : Write("delete", m, t) \/ WriteLate("delete", m, t)
    \/ TextSearch \/ FuzzySearch \/ FetchBodies \/ PanicOnSnippet \/ FailToRead \/ Rank

Spec == Init /\ [][Next]_vars

Found == {engine.results[i].id : i \in DOMAIN engine.results}
Finished == engine.step = "done"

(* What was deleted before the search began is not found, unless a delivery  *)
(* or an edit that had passed its check before was written after the delete. *)
DeletedNotFound == Finished => Found \cap witness.deleted = {}

(* In a store that stays as it is, no deleted message is found.              *)
DeletedNeverFound == Finished /\ changes = 0 => Found \cap deleted = {}

(* A message that matches word for word during the whole search and passes   *)
(* the filters is found, whatever happens to the others, unless a limit has  *)
(* cut the list or the text is a caption.                                    *)
MatchIsFound == Finished /\ ~witness.cut => witness.matched \subseteq Found

(* A message that matches is found, be it the last of many.                  *)
MatchIsNotCrowdedOut == Finished => witness.matched \subseteq Found

(* So is a picture by its caption.                                           *)
CaptionIsFound ==
    Finished /\ ~witness.cut /\ changes = 0 =>
       {m \in (InScope \cap Wanted) \ deleted : content[m] \in Exact} \subseteq Found

(* A search answers, whatever the characters of the texts.                   *)
NeverPanics == engine.step # "panicked"

(* A search of one conversation finds messages of that conversation.         *)
StaysInScope == Finished => Found \subseteq InScope

(* Of two results of the full-text index the better match comes first.       *)
BestFirst ==
    Finished => \A i, j \in DOMAIN engine.results :
       (i < j /\ engine.results[i].score \in {33, 50} /\ engine.results[j].score \in {33, 50})
          => ~(engine.results[i].score = 50 /\ engine.results[j].score = 33)

(* What is shown of a result matches the query.                              *)
SnippetMatches ==
    Finished => \A i \in DOMAIN engine.results :
       engine.results[i].snippet \in Exact \cup {"near"}
================================================================================
