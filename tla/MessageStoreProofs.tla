--------------------------- MODULE MessageStoreProofs --------------------------
(***************************************************************************)
(* Theorems about MessageStore for every set of workers, messages and      *)
(* texts, and for every bound MaxEvents.                                   *)
(***************************************************************************)
EXTENDS MessageStore, TLAPS

(* The record of what a worker is doing is well typed.                     *)
JobRecord == [op : Ops, msg : Messages \cup {NoMessage},
              text : Texts \cup {NoText}, plan : SUBSET Messages]

(* A commit, and mark_sent's second statement, act on a message.           *)
JobHasMessage ==
    \A w \in Workers : job[w].op \notin {"idle", "evict"} => job[w].msg \in Messages

(* An edit carries a text.                                                 *)
EditHasText == \A w \in Workers : job[w].op = "edit" => job[w].text \in Texts

(* TypeOK alone is not inductive: a commit indexes tables by job[w].msg.   *)
TypeInv == TypeOK /\ JobHasMessage /\ EditHasText

LEMMA IdleIsJob == Idle \in JobRecord /\ Idle.op = "idle"
  BY DEF Idle, JobRecord, Ops

LEMMA JobIsRecord ==
  ASSUME NEW op \in Ops, NEW m \in Messages, NEW t \in Texts \cup {NoText}
  PROVE  /\ Job(op, m, t) \in JobRecord
         /\ Job(op, m, t).op = op
         /\ Job(op, m, t).msg = m
         /\ Job(op, m, t).text = t
  BY DEF Job, JobRecord

(* The worker that finishes, fails or crashes leaves a well typed table of *)
(* jobs behind.                                                            *)
LEMMA SetJob ==
  ASSUME TypeInv, NEW w \in Workers, NEW j \in JobRecord,
         j.op \notin {"idle", "evict"} => j.msg \in Messages,
         j.op = "edit" => j.text \in Texts,
         job' = [job EXCEPT ![w] = j]
  PROVE  /\ job' \in [Workers -> JobRecord]
         /\ JobHasMessage'
         /\ EditHasText'
  <1>1. job \in [Workers -> JobRecord]
    BY DEF TypeInv, TypeOK, JobRecord
  <1>2. job' \in [Workers -> JobRecord]
    BY <1>1
  <1>3. \A v \in Workers : job'[v] = IF v = w THEN j ELSE job[v]
    BY <1>1
  <1>. QED
    BY <1>2, <1>3 DEF TypeInv, JobHasMessage, EditHasText

LEMMA BeginPreservesTypes ==
  ASSUME TypeInv, NEW w \in Workers, NEW j \in JobRecord,
         j.op \notin {"idle", "evict"} => j.msg \in Messages,
         j.op = "edit" => j.text \in Texts,
         Begin(w, j)
  PROVE  TypeInv'
  <1>1. job' = [job EXCEPT ![w] = j] /\ UNCHANGED <<store, lock>>
    BY DEF Begin
  <1>2. job' \in [Workers -> JobRecord] /\ JobHasMessage' /\ EditHasText'
    BY <1>1, SetJob
  <1>. QED
    BY <1>1, <1>2 DEF TypeInv, TypeOK, JobRecord, store, rowVars, indexVars

LEMMA FinishKeepsJobs ==
  ASSUME TypeInv, NEW w \in Workers, Finish(w)
  PROVE  /\ job' \in [Workers -> JobRecord]
         /\ JobHasMessage'
         /\ EditHasText'
         /\ lock' = lock
  <1>1. job' = [job EXCEPT ![w] = Idle] /\ lock' = lock
    BY DEF Finish
  <1>. QED
    BY <1>1, SetJob, IdleIsJob

LEMMA InsertSkeletonTypes ==
  ASSUME TypeOK, NEW m \in Messages, InsertSkeleton(m)
  PROVE  /\ bodyState' \in [Messages -> BodyStates \cup {NoRow}]
         /\ edited' \in [Messages -> BOOLEAN]
         /\ deleted' \in [Messages -> BOOLEAN]
         /\ archived' \in [Messages -> BOOLEAN]
  BY DEF TypeOK, InsertSkeleton, BodyStates

LEMMA InsertTextTypes ==
  ASSUME TypeOK, NEW m \in Messages, NEW t \in Texts \cup {NoText}, InsertText(m, t)
  PROVE  /\ bodyText' \in [Messages -> Texts \cup {NoText, NullText}]
         /\ fts' \in [Messages -> Seq(Texts)]
         /\ fuzzy' \in [Messages -> SUBSET Texts]
  <1>1. CASE t = NoText
    BY <1>1 DEF TypeOK, InsertText
  <1>2. CASE t # NoText
    <2>1. t \in Texts
      BY <1>2
    <2>2. bodyText' \in [Messages -> Texts \cup {NoText, NullText}]
      BY <1>2 DEF TypeOK, InsertText
    <2>3. fts' \in [Messages -> Seq(Texts)]
      <3>1. fts[m] \in Seq(Texts)
        BY DEF TypeOK
      <3>2. Append(fts[m], t) \in Seq(Texts)
        BY <2>1, <3>1
      <3>3. fts' = [fts EXCEPT ![m] = Append(fts[m], t)]
        BY <1>2 DEF InsertText
      <3>. QED
        BY <3>2, <3>3 DEF TypeOK
    <2>4. PICK grams \in SUBSET {t} : fuzzy' = [fuzzy EXCEPT ![m] = fuzzy[m] \cup grams]
      BY <1>2 DEF InsertText
    <2>5. fuzzy' \in [Messages -> SUBSET Texts]
      <3>1. fuzzy \in [Messages -> SUBSET Texts]
        BY DEF TypeOK
      <3>2. fuzzy[m] \cup grams \in SUBSET Texts
        BY <2>1, <3>1
      <3>. QED
        BY <2>4, <3>1, <3>2
    <2>. QED
      BY <2>2, <2>3, <2>5
  <1>. QED BY <1>1, <1>2

LEMMA LogTypes ==
  ASSUME TypeOK, NEW m \in Messages, NEW e \in EventTypes, Log(m, e)
  PROVE  journal' \in [Messages -> Seq(EventTypes)]
  BY DEF TypeOK, Log

LEMMA TypeInit == Init => TypeInv
  BY ConstantsAssumption, IdleIsJob
     DEF Init, TypeInv, TypeOK, JobHasMessage, EditHasText, JobRecord

LEMMA TypeNext == TypeInv /\ [Next]_vars => TypeInv'
  <1>. SUFFICES ASSUME TypeInv, [Next]_vars PROVE TypeInv'
    OBVIOUS
  <1>. USE ConstantsAssumption
  <1>1. ASSUME NEW w \in Workers, NEW m \in Messages, BeginIngest(w, m)
        PROVE  TypeInv'
    <2>1. "ingest" \in Ops /\ Original[m] \in Texts \cup {NoText}
      BY DEF Ops
    <2>. QED
      BY <1>1, <2>1, BeginPreservesTypes, JobIsRecord DEF BeginIngest
  <1>2. ASSUME NEW w \in Workers, CommitIngest(w) PROVE TypeInv'
    <2>1. job[w].msg \in Messages /\ job[w].text \in Texts \cup {NoText}
      BY <1>2 DEF CommitIngest, TypeInv, TypeOK, JobHasMessage
    <2>2. job' \in [Workers -> JobRecord] /\ JobHasMessage' /\ EditHasText' /\ lock' = lock
      BY <1>2, FinishKeepsJobs DEF CommitIngest
    <2>3. /\ media' \in SUBSET Messages
          /\ lastMessage' \in Messages \cup {NoMessage}
          /\ outbox' = outbox
      BY <1>2, <2>1 DEF CommitIngest, BumpConversation, TypeInv, TypeOK
    <2>. QED
      BY <1>2, <2>1, <2>2, <2>3, InsertSkeletonTypes, InsertTextTypes, LogTypes
         DEF CommitIngest, TypeInv, TypeOK, JobRecord, EventTypes
  <1>3. ASSUME NEW w \in Workers, NEW m \in Messages, BeginSend(w, m)
        PROVE  TypeInv'
    <2>1. PICK t \in {Original[m], NoText} : Begin(w, Job("send", m, t))
      BY <1>3 DEF BeginSend
    <2>2. "send" \in Ops /\ t \in Texts \cup {NoText}
      BY DEF Ops
    <2>. QED
      BY <2>1, <2>2, BeginPreservesTypes, JobIsRecord
  <1>4. ASSUME NEW w \in Workers, CommitSend(w) PROVE TypeInv'
    <2>1. job[w].msg \in Messages /\ job[w].text \in Texts \cup {NoText}
      BY <1>4 DEF CommitSend, TypeInv, TypeOK, JobHasMessage
    <2>2. job' \in [Workers -> JobRecord] /\ JobHasMessage' /\ EditHasText' /\ lock' = lock
      BY <1>4, FinishKeepsJobs DEF CommitSend
    <2>3. outbox' \in [Messages -> {"none", "pending", "sent"}]
      BY <1>4 DEF CommitSend, TypeInv, TypeOK
    <2>4. CASE job[w].text = NoText
      BY <1>4, <2>2, <2>3, <2>4
         DEF CommitSend, TypeInv, TypeOK, JobRecord, rowVars, indexVars
    <2>5. CASE job[w].text # NoText
      <3>1. lastMessage' \in Messages \cup {NoMessage}
        BY <1>4, <2>1, <2>5 DEF CommitSend, BumpConversation, TypeInv, TypeOK
      <3>. QED
        BY <1>4, <2>1, <2>2, <2>3, <2>5, <3>1, InsertSkeletonTypes, InsertTextTypes, LogTypes
           DEF CommitSend, TypeInv, TypeOK, JobRecord, EventTypes
    <2>. QED BY <2>4, <2>5
  <1>5. ASSUME NEW w \in Workers, NEW m \in Messages, MarkSentOutbox(w, m)
        PROVE  TypeInv'
    <2>1. Job("mark_sent", m, NoText) \in JobRecord
      BY JobIsRecord DEF Ops
    <2>2. job' \in [Workers -> JobRecord] /\ JobHasMessage' /\ EditHasText'
      <3>1. job' = [job EXCEPT ![w] = Job("mark_sent", m, NoText)]
        BY <1>5 DEF MarkSentOutbox
      <3>2. /\ Job("mark_sent", m, NoText).op = "mark_sent"
            /\ Job("mark_sent", m, NoText).msg \in Messages
        BY DEF Job
      <3>. QED
        BY <2>1, <3>1, <3>2, SetJob
    <2>. QED
      BY <1>5, <2>2 DEF MarkSentOutbox, TypeInv, TypeOK, JobRecord, rowVars, indexVars
  <1>6. ASSUME NEW w \in Workers, MarkSentJournal(w) PROVE TypeInv'
    <2>1. job[w].msg \in Messages
      BY <1>6 DEF MarkSentJournal, TypeInv, JobHasMessage
    <2>2. job' \in [Workers -> JobRecord] /\ JobHasMessage' /\ EditHasText'
      BY <1>6, SetJob, IdleIsJob DEF MarkSentJournal
    <2>. QED
      BY <1>6, <2>1, <2>2
         DEF MarkSentJournal, Log, TypeInv, TypeOK, JobRecord, EventTypes, rowVars, indexVars
  <1>7. ASSUME NEW w \in Workers, NEW m \in Messages, NEW t \in Texts, BeginEdit(w, m, t)
        PROVE  TypeInv'
    BY <1>7, BeginPreservesTypes, JobIsRecord DEF BeginEdit, Ops
  <1>8. ASSUME NEW w \in Workers, CommitEdit(w) PROVE TypeInv'
    <2>1. job[w].msg \in Messages /\ job[w].text \in Texts
      BY <1>8 DEF CommitEdit, TypeInv, JobHasMessage, EditHasText
    <2>2. job' \in [Workers -> JobRecord] /\ JobHasMessage' /\ EditHasText' /\ lock' = lock
      BY <1>8, FinishKeepsJobs DEF CommitEdit
    <2>3. bodyText' \in [Messages -> Texts \cup {NoText, NullText}]
      BY <1>8, <2>1 DEF CommitEdit, UpdateBody, TypeInv, TypeOK
    <2>4. /\ fts' \in [Messages -> Seq(Texts)]
          /\ fuzzy' \in [Messages -> SUBSET Texts]
      <3>1. PICK grams \in SUBSET {job[w].text} : fuzzy' = [fuzzy EXCEPT ![job[w].msg] = grams]
        BY <1>8 DEF CommitEdit, Reindex
      <3>2. grams \in SUBSET Texts
        BY <2>1
      <3>3. fuzzy' \in [Messages -> SUBSET Texts]
        BY <3>1, <3>2 DEF TypeInv, TypeOK
      <3>. QED
        BY <1>8, <2>1, <3>3 DEF CommitEdit, Reindex, TypeInv, TypeOK
    <2>5. journal' \in [Messages -> Seq(EventTypes)] /\ edited' \in [Messages -> BOOLEAN]
      BY <1>8, <2>1 DEF CommitEdit, Log, TypeInv, TypeOK, EventTypes
    <2>6. UNCHANGED <<bodyState, deleted, archived, media, outbox, lastMessage>>
      BY <1>8 DEF CommitEdit
    <2>. QED
      BY <2>2, <2>3, <2>4, <2>5, <2>6 DEF TypeInv, TypeOK, JobRecord
  <1>9. ASSUME NEW w \in Workers, NEW m \in Messages, NEW target \in DeletedBody,
               BeginDelete(w, m, target)
        PROVE  TypeInv'
    <2>1. target \in Ops /\ target \notin {"idle", "evict", "edit"}
      BY DEF DeletedBody, Ops
    <2>. QED
      BY <1>9, <2>1, BeginPreservesTypes, JobIsRecord DEF BeginDelete
  <1>10. ASSUME NEW w \in Workers, CommitDelete(w) PROVE TypeInv'
    <2>1. job[w].op \in DeletedBody /\ job[w].op \in BodyStates /\ job[w].msg \in Messages
      BY <1>10 DEF CommitDelete, TypeInv, JobHasMessage, DeletedBody, BodyStates
    <2>2. job' \in [Workers -> JobRecord] /\ JobHasMessage' /\ EditHasText' /\ lock' = lock
      BY <1>10, FinishKeepsJobs DEF CommitDelete
    <2>3. /\ <<"message_deleted", "media_deleted">> \in Seq(EventTypes)
          /\ <<"message_deleted">> \in Seq(EventTypes)
      BY DEF EventTypes
    <2>4. journal' \in [Messages -> Seq(EventTypes)]
      BY <1>10, <2>1, <2>3 DEF CommitDelete, TypeInv, TypeOK
    <2>. QED
      BY <1>10, <2>1, <2>2, <2>4
         DEF CommitDelete, Unindex, TypeInv, TypeOK, JobRecord
  <1>11. ASSUME NEW w \in Workers, NEW plan \in SUBSET Messages, PlanEviction(w, plan)
         PROVE  TypeInv'
    <2>. DEFINE j == [Idle EXCEPT !.op = "evict", !.plan = plan]
    <2>1. j \in JobRecord /\ j.op = "evict"
      BY IdleIsJob DEF JobRecord, Ops, Idle
    <2>. QED
      BY <1>11, <2>1, BeginPreservesTypes DEF PlanEviction
  <1>12. ASSUME NEW w \in Workers, NEW m \in Messages, EvictBody(w, m)
         PROVE  TypeInv'
    <2>. DEFINE j == IF job[w].plan = {m} THEN Idle
                     ELSE [job[w] EXCEPT !.plan = @ \ {m}]
    <2>1. job[w] \in JobRecord /\ job[w].op = "evict"
      BY <1>12 DEF EvictBody, TypeInv, TypeOK, JobRecord
    <2>2. j \in JobRecord /\ j.op \in {"idle", "evict"}
      BY <2>1, IdleIsJob DEF JobRecord
    <2>3. job' \in [Workers -> JobRecord] /\ JobHasMessage' /\ EditHasText'
      BY <1>12, <2>2, SetJob DEF EvictBody
    <2>. QED
      BY <1>12, <2>3 DEF EvictBody, TypeInv, TypeOK, JobRecord, BodyStates, indexVars
  <1>13. ASSUME NEW m \in Messages, MarkArchived(m) PROVE TypeInv'
    BY <1>13 DEF MarkArchived, TypeInv, TypeOK, JobHasMessage, EditHasText, indexVars
  <1>14. ASSUME NEW w \in Workers, Fail(w) PROVE TypeInv'
    <2>1. job' \in [Workers -> JobRecord] /\ JobHasMessage' /\ EditHasText'
      BY <1>14, SetJob, IdleIsJob DEF Fail
    <2>. QED
      BY <1>14, <2>1 DEF Fail, TypeInv, TypeOK, JobRecord, store, rowVars, indexVars
  <1>15. CASE Crash
    BY <1>15, IdleIsJob
       DEF Crash, TypeInv, TypeOK, JobHasMessage, EditHasText, JobRecord,
           store, rowVars, indexVars
  <1>16. CASE UNCHANGED vars
    BY <1>16 DEF TypeInv, TypeOK, JobHasMessage, EditHasText,
                 vars, store, rowVars, indexVars
  <1>17. ASSUME NEW w \in Workers, NEW m \in Messages, NEW c \in Texts \cup {NullText},
                SendMedia(w, m, c)
         PROVE  TypeInv'
    <2>1. InsertSkeleton(m)
      BY <1>17 DEF SendMedia
    <2>2. /\ bodyText' \in [Messages -> Texts \cup {NoText, NullText}]
          /\ media' \in SUBSET Messages
      BY <1>17 DEF SendMedia, TypeInv, TypeOK
    <2>3. UNCHANGED <<indexVars, outbox, journal, lastMessage, job, lock>>
      BY <1>17 DEF SendMedia
    <2>. QED
      BY <2>1, <2>2, <2>3, InsertSkeletonTypes
         DEF TypeInv, TypeOK, JobHasMessage, EditHasText, indexVars
  <1>. QED
    BY <1>1, <1>2, <1>3, <1>4, <1>5, <1>6, <1>7, <1>8, <1>9, <1>10, <1>11,
       <1>12, <1>13, <1>14, <1>15, <1>16, <1>17 DEF Next, WorkerStep

(* Type correctness of the tables and of the workers' jobs, for any number *)
(* of workers, messages and texts.                                         *)
THEOREM TypeCorrect == Spec => []TypeOK
  <1>1. TypeInv => TypeOK
    BY DEF TypeInv
  <1>. QED
    BY <1>1, TypeInit, TypeNext, PTL DEF Spec

--------------------------------------------------------------------------------
(* The two search indexes.                                                 *)

LEMMA RangeOfAppend ==
  ASSUME NEW S, NEW s \in Seq(S), NEW t \in S
  PROVE  LET r == Append(s, t)
         IN  {r[i] : i \in DOMAIN r} = {s[i] : i \in DOMAIN s} \cup {t}
  <1>. DEFINE r == Append(s, t)
  <1>1. /\ DOMAIN s = 1..Len(s)
        /\ DOMAIN r = 1..(Len(s) + 1)
        /\ Len(s) \in Nat
        /\ \A i \in 1..Len(s) : r[i] = s[i]
        /\ r[Len(s) + 1] = t
    OBVIOUS
  <1>2. {r[i] : i \in DOMAIN r} \subseteq {s[i] : i \in DOMAIN s} \cup {t}
    <2>. SUFFICES ASSUME NEW i \in DOMAIN r
                  PROVE  r[i] \in {s[k] : k \in DOMAIN s} \cup {t}
      OBVIOUS
    <2>1. i \in 1..Len(s) \/ i = Len(s) + 1
      BY <1>1
    <2>. QED
      BY <1>1, <2>1
  <1>3. {s[i] : i \in DOMAIN s} \cup {t} \subseteq {r[i] : i \in DOMAIN r}
    <2>1. ASSUME NEW i \in DOMAIN s PROVE s[i] \in {r[k] : k \in DOMAIN r}
      <3>1. i \in DOMAIN r /\ r[i] = s[i]
        BY <1>1
      <3>. QED BY <3>1
    <2>2. t \in {r[k] : k \in DOMAIN r}
      <3>1. Len(s) + 1 \in DOMAIN r
        BY <1>1
      <3>. QED BY <1>1, <3>1
    <2>. QED BY <2>1, <2>2
  <1>. QED BY <1>2, <1>3

(* The steps that write the tables; the others only look, or forget.        *)
StoreWriter ==
    \/ \E w \in Workers :
          \/ \E m \in Messages : MarkSentOutbox(w, m) \/ EvictBody(w, m)
          \/ \E m \in Messages, c \in Texts \cup {NullText} : SendMedia(w, m, c)
          \/ CommitIngest(w) \/ CommitSend(w) \/ MarkSentJournal(w)
          \/ CommitEdit(w) \/ CommitDelete(w)
    \/ \E m \in Messages : MarkArchived(m)

LEMMA StoreWriters == ASSUME [Next]_vars PROVE UNCHANGED store \/ StoreWriter
  <1>1. ASSUME NEW w \in Workers, WorkerStep(w) PROVE UNCHANGED store \/ StoreWriter
    <2>1. ASSUME NEW m \in Messages, BeginIngest(w, m) \/ BeginSend(w, m)
          PROVE  UNCHANGED store
      BY <2>1 DEF BeginIngest, BeginSend, Begin
    <2>2. ASSUME NEW m \in Messages, NEW t \in Texts, BeginEdit(w, m, t)
          PROVE  UNCHANGED store
      BY <2>2 DEF BeginEdit, Begin
    <2>3. ASSUME NEW m \in Messages, NEW target \in DeletedBody, BeginDelete(w, m, target)
          PROVE  UNCHANGED store
      BY <2>3 DEF BeginDelete, Begin
    <2>4. ASSUME NEW plan \in SUBSET Messages, PlanEviction(w, plan)
          PROVE  UNCHANGED store
      BY <2>4 DEF PlanEviction, Begin
    <2>5. ASSUME Fail(w) PROVE UNCHANGED store
      BY <2>5 DEF Fail
    <2>. HIDE DEF store
    <2>. QED
      BY <1>1, <2>1, <2>2, <2>3, <2>4, <2>5 DEF WorkerStep, StoreWriter
  <1>2. ASSUME Crash PROVE UNCHANGED store
    BY <1>2 DEF Crash
  <1>3. ASSUME UNCHANGED vars PROVE UNCHANGED store
    BY <1>3 DEF vars
  <1>. QED
    BY <1>1, <1>2, <1>3 DEF Next, StoreWriter

(* Only these operations write an index.                                   *)
LEMMA IndexWriters ==
  ASSUME [Next]_vars
  PROVE  \/ UNCHANGED indexVars
         \/ \E w \in Workers : CommitIngest(w) \/ CommitSend(w) \/ CommitEdit(w) \/ CommitDelete(w)
  BY StoreWriters DEF StoreWriter, store, indexVars, MarkSentOutbox, EvictBody, MarkSentJournal,
                      MarkArchived, SendMedia

LEMMA InsertTextKeepsIndexes ==
  ASSUME TypeOK, GramsOfIndexedText, NEW m \in Messages, NEW t \in Texts \cup {NoText},
         InsertText(m, t)
  PROVE  GramsOfIndexedText'
  <1>1. CASE t = NoText
    BY <1>1 DEF InsertText, GramsOfIndexedText
  <1>2. CASE t # NoText
    <2>1. t \in Texts /\ fts[m] \in Seq(Texts)
      BY <1>2 DEF TypeOK
    <2>2. PICK grams \in SUBSET {t} :
             /\ fts' = [fts EXCEPT ![m] = Append(fts[m], t)]
             /\ fuzzy' = [fuzzy EXCEPT ![m] = fuzzy[m] \cup grams]
      BY <1>2 DEF InsertText
    <2>3. /\ fts'[m] = Append(fts[m], t)
          /\ fuzzy'[m] \subseteq fuzzy[m] \cup {t}
          /\ \A n \in Messages \ {m} : fts'[n] = fts[n] /\ fuzzy'[n] = fuzzy[n]
      BY <2>2 DEF TypeOK
    <2>4. {fts'[m][i] : i \in DOMAIN fts'[m]} = {fts[m][i] : i \in DOMAIN fts[m]} \cup {t}
      BY <2>1, <2>3, RangeOfAppend
    <2>5. fuzzy'[m] \subseteq {fts'[m][i] : i \in DOMAIN fts'[m]}
      BY <2>3, <2>4 DEF GramsOfIndexedText
    <2>. QED
      BY <2>3, <2>5 DEF GramsOfIndexedText
  <1>. QED BY <1>1, <1>2

LEMMA GramsOfIndexedTextNext ==
  ASSUME TypeInv, GramsOfIndexedText, [Next]_vars
  PROVE  GramsOfIndexedText'
  <1>1. CASE UNCHANGED indexVars
    BY <1>1 DEF indexVars, GramsOfIndexedText
  <1>2. ASSUME NEW w \in Workers, CommitIngest(w) PROVE GramsOfIndexedText'
    <2>1. job[w].msg \in Messages /\ job[w].text \in Texts \cup {NoText}
      BY <1>2 DEF CommitIngest, TypeInv, TypeOK, JobHasMessage
    <2>. QED
      BY <1>2, <2>1, InsertTextKeepsIndexes DEF CommitIngest, TypeInv
  <1>3. ASSUME NEW w \in Workers, CommitSend(w) PROVE GramsOfIndexedText'
    <2>1. job[w].msg \in Messages /\ job[w].text \in Texts \cup {NoText}
      BY <1>3 DEF CommitSend, TypeInv, TypeOK, JobHasMessage
    <2>2. UNCHANGED indexVars \/ InsertText(job[w].msg, job[w].text)
      BY <1>3 DEF CommitSend
    <2>. QED
      BY <1>1, <2>1, <2>2, InsertTextKeepsIndexes DEF TypeInv
  <1>4. ASSUME NEW w \in Workers, CommitEdit(w) PROVE GramsOfIndexedText'
    <2>. DEFINE m == job[w].msg
                t == job[w].text
    <2>1. m \in Messages
      BY <1>4 DEF CommitEdit, TypeInv, JobHasMessage
    <2>2. /\ fts'[m] = <<t>> /\ fuzzy'[m] \subseteq {t}
          /\ \A n \in Messages \ {m} : fts'[n] = fts[n] /\ fuzzy'[n] = fuzzy[n]
      BY <1>4, <2>1 DEF CommitEdit, Reindex, TypeInv, TypeOK
    <2>3. {<<t>>[i] : i \in DOMAIN <<t>>} = {t}
      OBVIOUS
    <2>. QED
      BY <2>2, <2>3 DEF GramsOfIndexedText
  <1>5. ASSUME NEW w \in Workers, CommitDelete(w) PROVE GramsOfIndexedText'
    <2>. DEFINE m == job[w].msg
    <2>1. m \in Messages
      BY <1>5 DEF CommitDelete, TypeInv, JobHasMessage, DeletedBody
    <2>2. /\ fts'[m] = <<>> /\ fuzzy'[m] = {}
          /\ \A n \in Messages \ {m} : fts'[n] = fts[n] /\ fuzzy'[n] = fuzzy[n]
      BY <1>5, <2>1 DEF CommitDelete, Unindex, TypeInv, TypeOK
    <2>3. {<<>>[i] : i \in DOMAIN <<>>} = {}
      OBVIOUS
    <2>. QED
      BY <2>2, <2>3 DEF GramsOfIndexedText
  <1>. QED
    BY <1>1, <1>2, <1>3, <1>4, <1>5, IndexWriters

(* Whatever is interleaved, and whichever insert of a gram fails: the      *)
(* fuzzy index finds no message by a text the exact index has not.         *)
THEOREM FuzzyIndexNeverStale == Spec => []GramsOfIndexedText
  <1>1. Init => GramsOfIndexedText
    <2>1. {<<>>[i] : i \in DOMAIN <<>>} = {}
      OBVIOUS
    <2>. QED
      BY <2>1 DEF Init, GramsOfIndexedText
  <1>. QED
    BY <1>1, TypeInit, TypeNext, GramsOfIndexedTextNext, PTL DEF Spec

--------------------------------------------------------------------------------
(* Rows and what refers to them.                                           *)

(* What a worker decided to write to is there when it writes: no operation *)
(* removes a skeleton, so the row that Begin* saw still exists.            *)
JobsHaveRow ==
    \A w \in Workers :
        /\ job[w].op \in {"edit", "mark_sent"} \cup DeletedBody => HasRow(job[w].msg)
        /\ \A m \in job[w].plan : HasRow(m)

RowInv == ReferentialIntegrity /\ TombstoneHasNoText /\ JobsHaveRow

LEMMA RowsStay ==
  ASSUME TypeInv, [Next]_vars, NEW m \in Messages, HasRow(m)
  PROVE  HasRow(m)'
  <1>. USE ConstantsAssumption DEF HasRow, TypeInv, TypeOK
  <1>1. CASE UNCHANGED bodyState
    BY <1>1
  <1>2. ASSUME NEW w \in Workers, NEW n \in Messages, EvictBody(w, n) PROVE HasRow(m)'
    BY <1>2 DEF EvictBody, BodyStates
  <1>3. ASSUME NEW w \in Workers, CommitIngest(w) PROVE HasRow(m)'
    BY <1>3 DEF CommitIngest, InsertSkeleton, BodyStates
  <1>4. ASSUME NEW w \in Workers, CommitSend(w) PROVE HasRow(m)'
    BY <1>4 DEF CommitSend, InsertSkeleton, rowVars, BodyStates
  <1>5. ASSUME NEW w \in Workers, CommitDelete(w) PROVE HasRow(m)'
    BY <1>5 DEF CommitDelete, DeletedBody, BodyStates
  <1>7. ASSUME NEW w \in Workers, NEW n \in Messages, NEW c \in Texts \cup {NullText},
               SendMedia(w, n, c)
        PROVE  HasRow(m)'
    BY <1>7 DEF SendMedia, InsertSkeleton, BodyStates
  <1>6. \/ UNCHANGED bodyState
        \/ \E w \in Workers : \/ \E n \in Messages : EvictBody(w, n)
                              \/ \E n \in Messages, c \in Texts \cup {NullText} : SendMedia(w, n, c)
                              \/ CommitIngest(w) \/ CommitSend(w) \/ CommitDelete(w)
    BY StoreWriters DEF StoreWriter, store, rowVars, MarkSentOutbox, MarkSentJournal, CommitEdit,
                        MarkArchived
  <1>. QED
    BY <1>1, <1>2, <1>3, <1>4, <1>5, <1>6, <1>7

LEMMA JobsHaveRowNext ==
  ASSUME TypeInv, RowInv, [Next]_vars
  PROVE  JobsHaveRow'
  <1>. DEFINE Backed(j) == /\ j.op \in {"edit", "mark_sent"} \cup DeletedBody => HasRow(j.msg)
                           /\ \A m \in j.plan : HasRow(m)
  <1>1. \A w \in Workers : Backed(job[w])
    BY DEF RowInv, JobsHaveRow
  <1>2. Backed(Idle)
    BY DEF Idle, DeletedBody
  <1>3. \A w \in Workers : Backed(job'[w])
    <2>1. CASE UNCHANGED job
      BY <1>1, <2>1
    <2>2. ASSUME NEW w \in Workers, job' = [job EXCEPT ![w] = Idle]
          PROVE  \A v \in Workers : Backed(job'[v])
      BY <1>1, <1>2, <2>2 DEF TypeInv, TypeOK
    <2>3. ASSUME NEW w \in Workers, NEW j \in JobRecord, Backed(j), job' = [job EXCEPT ![w] = j]
          PROVE  \A v \in Workers : Backed(job'[v])
      BY <1>1, <2>3 DEF TypeInv, TypeOK
    <2>4. ASSUME NEW w \in Workers, NEW m \in Messages, BeginIngest(w, m)
          PROVE  \A v \in Workers : Backed(job'[v])
      <3>1. Job("ingest", m, Original[m]) \in JobRecord
        BY ConstantsAssumption, JobIsRecord DEF Ops
      <3>2. Backed(Job("ingest", m, Original[m]))
        BY DEF Job, DeletedBody
      <3>. QED
        BY <2>3, <2>4, <3>1, <3>2 DEF BeginIngest, Begin
    <2>5. ASSUME NEW w \in Workers, NEW m \in Messages, BeginSend(w, m)
          PROVE  \A v \in Workers : Backed(job'[v])
      <3>1. PICK t \in {Original[m], NoText} : Begin(w, Job("send", m, t))
        BY <2>5 DEF BeginSend
      <3>2. Job("send", m, t) \in JobRecord
        BY ConstantsAssumption, JobIsRecord DEF Ops
      <3>3. Backed(Job("send", m, t))
        BY DEF Job, DeletedBody
      <3>. QED
        BY <2>3, <3>1, <3>2, <3>3 DEF Begin
    <2>6. ASSUME NEW w \in Workers, NEW m \in Messages, MarkSentOutbox(w, m)
          PROVE  \A v \in Workers : Backed(job'[v])
      <3>1. Job("mark_sent", m, NoText) \in JobRecord
        BY JobIsRecord DEF Ops
      <3>2. Backed(Job("mark_sent", m, NoText))
        BY <2>6 DEF Job, MarkSentOutbox
      <3>. QED
        BY <2>3, <2>6, <3>1, <3>2 DEF MarkSentOutbox
    <2>7. ASSUME NEW w \in Workers, NEW m \in Messages, NEW t \in Texts, BeginEdit(w, m, t)
          PROVE  \A v \in Workers : Backed(job'[v])
      <3>1. Job("edit", m, t) \in JobRecord
        BY JobIsRecord DEF Ops
      <3>2. Backed(Job("edit", m, t))
        BY <2>7, ConstantsAssumption DEF Job, BeginEdit, HasRow, BodyStates
      <3>. QED
        BY <2>3, <2>7, <3>1, <3>2 DEF BeginEdit, Begin
    <2>8. ASSUME NEW w \in Workers, NEW m \in Messages, NEW d \in DeletedBody, BeginDelete(w, m, d)
          PROVE  \A v \in Workers : Backed(job'[v])
      <3>1. Job(d, m, NoText) \in JobRecord
        BY JobIsRecord DEF Ops
      <3>2. bodyState[m] \in BodyStates
        BY <2>8 DEF BeginDelete, BodyMoves, BodyTransitions, BodyStates
      <3>3. Backed(Job(d, m, NoText))
        BY <3>2, ConstantsAssumption DEF Job, HasRow
      <3>. QED
        BY <2>3, <2>8, <3>1, <3>3 DEF BeginDelete, Begin
    <2>9. ASSUME NEW w \in Workers, NEW plan \in SUBSET Messages, PlanEviction(w, plan)
          PROVE  \A v \in Workers : Backed(job'[v])
      <3>. DEFINE j == [Idle EXCEPT !.op = "evict", !.plan = plan]
      <3>1. j \in JobRecord /\ j.op = "evict" /\ j.plan = plan
        BY IdleIsJob DEF JobRecord, Ops, Idle
      <3>2. \A m \in plan : HasRow(m)
        BY <2>9 DEF PlanEviction, Evictable, RowInv, ReferentialIntegrity
      <3>3. Backed(j)
        BY <3>1, <3>2 DEF DeletedBody
      <3>. QED
        BY <2>3, <2>9, <3>1, <3>3 DEF PlanEviction, Begin
    <2>10. ASSUME NEW w \in Workers, NEW m \in Messages, EvictBody(w, m)
           PROVE  \A v \in Workers : Backed(job'[v])
      <3>. DEFINE j == IF job[w].plan = {m} THEN Idle ELSE [job[w] EXCEPT !.plan = @ \ {m}]
      <3>1. job[w] \in JobRecord
        BY DEF TypeInv, TypeOK, JobRecord
      <3>2. j \in JobRecord
        BY <3>1, IdleIsJob DEF JobRecord
      <3>3. Backed(j)
        BY <1>1, <1>2, <3>1 DEF JobRecord
      <3>. QED
        BY <2>3, <2>10, <3>2, <3>3 DEF EvictBody
    <2>11. CASE Crash
      BY <1>2, <2>11 DEF Crash
    <2>12. \/ UNCHANGED job
           \/ \E w \in Workers : job' = [job EXCEPT ![w] = Idle]
           \/ \E w \in Workers, m \in Messages :
                 BeginIngest(w, m) \/ BeginSend(w, m) \/ MarkSentOutbox(w, m) \/ EvictBody(w, m)
           \/ \E w \in Workers, m \in Messages, t \in Texts : BeginEdit(w, m, t)
           \/ \E w \in Workers, m \in Messages, d \in DeletedBody : BeginDelete(w, m, d)
           \/ \E w \in Workers, plan \in SUBSET Messages : PlanEviction(w, plan)
           \/ Crash
      BY DEF Next, WorkerStep, vars, CommitIngest, CommitSend, CommitEdit, CommitDelete,
             MarkSentJournal, Finish, Fail, MarkArchived, SendMedia
    <2>. QED
      BY <2>1, <2>2, <2>4, <2>5, <2>6, <2>7, <2>8, <2>9, <2>10, <2>11, <2>12
  <1>4. \A w \in Workers : job'[w].op \in {"edit", "mark_sent"} \cup DeletedBody
                              => job'[w].msg \in Messages
    BY TypeNext DEF TypeInv, JobHasMessage, DeletedBody
  <1>5. \A w \in Workers : job'[w].plan \subseteq Messages
    BY TypeNext DEF TypeInv, TypeOK
  <1>. QED
    BY <1>3, <1>4, <1>5, RowsStay DEF JobsHaveRow

LEMMA ReferentialIntegrityNext ==
  ASSUME TypeInv, RowInv, [Next]_vars
  PROVE  ReferentialIntegrity'
  <1>. SUFFICES ASSUME NEW m \in Messages, ~HasRow(m)'
                PROVE  /\ bodyText'[m] = NoText /\ m \notin media'
                       /\ fts'[m] = <<>> /\ lastMessage' # m
    BY DEF ReferentialIntegrity
  <1>1. bodyText[m] = NoText /\ m \notin media /\ fts[m] = <<>> /\ lastMessage # m /\ ~HasRow(m)
    BY RowsStay DEF RowInv, ReferentialIntegrity
  <1>2. CASE UNCHANGED <<bodyText, media, fts, lastMessage>>
    BY <1>1, <1>2
  <1>3. ASSUME NEW w \in Workers, CommitIngest(w) \/ (CommitSend(w) /\ InsertSkeleton(job[w].msg))
        PROVE  job[w].msg # m
    <2>1. job[w].msg \in Messages
      BY <1>3 DEF CommitIngest, CommitSend, TypeInv, JobHasMessage
    <2>2. bodyState' = [bodyState EXCEPT ![job[w].msg] = "local_plain_available"]
      BY <1>3 DEF CommitIngest, InsertSkeleton
    <2>3. bodyState'[job[w].msg] # NoRow
      BY <2>1, <2>2, ConstantsAssumption DEF TypeInv, TypeOK, BodyStates
    <2>. QED
      BY <2>3 DEF HasRow
  <1>4. ASSUME NEW w \in Workers, CommitIngest(w)
        PROVE  bodyText'[m] = NoText /\ m \notin media' /\ fts'[m] = <<>> /\ lastMessage' # m
    BY <1>1, <1>3, <1>4 DEF CommitIngest, InsertText, BumpConversation, TypeInv, TypeOK
  <1>5. ASSUME NEW w \in Workers, CommitSend(w)
        PROVE  bodyText'[m] = NoText /\ m \notin media' /\ fts'[m] = <<>> /\ lastMessage' # m
    BY <1>1, <1>3, <1>5 DEF CommitSend, InsertText, BumpConversation, rowVars, indexVars,
                            TypeInv, TypeOK
  <1>6. ASSUME NEW w \in Workers, CommitEdit(w)
        PROVE  bodyText'[m] = NoText /\ m \notin media' /\ fts'[m] = <<>> /\ lastMessage' # m
    <2>1. job[w].msg # m
      BY <1>1, <1>6 DEF CommitEdit, RowInv, JobsHaveRow
    <2>. QED
      BY <1>1, <1>6, <2>1 DEF CommitEdit, UpdateBody, Reindex, TypeInv, TypeOK
  <1>7. ASSUME NEW w \in Workers, CommitDelete(w)
        PROVE  bodyText'[m] = NoText /\ m \notin media' /\ fts'[m] = <<>> /\ lastMessage' # m
    BY <1>1, <1>7 DEF CommitDelete, Unindex, TypeInv, TypeOK
  <1>9. ASSUME NEW w \in Workers, NEW n \in Messages, NEW c \in Texts \cup {NullText},
               SendMedia(w, n, c)
        PROVE  bodyText'[m] = NoText /\ m \notin media' /\ fts'[m] = <<>> /\ lastMessage' # m
    <2>1. bodyState'[n] = "local_plain_available"
      BY <1>9 DEF SendMedia, InsertSkeleton, TypeInv, TypeOK
    <2>2. n # m
      BY <2>1, ConstantsAssumption DEF HasRow, BodyStates
    <2>. QED
      BY <1>1, <1>9, <2>2 DEF SendMedia, indexVars, TypeInv, TypeOK
  <1>8. \/ UNCHANGED <<bodyText, media, fts, lastMessage>>
        \/ \E w \in Workers, n \in Messages, c \in Texts \cup {NullText} : SendMedia(w, n, c)
        \/ \E w \in Workers : CommitIngest(w) \/ CommitSend(w) \/ CommitEdit(w) \/ CommitDelete(w)
    <2>. USE DEF store, rowVars, indexVars
    <2>1. ASSUME NEW w \in Workers, NEW j, Begin(w, j)
          PROVE  UNCHANGED <<bodyText, media, fts, lastMessage>>
      BY <2>1 DEF Begin
    <2>2. ASSUME NEW w \in Workers, NEW n \in Messages, EvictBody(w, n) \/ MarkSentOutbox(w, n)
          PROVE  UNCHANGED <<bodyText, media, fts, lastMessage>>
      BY <2>2 DEF EvictBody, MarkSentOutbox
    <2>3. ASSUME NEW w \in Workers, MarkSentJournal(w) \/ Fail(w)
          PROVE  UNCHANGED <<bodyText, media, fts, lastMessage>>
      BY <2>3 DEF MarkSentJournal, Fail
    <2>4. ASSUME Crash \/ (\E n \in Messages : MarkArchived(n)) \/ UNCHANGED vars
          PROVE  UNCHANGED <<bodyText, media, fts, lastMessage>>
      BY <2>4 DEF Crash, MarkArchived, vars
    <2>. QED
      BY <2>1, <2>2, <2>3, <2>4
         DEF Next, WorkerStep, BeginIngest, BeginSend, BeginEdit, BeginDelete, PlanEviction
  <1>. QED
    BY <1>2, <1>4, <1>5, <1>6, <1>7, <1>8, <1>9

LEMMA TombstoneHasNoTextNext ==
  ASSUME TypeInv, RowInv, [Next]_vars
  PROVE  TombstoneHasNoText'
  <1>. SUFFICES ASSUME NEW m \in Messages, bodyState'[m] = "deleted_for_everyone"
                PROVE  bodyText'[m] = NoText
    BY DEF TombstoneHasNoText
  <1>1. bodyState[m] = "deleted_for_everyone" => bodyText[m] = NoText
    BY DEF RowInv, TombstoneHasNoText
  <1>2. CASE UNCHANGED <<bodyState, bodyText>>
    BY <1>1, <1>2
  <1>3. ASSUME NEW w \in Workers, NEW n \in Messages, EvictBody(w, n)
        PROVE  bodyText'[m] = NoText
    BY <1>1, <1>3 DEF EvictBody, TypeInv, TypeOK
  <1>4. ASSUME NEW w \in Workers, CommitIngest(w) PROVE bodyText'[m] = NoText
    BY <1>1, <1>4 DEF CommitIngest, InsertSkeleton, InsertText, TypeInv, TypeOK
  <1>5. ASSUME NEW w \in Workers, CommitSend(w) PROVE bodyText'[m] = NoText
    BY <1>1, <1>5 DEF CommitSend, InsertSkeleton, InsertText, rowVars, TypeInv, TypeOK
  <1>6. ASSUME NEW w \in Workers, CommitEdit(w) PROVE bodyText'[m] = NoText
    BY <1>1, <1>6 DEF CommitEdit, UpdateBody, TypeInv, TypeOK
  <1>7. ASSUME NEW w \in Workers, CommitDelete(w) PROVE bodyText'[m] = NoText
    BY <1>1, <1>7 DEF CommitDelete, TypeInv, TypeOK
  <1>9. ASSUME NEW w \in Workers, NEW n \in Messages, NEW c \in Texts \cup {NullText},
               SendMedia(w, n, c)
        PROVE  bodyText'[m] = NoText
    <2>1. bodyState'[n] = "local_plain_available"
      BY <1>9 DEF SendMedia, InsertSkeleton, TypeInv, TypeOK
    <2>2. n # m
      BY <2>1
    <2>. QED
      BY <1>1, <1>9, <2>2 DEF SendMedia, InsertSkeleton, TypeInv, TypeOK
  <1>8. \/ UNCHANGED <<bodyState, bodyText>>
        \/ \E w \in Workers : \/ \E n \in Messages : EvictBody(w, n)
                              \/ \E n \in Messages, c \in Texts \cup {NullText} : SendMedia(w, n, c)
                              \/ CommitIngest(w) \/ CommitSend(w)
                              \/ CommitEdit(w) \/ CommitDelete(w)
    BY StoreWriters DEF StoreWriter, store, rowVars, MarkSentOutbox, MarkSentJournal, MarkArchived
  <1>. QED
    BY <1>2, <1>3, <1>4, <1>5, <1>6, <1>7, <1>8, <1>9

LEMMA RowInvariant == Spec => [](TypeInv /\ RowInv)
  <1>1. Init => RowInv
    BY ConstantsAssumption DEF Init, RowInv, ReferentialIntegrity, TombstoneHasNoText,
                               JobsHaveRow, Idle, DeletedBody, BodyStates
  <1>2. TypeInv /\ RowInv /\ [Next]_vars => RowInv'
    BY ReferentialIntegrityNext, TombstoneHasNoTextNext, JobsHaveRowNext DEF RowInv
  <1>. QED
    BY <1>1, <1>2, TypeInit, TypeNext, PTL DEF Spec

(* Bodies, media, index rows and the conversation's last message never     *)
(* name a message without a skeleton, however many threads interleave.     *)
THEOREM RowsAreReferred == Spec => []ReferentialIntegrity
  <1>1. RowInv => ReferentialIntegrity
    BY DEF RowInv
  <1>. QED
    BY <1>1, RowInvariant, PTL

(* What was deleted for everyone never has a stored text again.            *)
THEOREM TombstonesStayEmpty == Spec => []TombstoneHasNoText
  <1>1. RowInv => TombstoneHasNoText
    BY DEF RowInv
  <1>. QED
    BY <1>1, RowInvariant, PTL

--------------------------------------------------------------------------------
(* The journal, replayed.                                                  *)

(* The message exists, as a reader of the events sees it.                  *)
Creates(s) == \E i \in DOMAIN s : s[i] \in CreationEvents

(* An event of type e counts: the message was not created anew after it.   *)
Leaves(s, e) ==
    \E i \in DOMAIN s : /\ s[i] = e
                        /\ \A k \in DOMAIN s : k > i => s[k] \notin CreationEvents

LEMMA ReplayOfEmpty == ~Creates(<<>>) /\ (\A e \in EventTypes : ~Leaves(<<>>, e))
  BY DEF Creates, Leaves

(* What one more event does to the replay: a creation forgets every mark,  *)
(* any other event leaves its own.                                         *)
LEMMA ReplayOfAppend ==
  ASSUME NEW s \in Seq(EventTypes), NEW x \in EventTypes, NEW e \in EventTypes
  PROVE  /\ Creates(Append(s, x)) <=> Creates(s) \/ x \in CreationEvents
         /\ Leaves(Append(s, x), e) <=> x = e \/ (x \notin CreationEvents /\ Leaves(s, e))
  <1>. DEFINE r == Append(s, x)
              n == Len(s) + 1
  <1>1. /\ DOMAIN s = 1..Len(s)
        /\ DOMAIN r = 1..n
        /\ Len(s) \in Nat
        /\ \A i \in DOMAIN s : i \in DOMAIN r /\ r[i] = s[i] /\ n > i
        /\ \A i \in DOMAIN r : i \in DOMAIN s \/ i = n
        /\ n \in DOMAIN r
        /\ r[n] = x
    OBVIOUS
  <1>. HIDE DEF r, n
  <1>2. Creates(r) <=> Creates(s) \/ x \in CreationEvents
    BY <1>1 DEF Creates
  <1>3. ASSUME x = e PROVE Leaves(r, e)
    <2>1. \A k \in DOMAIN r : ~(k > n)
      BY <1>1 DEF n
    <2>. QED
      BY <1>1, <1>3, <2>1 DEF Leaves
  <1>4. ASSUME x \notin CreationEvents, Leaves(s, e) PROVE Leaves(r, e)
    BY <1>1, <1>4 DEF Leaves
  <1>5. ASSUME Leaves(r, e), x # e PROVE x \notin CreationEvents /\ Leaves(s, e)
    <2>1. PICK i \in DOMAIN r : /\ r[i] = e
                                /\ \A k \in DOMAIN r : k > i => r[k] \notin CreationEvents
      BY <1>5 DEF Leaves
    <2>2. i \in DOMAIN s
      BY <1>1, <1>5, <2>1
    <2>. QED
      BY <1>1, <2>1, <2>2 DEF Leaves
  <1>. QED
    BY <1>2, <1>3, <1>4, <1>5 DEF r

(* An id once queued stays queued.                                         *)
LEMMA QueuedStays ==
  ASSUME TypeInv, [Next]_vars, NEW m \in Messages
  PROVE  /\ SentAsMedia(m)' => SentAsMedia(m)
         /\ \/ SentAsMedia(m) => SentAsMedia(m)'
            \/ \E w \in Workers : CommitSend(w) /\ job[w].msg = m
  <1>. USE DEF TypeInv, TypeOK, SentAsMedia
  <1>1. CASE UNCHANGED outbox
    BY <1>1
  <1>2. ASSUME NEW w \in Workers, CommitSend(w)
        PROVE  /\ SentAsMedia(m)' => SentAsMedia(m)
               /\ job[w].msg # m => (SentAsMedia(m) => SentAsMedia(m)')
    BY <1>2 DEF CommitSend
  <1>3. ASSUME NEW w \in Workers, NEW n \in Messages, MarkSentOutbox(w, n)
        PROVE  SentAsMedia(m)' <=> SentAsMedia(m)
    BY <1>3 DEF MarkSentOutbox
  <1>4. \/ UNCHANGED outbox
        \/ \E w \in Workers : CommitSend(w) \/ \E n \in Messages : MarkSentOutbox(w, n)
    BY StoreWriters DEF StoreWriter, store, EvictBody, SendMedia, CommitIngest, MarkSentJournal,
                        CommitEdit, CommitDelete, MarkArchived
  <1>. QED
    BY <1>1, <1>2, <1>3, <1>4

(* Who creates a skeleton.                                                 *)
LEMMA RowAppears ==
  ASSUME TypeInv, RowInv, [Next]_vars, NEW m \in Messages, ~HasRow(m), HasRow(m)'
  PROVE  \E w \in Workers :
            \/ CommitIngest(w) /\ job[w].msg = m
            \/ CommitSend(w) /\ job[w].msg = m
            \/ \E c \in Texts \cup {NullText} : SendMedia(w, m, c)
  <1>. USE DEF TypeInv, TypeOK, HasRow
  <1>1. CASE UNCHANGED bodyState
    BY <1>1
  <1>2. ASSUME NEW w \in Workers, NEW n \in Messages, EvictBody(w, n) PROVE FALSE
    <2>1. HasRow(n)
      BY <1>2 DEF EvictBody, RowInv, JobsHaveRow
    <2>. QED
      BY <1>2, <2>1 DEF EvictBody
  <1>3. ASSUME NEW w \in Workers, CommitDelete(w) PROVE FALSE
    <2>1. HasRow(job[w].msg)
      BY <1>3 DEF CommitDelete, RowInv, JobsHaveRow
    <2>. QED
      BY <1>3, <2>1 DEF CommitDelete
  <1>4. ASSUME NEW w \in Workers, CommitIngest(w) PROVE job[w].msg = m
    BY <1>4 DEF CommitIngest, InsertSkeleton
  <1>5. ASSUME NEW w \in Workers, CommitSend(w) PROVE job[w].msg = m
    BY <1>5 DEF CommitSend, InsertSkeleton, rowVars
  <1>6. ASSUME NEW w \in Workers, NEW n \in Messages, NEW c \in Texts \cup {NullText},
               SendMedia(w, n, c)
        PROVE  n = m
    BY <1>6 DEF SendMedia, InsertSkeleton
  <1>7. \/ UNCHANGED bodyState
        \/ \E w \in Workers : \/ \E n \in Messages : EvictBody(w, n)
                              \/ \E n \in Messages, c \in Texts \cup {NullText} : SendMedia(w, n, c)
                              \/ CommitIngest(w) \/ CommitSend(w) \/ CommitDelete(w)
    BY StoreWriters DEF StoreWriter, store, rowVars, MarkSentOutbox, MarkSentJournal, CommitEdit,
                        MarkArchived
  <1>. QED
    BY <1>1, <1>2, <1>3, <1>4, <1>5, <1>6, <1>7

(* The ids that are being ingested or queued are not those send_media      *)
(* gives its messages.                                                     *)
FreshJobs ==
    \A w \in Workers :
        /\ job[w].op = "ingest" => ~SentAsMedia(job[w].msg)
        /\ job[w].op = "send" => ~(HasRow(job[w].msg) /\ SentAsMedia(job[w].msg))

LEMMA FreshJobsNext ==
  ASSUME TypeInv, RowInv, FreshJobs, [Next]_vars
  PROVE  FreshJobs'
  <1>. SUFFICES ASSUME NEW w \in Workers, job'[w].op \in {"ingest", "send"},
                       SentAsMedia(job[w].msg)',
                       job'[w].op = "send" => HasRow(job[w].msg)'
                PROVE  FALSE
    BY DEF FreshJobs
  <1>1. PICK m \in Messages : m = job'[w].msg
    BY TypeNext DEF TypeInv, JobHasMessage
  <1>2. SentAsMedia(m)
    BY <1>1, QueuedStays DEF SentAsMedia
  <1>3. CASE job'[w] = job[w]
    <2>1. job[w].op = "send" /\ ~HasRow(m) /\ HasRow(m)'
      BY <1>1, <1>2, <1>3 DEF FreshJobs, HasRow
    <2>2. ASSUME NEW v \in Workers, CommitIngest(v), job[v].msg = m PROVE FALSE
      BY <1>2, <2>2 DEF FreshJobs, CommitIngest
    <2>3. ASSUME NEW v \in Workers, CommitSend(v), job[v].msg = m PROVE FALSE
      BY <1>1, <2>3 DEF CommitSend, SentAsMedia, TypeInv, TypeOK
    <2>4. ASSUME NEW v \in Workers, NEW c \in Texts \cup {NullText}, SendMedia(v, m, c) PROVE FALSE
      BY <1>1, <1>3, <2>4 DEF SendMedia
    <2>. QED
      BY <2>1, <2>2, <2>3, <2>4, RowAppears
  <1>4. CASE job'[w] # job[w]
    <2>1. ASSUME NEW v \in Workers, NEW j, Begin(v, j)
          PROVE  v = w /\ job'[w] = j /\ UNCHANGED store
      BY <1>4, <2>1 DEF Begin, TypeInv, TypeOK
    <2>2. ASSUME NEW v \in Workers, NEW n \in Messages, BeginIngest(v, n) PROVE FALSE
      <3>1. job'[w] = Job("ingest", n, Original[n])
        BY <2>1, <2>2 DEF BeginIngest
      <3>2. m = n /\ (n \in Remote \/ outbox[n] # "none")
        BY <1>1, <2>2, <3>1 DEF Job, BeginIngest
      <3>. QED
        BY <1>2, <3>2, ConstantsAssumption DEF SentAsMedia
    <2>3. ASSUME NEW v \in Workers, NEW n \in Messages, BeginSend(v, n) PROVE FALSE
      <3>1. PICK t : Begin(v, Job("send", n, t))
        BY <2>3 DEF BeginSend
      <3>2. job'[w] = Job("send", n, t) /\ bodyState' = bodyState
        BY <2>1, <3>1 DEF store, rowVars
      <3>3. m = n /\ job'[w].op = "send"
        BY <1>1, <3>2 DEF Job
      <3>. QED
        BY <1>1, <2>3, <3>2, <3>3 DEF BeginSend, HasRow
    <2>4. ASSUME NEW v \in Workers, NEW n \in Messages, NEW t \in Texts, BeginEdit(v, n, t)
          PROVE  FALSE
      <3>1. job'[w] = Job("edit", n, t)
        BY <2>1, <2>4 DEF BeginEdit
      <3>. QED
        BY <3>1 DEF Job
    <2>5. ASSUME NEW v \in Workers, NEW n \in Messages, NEW d \in DeletedBody, BeginDelete(v, n, d)
          PROVE  FALSE
      <3>1. job'[w] = Job(d, n, NoText)
        BY <2>1, <2>5 DEF BeginDelete
      <3>. QED
        BY <3>1 DEF Job, DeletedBody
    <2>6. ASSUME NEW v \in Workers, NEW plan \in SUBSET Messages, PlanEviction(v, plan)
          PROVE  FALSE
      <3>1. job'[w] = [Idle EXCEPT !.op = "evict", !.plan = plan]
        BY <2>1, <2>6 DEF PlanEviction
      <3>. QED
        BY <3>1 DEF Idle
    <2>7. ASSUME NEW v \in Workers, NEW n \in Messages, EvictBody(v, n) PROVE FALSE
      <3>1. v = w /\ job[w].op = "evict" /\ job'[w].op \in {"idle", "evict"}
        BY <1>4, <2>7 DEF EvictBody, Idle, TypeInv, TypeOK
      <3>. QED
        BY <3>1
    <2>8. ASSUME NEW v \in Workers, NEW n \in Messages, MarkSentOutbox(v, n) PROVE FALSE
      <3>1. job'[w] = Job("mark_sent", n, NoText)
        BY <1>4, <2>8 DEF MarkSentOutbox, TypeInv, TypeOK
      <3>. QED
        BY <3>1 DEF Job
    <2>9. ASSUME NEW v \in Workers, Finish(v) \/ MarkSentJournal(v) \/ Fail(v) PROVE FALSE
      <3>1. job' = [job EXCEPT ![v] = Idle]
        BY <2>9 DEF Finish, MarkSentJournal, Fail
      <3>2. job'[w] = Idle
        BY <1>4, <3>1 DEF TypeInv, TypeOK
      <3>. QED
        BY <3>2 DEF Idle
    <2>10. CASE Crash
      BY <2>10 DEF Crash, Idle
    <2>11. CASE UNCHANGED job
      BY <1>4, <2>11
    <2>12. \/ UNCHANGED job
           \/ Crash
           \/ \E v \in Workers, n \in Messages :
                 \/ BeginIngest(v, n) \/ BeginSend(v, n) \/ MarkSentOutbox(v, n) \/ EvictBody(v, n)
           \/ \E v \in Workers, n \in Messages, t \in Texts : BeginEdit(v, n, t)
           \/ \E v \in Workers, n \in Messages, d \in DeletedBody : BeginDelete(v, n, d)
           \/ \E v \in Workers, plan \in SUBSET Messages : PlanEviction(v, plan)
           \/ \E v \in Workers : Finish(v) \/ MarkSentJournal(v) \/ Fail(v)
      BY DEF Next, WorkerStep, vars, CommitIngest, CommitSend, CommitEdit, CommitDelete,
             MarkArchived, SendMedia
    <2>. QED
      BY <2>2, <2>3, <2>4, <2>5, <2>6, <2>7, <2>8, <2>9, <2>10, <2>11, <2>12
  <1>. QED
    BY <1>3, <1>4

(* The marks of a row are those its events leave.                          *)
Explained(m) ==
    /\ HasRow(m) /\ ~SentAsMedia(m) <=> Creates(journal[m])
    /\ ~HasRow(m) => ~deleted[m] /\ ~edited[m]
    /\ deleted[m] <=> Leaves(journal[m], "message_deleted")
    /\ edited[m] <=> Leaves(journal[m], "message_edited")

LEMMA ExplainedIsProperty == (\A m \in Messages : Explained(m)) => JournalExplainsRow
  BY DEF JournalExplainsRow, Explained, Stands, Creates, Leaves

(* A step that leaves the four tables of a message alone, and one that     *)
(* logs an event without a mark of its own.                                *)
LEMMA StillExplained ==
  ASSUME NEW m \in Messages, Explained(m),
         bodyState'[m] = bodyState[m], deleted'[m] = deleted[m],
         edited'[m] = edited[m], journal'[m] = journal[m],
         HasRow(m) => (SentAsMedia(m)' <=> SentAsMedia(m))
  PROVE  Explained(m)'
  BY DEF Explained, HasRow, Creates, Leaves

LEMMA CreationExplained ==
  ASSUME TypeInv, NEW m \in Messages, NEW e \in CreationEvents,
         InsertSkeleton(m), Log(m, e), \A n \in Messages : Explained(n),
         ~SentAsMedia(m)', \A n \in Messages \ {m} : SentAsMedia(n)' <=> SentAsMedia(n)
  PROVE  \A n \in Messages : Explained(n)'
  <1>1. e \in EventTypes /\ e \notin {"message_deleted", "message_edited"}
    BY DEF CreationEvents, EventTypes
  <1>2. /\ bodyState'[m] # NoRow /\ ~deleted'[m] /\ ~edited'[m]
        /\ journal'[m] = Append(journal[m], e)
        /\ journal[m] \in Seq(EventTypes)
    BY ConstantsAssumption DEF InsertSkeleton, Log, TypeInv, TypeOK, BodyStates
  <1>3. Creates(journal'[m])
    BY <1>1, <1>2, ReplayOfAppend
  <1>4. ~Leaves(journal'[m], "message_deleted")
    <2>1. "message_deleted" \in EventTypes
      BY DEF EventTypes
    <2>. QED
      BY <1>1, <1>2, <2>1, ReplayOfAppend
  <1>5. ~Leaves(journal'[m], "message_edited")
    <2>1. "message_edited" \in EventTypes
      BY DEF EventTypes
    <2>. QED
      BY <1>1, <1>2, <2>1, ReplayOfAppend
  <1>6. Explained(m)'
    BY <1>2, <1>3, <1>4, <1>5 DEF Explained, HasRow
  <1>7. \A n \in Messages \ {m} : Explained(n)'
    <2>1. \A n \in Messages \ {m} : /\ bodyState'[n] = bodyState[n] /\ deleted'[n] = deleted[n]
                                    /\ edited'[n] = edited[n] /\ journal'[n] = journal[n]
      BY DEF InsertSkeleton, Log, TypeInv, TypeOK
    <2>. QED
      BY <2>1, StillExplained
  <1>. QED
    BY <1>6, <1>7

LEMMA AppendTwice ==
  ASSUME NEW S, NEW s \in Seq(S), NEW a \in S, NEW b \in S
  PROVE  /\ s \o <<a>> = Append(s, a)
         /\ s \o <<a, b>> = Append(Append(s, a), b)
  OBVIOUS

LEMMA JournalExplainsRowNext ==
  ASSUME TypeInv, RowInv, FreshJobs, \A m \in Messages : Explained(m), [Next]_vars
  PROVE  \A m \in Messages : Explained(m)'
  <1>. DEFINE Goal == \A m \in Messages : Explained(m)'
  <1>1. CASE UNCHANGED <<bodyState, deleted, edited, journal, outbox>>
    BY <1>1, StillExplained DEF SentAsMedia
  <1>2. ASSUME NEW w \in Workers, CommitIngest(w) PROVE Goal
    <2>1. PICK m \in Messages : m = job[w].msg
      BY <1>2 DEF CommitIngest, TypeInv, JobHasMessage
    <2>2. /\ InsertSkeleton(m)
          /\ Log(m, "message_received")
          /\ "message_received" \in CreationEvents
      BY <1>2, <2>1 DEF CommitIngest, CreationEvents
    <2>3. outbox' = outbox /\ ~SentAsMedia(m)
      BY <1>2, <2>1 DEF CommitIngest, FreshJobs
    <2>. QED
      BY <2>2, <2>3, CreationExplained DEF SentAsMedia
  <1>3. ASSUME NEW w \in Workers, CommitSend(w) PROVE Goal
    <2>1. PICK m \in Messages : m = job[w].msg
      BY <1>3 DEF CommitSend, TypeInv, JobHasMessage
    <2>2. /\ ~SentAsMedia(m)'
          /\ \A n \in Messages \ {m} : SentAsMedia(n)' <=> SentAsMedia(n)
          /\ ~(HasRow(m) /\ SentAsMedia(m))
      BY <1>3, <2>1 DEF CommitSend, SentAsMedia, TypeInv, TypeOK, FreshJobs
    <2>3. CASE UNCHANGED <<rowVars, journal>>
      BY <2>2, <2>3, StillExplained DEF rowVars
    <2>4. ASSUME InsertSkeleton(m), Log(m, "outbox_pending") PROVE Goal
      BY <2>2, <2>4, CreationExplained DEF CreationEvents
    <2>. QED
      BY <1>3, <2>1, <2>3, <2>4 DEF CommitSend
  <1>4. ASSUME NEW w \in Workers, MarkSentJournal(w) PROVE Goal
    <2>1. PICK n \in Messages : n = job[w].msg
      BY <1>4 DEF MarkSentJournal, TypeInv, JobHasMessage
    <2>2. /\ journal' = [journal EXCEPT ![n] = Append(journal[n], "outbox_sent")]
          /\ UNCHANGED <<bodyState, deleted, edited, outbox>>
      BY <1>4, <2>1 DEF MarkSentJournal, Log, rowVars
    <2>3. journal[n] \in Seq(EventTypes) /\ journal'[n] = Append(journal[n], "outbox_sent")
      BY <2>1, <2>2 DEF TypeInv, TypeOK
    <2>4. /\ {"outbox_sent", "message_deleted", "message_edited"} \subseteq EventTypes
          /\ "outbox_sent" \notin CreationEvents
      BY DEF EventTypes, CreationEvents
    <2>5. /\ Creates(journal'[n]) <=> Creates(journal[n])
          /\ Leaves(journal'[n], "message_deleted") <=> Leaves(journal[n], "message_deleted")
          /\ Leaves(journal'[n], "message_edited") <=> Leaves(journal[n], "message_edited")
      BY <2>3, <2>4, ReplayOfAppend
    <2>6. Explained(n)'
      BY <2>1, <2>2, <2>5 DEF Explained, HasRow, SentAsMedia
    <2>7. \A m \in Messages \ {n} : journal'[m] = journal[m]
      BY <2>2 DEF TypeInv, TypeOK
    <2>. QED
      BY <2>1, <2>2, <2>6, <2>7, StillExplained DEF SentAsMedia
  <1>5. ASSUME NEW w \in Workers, CommitEdit(w) PROVE Goal
    <2>1. PICK n \in Messages : n = job[w].msg
      BY <1>5 DEF CommitEdit, TypeInv, JobHasMessage
    <2>2. /\ journal' = [journal EXCEPT ![n] = Append(journal[n], "message_edited")]
          /\ edited' = [edited EXCEPT ![n] = TRUE]
          /\ UNCHANGED <<bodyState, deleted, outbox>>
          /\ HasRow(n)
      BY <1>5, <2>1 DEF CommitEdit, Log, RowInv, JobsHaveRow
    <2>3. /\ journal[n] \in Seq(EventTypes)
          /\ journal'[n] = Append(journal[n], "message_edited")
          /\ edited'[n]
      BY <2>1, <2>2 DEF TypeInv, TypeOK
    <2>4. /\ {"message_deleted", "message_edited"} \subseteq EventTypes
          /\ "message_edited" \notin CreationEvents
      BY DEF EventTypes, CreationEvents
    <2>5. /\ Creates(journal'[n]) <=> Creates(journal[n])
          /\ Leaves(journal'[n], "message_deleted") <=> Leaves(journal[n], "message_deleted")
          /\ Leaves(journal'[n], "message_edited")
      BY <2>3, <2>4, ReplayOfAppend
    <2>6. Explained(n)'
      BY <2>1, <2>2, <2>3, <2>5 DEF Explained, HasRow, SentAsMedia
    <2>7. \A m \in Messages \ {n} : journal'[m] = journal[m] /\ edited'[m] = edited[m]
      BY <2>2 DEF TypeInv, TypeOK
    <2>. QED
      BY <2>1, <2>2, <2>6, <2>7, StillExplained DEF SentAsMedia
  <1>6. ASSUME NEW w \in Workers, CommitDelete(w) PROVE Goal
    <2>. DEFINE d == "message_deleted"
    <2>1. PICK n \in Messages : n = job[w].msg /\ job[w].op \in DeletedBody /\ HasRow(n)
      BY <1>6 DEF CommitDelete, TypeInv, JobHasMessage, DeletedBody, RowInv, JobsHaveRow
    <2>2. /\ bodyState' = [bodyState EXCEPT ![n] = job[w].op]
          /\ deleted' = [deleted EXCEPT ![n] = TRUE]
          /\ edited' = edited /\ outbox' = outbox
          /\ journal' = [journal EXCEPT ![n] =
                            journal[n] \o IF n \in media THEN <<d, "media_deleted">> ELSE <<d>>]
      BY <1>6, <2>1 DEF CommitDelete
    <2>3. bodyState'[n] # NoRow /\ deleted'[n]
      BY <2>1, <2>2, ConstantsAssumption DEF TypeInv, TypeOK, DeletedBody, BodyStates
    <2>4. /\ {d, "media_deleted", "message_edited"} \subseteq EventTypes
          /\ d \notin CreationEvents /\ "media_deleted" \notin CreationEvents
      BY DEF EventTypes, CreationEvents
    <2>5. journal[n] \in Seq(EventTypes)
      BY <2>1 DEF TypeInv, TypeOK
    <2>6. \/ journal'[n] = Append(journal[n], d)
          \/ journal'[n] = Append(Append(journal[n], d), "media_deleted")
      <3>1. /\ journal[n] \o <<d>> = Append(journal[n], d)
            /\ journal[n] \o <<d, "media_deleted">> = Append(Append(journal[n], d), "media_deleted")
        BY <2>4, <2>5, AppendTwice
      <3>. QED
        BY <2>1, <2>2, <3>1 DEF TypeInv, TypeOK
    <2>7. Append(journal[n], d) \in Seq(EventTypes)
      BY <2>4, <2>5
    <2>8. LET s == Append(journal[n], d)
          IN  /\ Creates(s) <=> Creates(journal[n])
              /\ Leaves(s, d)
              /\ Leaves(s, "message_edited") <=> Leaves(journal[n], "message_edited")
      BY <2>4, <2>5, ReplayOfAppend
    <2>9. LET s == Append(Append(journal[n], d), "media_deleted")
          IN  /\ Creates(s) <=> Creates(journal[n])
              /\ Leaves(s, d)
              /\ Leaves(s, "message_edited") <=> Leaves(journal[n], "message_edited")
      BY <2>4, <2>7, <2>8, ReplayOfAppend
    <2>10. Explained(n)'
      BY <2>1, <2>2, <2>3, <2>6, <2>8, <2>9 DEF Explained, HasRow, SentAsMedia
    <2>11. \A m \in Messages \ {n} : /\ bodyState'[m] = bodyState[m]
                                     /\ deleted'[m] = deleted[m] /\ journal'[m] = journal[m]
      BY <2>2 DEF TypeInv, TypeOK
    <2>. QED
      BY <2>2, <2>10, <2>11, StillExplained DEF SentAsMedia
  <1>7. ASSUME NEW w \in Workers, NEW n \in Messages, EvictBody(w, n) PROVE Goal
    <2>1. HasRow(n)
      BY <1>7 DEF EvictBody, RowInv, JobsHaveRow
    <2>2. /\ bodyState' = [bodyState EXCEPT ![n] = "remote_archive_only"]
          /\ UNCHANGED <<deleted, edited, journal, outbox>>
      BY <1>7 DEF EvictBody
    <2>3. \A m \in Messages : HasRow(m)' <=> HasRow(m)
      BY <2>1, <2>2, ConstantsAssumption DEF HasRow, TypeInv, TypeOK, BodyStates
    <2>. QED
      BY <2>2, <2>3 DEF Explained, SentAsMedia
  <1>9. ASSUME NEW w \in Workers, NEW n \in Messages, NEW c \in Texts \cup {NullText},
               SendMedia(w, n, c)
        PROVE  Goal
    <2>1. InsertSkeleton(n) /\ ~HasRow(n) /\ SentAsMedia(n) /\ UNCHANGED <<journal, outbox>>
      BY <1>9 DEF SendMedia, SentAsMedia
    <2>2. HasRow(n)' /\ ~deleted'[n] /\ ~edited'[n]
      BY <2>1, ConstantsAssumption DEF InsertSkeleton, HasRow, TypeInv, TypeOK, BodyStates
    <2>3. Explained(n)'
      BY <2>1, <2>2 DEF Explained, SentAsMedia
    <2>4. \A m \in Messages \ {n} : /\ bodyState'[m] = bodyState[m] /\ deleted'[m] = deleted[m]
                                    /\ edited'[m] = edited[m]
      BY <2>1 DEF InsertSkeleton, TypeInv, TypeOK
    <2>. QED
      BY <2>1, <2>3, <2>4, StillExplained DEF SentAsMedia
  <1>10. ASSUME NEW w \in Workers, NEW n \in Messages, MarkSentOutbox(w, n) PROVE Goal
    <2>1. UNCHANGED <<bodyState, deleted, edited, journal>>
      BY <1>10 DEF MarkSentOutbox, rowVars
    <2>2. \A m \in Messages : SentAsMedia(m)' <=> SentAsMedia(m)
      BY <1>10 DEF MarkSentOutbox, SentAsMedia, TypeInv, TypeOK
    <2>. QED
      BY <2>1, <2>2, StillExplained
  <1>8. \/ UNCHANGED <<bodyState, deleted, edited, journal, outbox>>
        \/ \E w \in Workers : \/ \E n \in Messages : EvictBody(w, n) \/ MarkSentOutbox(w, n)
                              \/ \E n \in Messages, c \in Texts \cup {NullText} : SendMedia(w, n, c)
                              \/ CommitIngest(w) \/ CommitSend(w) \/ MarkSentJournal(w)
                              \/ CommitEdit(w) \/ CommitDelete(w)
    BY StoreWriters DEF StoreWriter, store, rowVars, MarkArchived
  <1>. QED
    BY <1>1, <1>2, <1>3, <1>4, <1>5, <1>6, <1>7, <1>8, <1>9, <1>10

(* Whatever the threads interleave, whoever replays the events of a        *)
(* message learns whether it was deleted and was edited, and whether it    *)
(* exists if it is not one of send_media: every other operation that       *)
(* changes those marks logs it in the same savepoint.                      *)
THEOREM JournalTellsRows == Spec => []JournalExplainsRow
  <1>. DEFINE Inv == FreshJobs /\ \A m \in Messages : Explained(m)
  <1>1. Init => Inv
    BY ReplayOfEmpty DEF Init, Explained, HasRow, EventTypes, FreshJobs, Idle
  <1>2. TypeInv /\ RowInv /\ Inv /\ [Next]_vars => Inv'
    BY JournalExplainsRowNext, FreshJobsNext
  <1>3. Inv => JournalExplainsRow
    BY ExplainedIsProperty
  <1>. QED
    BY <1>1, <1>2, <1>3, RowInvariant, PTL DEF Spec

--------------------------------------------------------------------------------
(* One worker at a time.                                                   *)

(* The host serializes its calls.  With a second worker each of the three  *)
(* theorems below fails: what was checked before the write mutex was taken *)
(* may be over when it is.                                                 *)
RunsAlone == \E w : Workers = {w}

CreatedOnce(s) ==
    \A i, k \in DOMAIN s : s[i] \in CreationEvents /\ s[k] \in CreationEvents => i = k

LEMMA CreatedOnceOfAppend ==
  ASSUME NEW s \in Seq(EventTypes), NEW x \in EventTypes, CreatedOnce(s),
         Creates(s) => x \notin CreationEvents
  PROVE  CreatedOnce(Append(s, x))
  <1>. DEFINE r == Append(s, x)
              n == Len(s) + 1
  <1>1. /\ \A i \in DOMAIN s : r[i] = s[i]
        /\ \A i \in DOMAIN r : i \in DOMAIN s \/ i = n
        /\ r[n] = x
    OBVIOUS
  <1>. HIDE DEF r, n
  <1>2. CreatedOnce(r)
    BY <1>1 DEF CreatedOnce, Creates
  <1>. QED
    BY <1>2 DEF r

(* What a lone worker saw when it began still holds when it commits.       *)
CheckHolds(j) ==
    /\ j.op \in {"ingest", "send"} => ~HasRow(j.msg)
    /\ j.op \in {"edit"} \cup DeletedBody => bodyState[j.msg] = "local_plain_available"
    /\ \A m \in j.plan : HasRow(m) /\ ~deleted[m]

ReachedStates == {NoRow, "local_plain_available", "remote_archive_only"} \cup DeletedBody

(* Everything a reader can compare of one message agrees.                  *)
Consistent(m) ==
    /\ bodyState[m] \in ReachedStates
    /\ deleted[m] <=> bodyState[m] \in DeletedBody
    /\ deleted[m] => fts[m] = <<>>
    /\ HasRow(m) /\ ~deleted[m] /\ bodyText[m] \in Texts =>
          fts[m] = IF SentAsMedia(m) /\ ~edited[m] THEN <<>> ELSE <<bodyText[m]>>
    /\ CreatedOnce(journal[m])

AloneInv ==
    /\ \A w \in Workers : CheckHolds(job[w])
    /\ \A m \in Messages : Consistent(m)

(* All that is known before a step.                                        *)
StoreInv == TypeInv /\ RowInv /\ FreshJobs /\ (\A m \in Messages : Explained(m))

LEMMA StillConsistent ==
  ASSUME NEW m \in Messages, Consistent(m),
         bodyState'[m] = bodyState[m], deleted'[m] = deleted[m], fts'[m] = fts[m],
         bodyText'[m] = bodyText[m], journal'[m] = journal[m], edited'[m] = edited[m],
         HasRow(m) => (SentAsMedia(m)' <=> SentAsMedia(m))
  PROVE  Consistent(m)'
  BY DEF Consistent, HasRow, CreatedOnce

LEMMA CheckHoldsInit == Init => \A w \in Workers : CheckHolds(job[w])
  BY DEF Init, CheckHolds, Idle, DeletedBody

(* A lone worker's check is not disturbed: only its own steps write the    *)
(* tables, and the host's archive marks touch none of what was checked.    *)
LEMMA CheckHoldsNext ==
  ASSUME RunsAlone, StoreInv, AloneInv, [Next]_vars
  PROVE  \A w \in Workers : CheckHolds(job[w])'
  <1>. USE DEF StoreInv, TypeInv, TypeOK
  <1>0. PICK w : Workers = {w}
    BY DEF RunsAlone
  <1>. DEFINE Goal == \A v \in Workers : CheckHolds(job[v])'
  <1>1. CASE job'[w] = Idle
    BY <1>0, <1>1 DEF CheckHolds, Idle, DeletedBody
  <1>2. CASE UNCHANGED <<bodyState, deleted, job>>
    BY <1>2 DEF AloneInv, CheckHolds, HasRow
  <1>11. ASSUME NEW m \in Messages, NEW c \in Texts \cup {NullText}, SendMedia(w, m, c) PROVE Goal
    <2>1. job[w] = Idle /\ job' = job
      BY <1>11 DEF SendMedia
    <2>. QED
      BY <1>0, <2>1 DEF CheckHolds, Idle, DeletedBody
  <1>3. ASSUME NEW j \in JobRecord, CheckHolds(j), Begin(w, j) PROVE Goal
    <2>1. job'[w] = j /\ UNCHANGED <<bodyState, deleted>>
      BY <1>0, <1>3 DEF Begin, store, rowVars
    <2>. QED
      BY <1>0, <1>3, <2>1 DEF CheckHolds, HasRow
  <1>4. ASSUME NEW m \in Messages, BeginIngest(w, m) \/ BeginSend(w, m) PROVE Goal
    <2>1. PICK op \in {"ingest", "send"}, t \in {Original[m], NoText} :
             Begin(w, Job(op, m, t)) /\ ~HasRow(m)
      BY <1>4 DEF BeginIngest, BeginSend
    <2>2. op \in Ops
      BY DEF Ops
    <2>3. Job(op, m, t) \in JobRecord
      BY <2>2, ConstantsAssumption, JobIsRecord
    <2>4. CheckHolds(Job(op, m, t))
      BY <2>1, <2>2 DEF CheckHolds, Job, DeletedBody
    <2>. QED
      BY <1>3, <2>1, <2>3, <2>4
  <1>5. ASSUME NEW m \in Messages, NEW t \in Texts, BeginEdit(w, m, t) PROVE Goal
    <2>1. Job("edit", m, t) \in JobRecord
      BY JobIsRecord DEF Ops
    <2>2. CheckHolds(Job("edit", m, t))
      BY <1>5 DEF BeginEdit, CheckHolds, Job
    <2>. QED
      BY <1>3, <1>5, <2>1, <2>2 DEF BeginEdit
  <1>6. ASSUME NEW m \in Messages, NEW d \in DeletedBody, BeginDelete(w, m, d) PROVE Goal
    <2>1. Job(d, m, NoText) \in JobRecord
      BY JobIsRecord DEF Ops
    <2>2. bodyState[m] = "local_plain_available"
      BY <1>6 DEF BeginDelete, BodyMoves, BodyTransitions, DeletedBody
    <2>3. CheckHolds(Job(d, m, NoText))
      BY <2>2 DEF CheckHolds, Job, DeletedBody
    <2>. QED
      BY <1>3, <1>6, <2>1, <2>3 DEF BeginDelete
  <1>7. ASSUME NEW plan \in SUBSET Messages, PlanEviction(w, plan) PROVE Goal
    <2>. DEFINE j == [Idle EXCEPT !.op = "evict", !.plan = plan]
    <2>1. j \in JobRecord /\ j.op = "evict" /\ j.plan = plan
      BY IdleIsJob DEF JobRecord, Ops, Idle
    <2>2. \A m \in plan : HasRow(m) /\ ~deleted[m]
      BY <1>7 DEF PlanEviction, Evictable, RowInv, ReferentialIntegrity
    <2>3. CheckHolds(j)
      BY <2>1, <2>2 DEF CheckHolds, DeletedBody
    <2>4. Begin(w, j)
      BY <1>7 DEF PlanEviction
    <2>. HIDE DEF j
    <2>. QED
      BY <1>3, <2>1, <2>3, <2>4
  <1>8. ASSUME NEW m \in Messages, MarkSentOutbox(w, m) PROVE Goal
    <2>1. job'[w] = Job("mark_sent", m, NoText)
      BY <1>0, <1>8 DEF MarkSentOutbox
    <2>. QED
      BY <1>0, <2>1 DEF CheckHolds, Job, DeletedBody
  <1>9. ASSUME NEW m \in Messages, EvictBody(w, m) PROVE Goal
    <2>1. CASE job[w].plan = {m}
      BY <1>0, <1>1, <1>9, <2>1 DEF EvictBody
    <2>2. CASE job[w].plan # {m}
      <3>1. /\ job'[w].op = "evict" /\ job'[w].plan = job[w].plan \ {m}
            /\ deleted' = deleted /\ bodyState' = [bodyState EXCEPT ![m] = "remote_archive_only"]
        BY <1>0, <1>9, <2>2 DEF EvictBody
      <3>2. \A n \in job'[w].plan : HasRow(n)' /\ ~deleted'[n]
        BY <1>0, <3>1 DEF AloneInv, CheckHolds, HasRow
      <3>3. CheckHolds(job[w])'
        BY <3>1, <3>2 DEF CheckHolds, DeletedBody
      <3>. QED
        BY <1>0, <3>3
    <2>. QED BY <2>1, <2>2
  <1>10. \/ job'[w] = Idle
         \/ UNCHANGED <<bodyState, deleted, job>>
         \/ \E m \in Messages : \/ BeginIngest(w, m) \/ BeginSend(w, m)
                                \/ MarkSentOutbox(w, m) \/ EvictBody(w, m)
         \/ \E m \in Messages, t \in Texts : BeginEdit(w, m, t)
         \/ \E m \in Messages, d \in DeletedBody : BeginDelete(w, m, d)
         \/ \E plan \in SUBSET Messages : PlanEviction(w, plan)
         \/ \E m \in Messages, c \in Texts \cup {NullText} : SendMedia(w, m, c)
    <2>1. ASSUME Finish(w) \/ Fail(w) \/ MarkSentJournal(w) \/ Crash PROVE job'[w] = Idle
      BY <1>0, <2>1 DEF Finish, Fail, MarkSentJournal, Crash
    <2>2. ASSUME (\E m \in Messages : MarkArchived(m)) \/ UNCHANGED vars
          PROVE  UNCHANGED <<bodyState, deleted, job>>
      BY <2>2 DEF MarkArchived, vars, store, rowVars
    <2>. QED
      BY <1>0, <2>1, <2>2 DEF Next, WorkerStep, CommitIngest, CommitSend, CommitEdit, CommitDelete
  <1>. QED
    BY <1>1, <1>2, <1>4, <1>5, <1>6, <1>7, <1>8, <1>9, <1>10, <1>11

(* A step that creates, changes or leaves alone the body state of one      *)
(* message, as the abstract life cycle allows it.                          *)
LEMMA AppearStep ==
  ASSUME TypeInv, NEW m \in Messages, ~HasRow(m), InsertSkeleton(m)
  PROVE  [Lifecycle!Next]_bodyState
  <1>1. Lifecycle!Appear(m)
    BY DEF Lifecycle!Appear, HasRow, InsertSkeleton
  <1>. QED
    BY <1>1 DEF Lifecycle!Next

LEMMA MoveStep ==
  ASSUME TypeInv, NEW m \in Messages, NEW s \in BodyStates,
         BodyMoves(bodyState[m], s) \/ bodyState[m] = s,
         bodyState' = [bodyState EXCEPT ![m] = s]
  PROVE  [Lifecycle!Next]_bodyState
  <1>1. CASE bodyState[m] = s
    <2>1. bodyState' = bodyState
      BY <1>1 DEF TypeInv, TypeOK
    <2>. QED
      BY <2>1
  <1>2. CASE BodyMoves(bodyState[m], s)
    <2>1. Lifecycle!BodyMoves(bodyState[m], s) /\ s \in Lifecycle!BodyStates
      BY <1>2 DEF BodyMoves, BodyTransitions, BodyStates,
                  Lifecycle!BodyMoves, Lifecycle!BodyTransitions, Lifecycle!BodyStates
    <2>2. Lifecycle!Move(m)
      BY <2>1 DEF Lifecycle!Move
    <2>. QED
      BY <2>2 DEF Lifecycle!Next
  <1>. QED
    BY <1>1, <1>2

(* After the step m is no id of send_media, and no other id changed.       *)
QueuesOnly(m) ==
    /\ ~SentAsMedia(m)'
    /\ \A n \in Messages \ {m} : SentAsMedia(n)' <=> SentAsMedia(n)

(* A message that is created where there was none.                         *)
LEMMA CreationConsistent ==
  ASSUME StoreInv, NEW m \in Messages, NEW t \in Texts \cup {NoText}, NEW e \in CreationEvents,
         ~HasRow(m), InsertSkeleton(m), InsertText(m, t), Log(m, e),
         \A n \in Messages : Consistent(n), QueuesOnly(m)
  PROVE  \A n \in Messages : Consistent(n)'
  <1>. USE DEF StoreInv, TypeInv, TypeOK
  <1>1. /\ bodyState'[m] = "local_plain_available" /\ ~deleted'[m]
        /\ journal'[m] = Append(journal[m], e)
        /\ journal[m] \in Seq(EventTypes)
    BY DEF InsertSkeleton, Log
  <1>2. e \in EventTypes
    BY DEF CreationEvents, EventTypes
  <1>3. ~Creates(journal[m]) /\ CreatedOnce(journal[m])
    BY DEF Explained, Consistent
  <1>4. CreatedOnce(journal'[m])
    BY <1>1, <1>2, <1>3, CreatedOnceOfAppend
  <1>5. bodyText[m] = NoText /\ fts[m] = <<>>
    BY DEF RowInv, ReferentialIntegrity
  <1>6. bodyText'[m] \in Texts => fts'[m] = <<bodyText'[m]>>
    <2>1. CASE t = NoText
      BY <1>5, <2>1, ConstantsAssumption DEF InsertText
    <2>2. CASE t # NoText
      <3>1. bodyText'[m] = t /\ fts'[m] = Append(fts[m], t)
        BY <2>2 DEF InsertText
      <3>2. Append(<<>>, t) = <<t>>
        OBVIOUS
      <3>. QED
        BY <1>5, <3>1, <3>2
    <2>. QED BY <2>1, <2>2
  <1>7. Consistent(m)'
    BY <1>1, <1>4, <1>6 DEF QueuesOnly, Consistent, ReachedStates, DeletedBody
  <1>8. \A n \in Messages \ {m} : /\ bodyState'[n] = bodyState[n] /\ deleted'[n] = deleted[n]
                                  /\ fts'[n] = fts[n] /\ bodyText'[n] = bodyText[n]
                                  /\ journal'[n] = journal[n] /\ edited'[n] = edited[n]
    BY DEF InsertSkeleton, InsertText, Log
  <1>. QED
    BY <1>7, <1>8, StillConsistent DEF QueuesOnly

LEMMA AloneStep ==
  ASSUME RunsAlone, StoreInv, AloneInv, [Next]_vars
  PROVE  (\A m \in Messages : Consistent(m)') /\ [Lifecycle!Next]_bodyState
  <1>. USE DEF StoreInv, TypeInv, TypeOK
  <1>. DEFINE Goal == (\A m \in Messages : Consistent(m)') /\ [Lifecycle!Next]_bodyState
  <1>0. \A m \in Messages : Consistent(m)
    BY DEF AloneInv
  <1>1. CASE UNCHANGED <<bodyState, edited, deleted, fts, bodyText, journal, outbox>>
    BY <1>0, <1>1, StillConsistent DEF SentAsMedia
  <1>2. ASSUME NEW m \in Messages, NEW t \in Texts \cup {NoText}, NEW e \in CreationEvents,
               ~HasRow(m), InsertSkeleton(m), InsertText(m, t), Log(m, e), QueuesOnly(m)
        PROVE  Goal
    BY <1>0, <1>2, CreationConsistent, AppearStep
  <1>3. ASSUME NEW w \in Workers, CommitIngest(w) PROVE Goal
    <2>1. PICK m \in Messages, t \in Texts \cup {NoText} :
             m = job[w].msg /\ t = job[w].text /\ ~HasRow(m) /\ ~SentAsMedia(m)
      BY <1>3 DEF CommitIngest, JobHasMessage, AloneInv, CheckHolds, FreshJobs
    <2>2. QueuesOnly(m)
      BY <1>3, <2>1 DEF CommitIngest, QueuesOnly, SentAsMedia
    <2>3. /\ InsertSkeleton(m) /\ InsertText(m, t)
          /\ Log(m, "message_received") /\ "message_received" \in CreationEvents
      BY <1>3, <2>1 DEF CommitIngest, CreationEvents
    <2>. QED
      BY <1>2, <2>1, <2>2, <2>3
  <1>4. ASSUME NEW w \in Workers, CommitSend(w) PROVE Goal
    <2>1. PICK m \in Messages, t \in Texts \cup {NoText} :
             m = job[w].msg /\ t = job[w].text /\ ~HasRow(m)
      BY <1>4 DEF CommitSend, JobHasMessage, AloneInv, CheckHolds
    <2>2. QueuesOnly(m)
      BY <1>4, <2>1 DEF CommitSend, QueuesOnly, SentAsMedia
    <2>3. CASE UNCHANGED <<rowVars, indexVars, journal>>
      <3>1. \A n \in Messages : HasRow(n) => (SentAsMedia(n)' <=> SentAsMedia(n))
        BY <2>1, <2>2 DEF QueuesOnly
      <3>2. UNCHANGED <<bodyState, edited, deleted, fts, bodyText, journal>>
        BY <2>3 DEF rowVars, indexVars
      <3>. QED
        BY <1>0, <3>1, <3>2, StillConsistent
    <2>4. CASE InsertSkeleton(m) /\ InsertText(m, t) /\ Log(m, "outbox_pending")
      BY <1>2, <2>1, <2>2, <2>4 DEF CreationEvents
    <2>. QED
      BY <1>4, <2>1, <2>3, <2>4 DEF CommitSend
  <1>10. ASSUME NEW w \in Workers, NEW n \in Messages, NEW c \in Texts \cup {NullText},
                SendMedia(w, n, c)
         PROVE  Goal
    <2>1. /\ InsertSkeleton(n) /\ ~HasRow(n) /\ SentAsMedia(n)
          /\ bodyText' = [bodyText EXCEPT ![n] = c]
          /\ UNCHANGED <<fts, journal, outbox>>
      BY <1>10 DEF SendMedia, SentAsMedia, indexVars
    <2>2. /\ bodyState'[n] = "local_plain_available" /\ ~deleted'[n] /\ ~edited'[n]
          /\ fts'[n] = <<>> /\ SentAsMedia(n)'
      BY <2>1 DEF InsertSkeleton, RowInv, ReferentialIntegrity, SentAsMedia
    <2>3. Consistent(n)'
      BY <1>0, <2>1, <2>2 DEF Consistent, ReachedStates, DeletedBody
    <2>4. \A m \in Messages \ {n} : /\ bodyState'[m] = bodyState[m] /\ deleted'[m] = deleted[m]
                                    /\ edited'[m] = edited[m] /\ bodyText'[m] = bodyText[m]
      BY <2>1 DEF InsertSkeleton
    <2>5. \A m \in Messages : Consistent(m)'
      BY <1>0, <2>1, <2>3, <2>4, StillConsistent DEF SentAsMedia
    <2>. QED
      BY <2>1, <2>5, AppearStep
  <1>11. ASSUME NEW w \in Workers, NEW n \in Messages, MarkSentOutbox(w, n) PROVE Goal
    <2>1. UNCHANGED <<bodyState, edited, deleted, fts, bodyText, journal>>
      BY <1>11 DEF MarkSentOutbox, rowVars, indexVars
    <2>2. \A m \in Messages : SentAsMedia(m)' <=> SentAsMedia(m)
      BY <1>11 DEF MarkSentOutbox, SentAsMedia
    <2>. QED
      BY <1>0, <2>1, <2>2, StillConsistent
  <1>5. ASSUME NEW w \in Workers, MarkSentJournal(w) PROVE Goal
    <2>1. PICK n \in Messages : n = job[w].msg
      BY <1>5 DEF MarkSentJournal, JobHasMessage
    <2>2. /\ journal' = [journal EXCEPT ![n] = Append(journal[n], "outbox_sent")]
          /\ UNCHANGED <<bodyState, edited, deleted, fts, bodyText, outbox>>
      BY <1>5, <2>1 DEF MarkSentJournal, Log, rowVars, indexVars
    <2>3. CreatedOnce(journal'[n])
      BY <1>0, <2>2, CreatedOnceOfAppend DEF Consistent, EventTypes, CreationEvents
    <2>4. Consistent(n)'
      BY <1>0, <2>2, <2>3 DEF Consistent, HasRow, SentAsMedia
    <2>. QED
      BY <1>0, <2>2, <2>4, StillConsistent DEF SentAsMedia
  <1>6. ASSUME NEW w \in Workers, CommitEdit(w) PROVE Goal
    <2>1. PICK n \in Messages : n = job[w].msg /\ bodyState[n] = "local_plain_available"
      BY <1>6 DEF CommitEdit, JobHasMessage, AloneInv, CheckHolds
    <2>2. PICK t \in Texts : t = job[w].text
      BY <1>6 DEF CommitEdit, EditHasText
    <2>3. /\ journal' = [journal EXCEPT ![n] = Append(journal[n], "message_edited")]
          /\ bodyText' = [bodyText EXCEPT ![n] = IF bodyText[n] = NoText THEN NoText ELSE t]
          /\ fts' = [fts EXCEPT ![n] = <<t>>]
          /\ edited' = [edited EXCEPT ![n] = TRUE]
          /\ UNCHANGED <<bodyState, deleted, outbox>>
      BY <1>6, <2>1, <2>2 DEF CommitEdit, Log, UpdateBody, Reindex
    <2>4. CreatedOnce(journal'[n])
      BY <1>0, <2>3, CreatedOnceOfAppend DEF Consistent, EventTypes, CreationEvents
    <2>5. fts'[n] = <<t>> /\ bodyText'[n] \in {t, NoText} /\ ~deleted'[n] /\ edited'[n]
      BY <1>0, <2>1, <2>3 DEF Consistent, DeletedBody
    <2>6. Consistent(n)'
      BY <1>0, <2>1, <2>3, <2>4, <2>5, ConstantsAssumption DEF Consistent, HasRow, SentAsMedia
    <2>. QED
      BY <1>0, <2>3, <2>6, StillConsistent DEF SentAsMedia
  <1>7. ASSUME NEW w \in Workers, CommitDelete(w) PROVE Goal
    <2>1. PICK n \in Messages : n = job[w].msg
      BY <1>7 DEF CommitDelete, JobHasMessage, DeletedBody
    <2>2. PICK d \in DeletedBody : d = job[w].op
      BY <1>7 DEF CommitDelete
    <2>3. bodyState[n] = "local_plain_available"
      BY <2>1, <2>2 DEF AloneInv, CheckHolds
    <2>4. PICK tail \in {<<"message_deleted">>, <<"message_deleted", "media_deleted">>} :
             journal' = [journal EXCEPT ![n] = journal[n] \o tail]
      BY <1>7, <2>1 DEF CommitDelete
    <2>5. /\ bodyState' = [bodyState EXCEPT ![n] = d]
          /\ deleted' = [deleted EXCEPT ![n] = TRUE]
          /\ fts' = [fts EXCEPT ![n] = <<>>]
          /\ \A m \in Messages \ {n} : bodyText'[m] = bodyText[m]
          /\ UNCHANGED <<edited, outbox>>
      BY <1>7, <2>1, <2>2 DEF CommitDelete, Unindex
    <2>6. CreatedOnce(journal'[n])
      <3>1. /\ {"message_deleted", "media_deleted"} \subseteq EventTypes \ CreationEvents
            /\ journal[n] \in Seq(EventTypes)
        BY DEF EventTypes, CreationEvents
      <3>2. /\ Append(journal[n], "message_deleted") \in Seq(EventTypes)
            /\ CreatedOnce(Append(journal[n], "message_deleted"))
        BY <1>0, <3>1, CreatedOnceOfAppend DEF Consistent
      <3>3. CreatedOnce(Append(Append(journal[n], "message_deleted"), "media_deleted"))
        BY <3>1, <3>2, CreatedOnceOfAppend
      <3>4. /\ journal[n] \o <<"message_deleted">> = Append(journal[n], "message_deleted")
            /\ journal[n] \o <<"message_deleted", "media_deleted">>
                   = Append(Append(journal[n], "message_deleted"), "media_deleted")
        BY <3>1, AppendTwice
      <3>5. journal'[n] = journal[n] \o tail
        BY <2>4
      <3>. QED
        BY <3>2, <3>3, <3>4, <3>5
    <2>7. Consistent(n)'
      BY <2>5, <2>6 DEF Consistent, ReachedStates, DeletedBody
    <2>8. \A m \in Messages : Consistent(m)'
      BY <1>0, <2>4, <2>5, <2>7, StillConsistent DEF SentAsMedia
    <2>9. d \in BodyStates /\ BodyMoves(bodyState[n], d)
      BY <2>3 DEF DeletedBody, BodyStates, BodyMoves, BodyTransitions
    <2>. QED
      BY <2>5, <2>8, <2>9, MoveStep
  <1>8. ASSUME NEW w \in Workers, NEW n \in Messages, EvictBody(w, n) PROVE Goal
    <2>1. HasRow(n) /\ ~deleted[n]
      BY <1>8 DEF EvictBody, AloneInv, CheckHolds
    <2>2. /\ bodyState' = [bodyState EXCEPT ![n] = "remote_archive_only"]
          /\ UNCHANGED <<edited, deleted, fts, bodyText, journal, outbox>>
      BY <1>8 DEF EvictBody, indexVars
    <2>3. bodyState[n] \in {"local_plain_available", "remote_archive_only"}
      BY <1>0, <2>1 DEF Consistent, ReachedStates, HasRow
    <2>4. Consistent(n)'
      BY <1>0, <2>1, <2>2 DEF Consistent, ReachedStates, DeletedBody, HasRow, SentAsMedia
    <2>5. \A m \in Messages : Consistent(m)'
      BY <1>0, <2>2, <2>4, StillConsistent DEF SentAsMedia
    <2>6. /\ "remote_archive_only" \in BodyStates
          /\ \/ BodyMoves(bodyState[n], "remote_archive_only")
             \/ bodyState[n] = "remote_archive_only"
      BY <2>3 DEF BodyStates, BodyMoves, BodyTransitions
    <2>. QED
      BY <2>2, <2>5, <2>6, MoveStep
  <1>9. \/ UNCHANGED <<bodyState, edited, deleted, fts, bodyText, journal, outbox>>
        \/ \E w \in Workers : \/ \E n \in Messages : EvictBody(w, n) \/ MarkSentOutbox(w, n)
                              \/ \E n \in Messages, c \in Texts \cup {NullText} : SendMedia(w, n, c)
                              \/ CommitIngest(w) \/ CommitSend(w) \/ MarkSentJournal(w)
                              \/ CommitEdit(w) \/ CommitDelete(w)
    BY StoreWriters DEF StoreWriter, store, rowVars, indexVars, MarkArchived
  <1>. QED
    BY <1>1, <1>3, <1>4, <1>5, <1>6, <1>7, <1>8, <1>9, <1>10, <1>11

LEMMA AloneInvariant ==
  ASSUME RunsAlone
  PROVE  Spec => [](StoreInv /\ AloneInv) /\ [][Lifecycle!Next]_bodyState
  <1>1. Init => StoreInv /\ AloneInv
    <2>1. Init => TypeInv
      BY TypeInit
    <2>2. Init => RowInv
      BY ConstantsAssumption DEF Init, RowInv, ReferentialIntegrity, TombstoneHasNoText,
                                 JobsHaveRow, Idle, DeletedBody, BodyStates
    <2>3. Init => FreshJobs /\ \A m \in Messages : Explained(m)
      BY ReplayOfEmpty DEF Init, Explained, HasRow, EventTypes, FreshJobs, Idle
    <2>4. Init => \A m \in Messages : Consistent(m)
      BY ConstantsAssumption
         DEF Init, Consistent, ReachedStates, CreatedOnce, HasRow, DeletedBody, BodyStates
    <2>. QED
      BY <2>1, <2>2, <2>3, <2>4, CheckHoldsInit DEF StoreInv, AloneInv
  <1>2. StoreInv /\ AloneInv /\ [Next]_vars => (StoreInv /\ AloneInv)' /\ [Lifecycle!Next]_bodyState
    <2>. SUFFICES ASSUME StoreInv, AloneInv, [Next]_vars
                  PROVE  (StoreInv /\ AloneInv)' /\ [Lifecycle!Next]_bodyState
      OBVIOUS
    <2>1. TypeInv'
      BY TypeNext DEF StoreInv
    <2>2. RowInv'
      BY ReferentialIntegrityNext, TombstoneHasNoTextNext, JobsHaveRowNext DEF StoreInv, RowInv
    <2>3. FreshJobs' /\ \A m \in Messages : Explained(m)'
      BY JournalExplainsRowNext, FreshJobsNext DEF StoreInv
    <2>4. (\A m \in Messages : Consistent(m)') /\ [Lifecycle!Next]_bodyState
      BY AloneStep
    <2>. QED
      BY <2>1, <2>2, <2>3, <2>4, CheckHoldsNext DEF StoreInv, AloneInv
  <1>. QED
    BY <1>1, <1>2, PTL DEF Spec

(* Delivering a message again, before or after a crash, an edit or a       *)
(* deletion, never creates it a second time.                               *)
THEOREM AloneIngestsOnce == ASSUME RunsAlone PROVE Spec => []IngestedOnce
  <1>1. AloneInv => IngestedOnce
    BY DEF AloneInv, Consistent, CreatedOnce, IngestedOnce
  <1>. QED
    BY <1>1, AloneInvariant, PTL

(* The index, the deletion mark and the body state of a message tell the   *)
(* same story between any two steps of the store.                          *)
THEOREM AloneReadersAgree == ASSUME RunsAlone PROVE Spec => []ReadersAgree
  <1>1. AloneInv => ReadersAgree
    BY DEF AloneInv, Consistent, ReadersAgree, DeletedNeverFound, StoredTextFound,
           DeletedMarkIsState
  <1>. QED
    BY <1>1, AloneInvariant, PTL

(* The tables implement the life cycle that state_machines.rs documents,   *)
(* though only the deletes ask it before they write a body state.          *)
THEOREM AloneFollowsLifecycle == ASSUME RunsAlone PROVE Spec => FollowsLifecycle
  <1>1. Init => Lifecycle!Init
    BY DEF Init, Lifecycle!Init
  <1>. QED
    BY <1>1, AloneInvariant, PTL DEF Spec, FollowsLifecycle, Lifecycle!Spec

================================================================================
