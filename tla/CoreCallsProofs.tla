---------------------------- MODULE CoreCallsProofs ----------------------------
(***************************************************************************)
(* Theorems about CoreCalls, for any number of threads, any conversation   *)
(* and any page size, budget and cooldown.                                 *)
(***************************************************************************)
EXTENDS CoreCalls, TLAPS

Calls == {"none", "ingest", "enforce", "hydrate", "send_media"}
Jobs ==
    [step : Steps, call : Calls, of : Messages \cup {0} \cup Assets, page : Seq(Messages),
     next : 0..Log, seen : Times \cup {Unset}, plan : SUBSET Messages]

TypeInv ==
    /\ row \in [Messages -> BodyStates]
    /\ text \subseteq HasText /\ media \subseteq HasMedia
    /\ archived \subseteq Messages
    /\ sent \subseteq Assets /\ blobs \subseteq Assets
    /\ cursor \in 0..Log
    /\ last \in Times \cup {Unset} /\ enforcedAt \in Times \cup {Unset}
    /\ now \in Times
    /\ faults \in 0..MaxFaults
    /\ job \in [Threads -> Jobs]

(* What a job knows of the store, wherever it is in its call.                *)
Sound(j) ==
    /\ j.step \in {"fetch", "budget", "cooldown", "stamp", "return"} => j.call = "ingest"
    /\ j.step \in {"check", "insert"} => j.call \in {"ingest", "hydrate"}
    /\ j.step = "insert" => j.page # <<>>
    /\ (j.step \in {"check", "insert"} /\ j.call = "ingest") =>
          \A m \in 1..j.next : Stored(m) \/ m \in Range(j.page)
    /\ (j.step \in {"budget", "cooldown", "plan", "evict", "stamp", "return"}
           /\ j.call = "ingest") =>
          \A m \in 1..j.next : Stored(m)
    /\ j.step = "upload" => j.of \in sent
    /\ j.step = "hydrate" => j.call = "hydrate" /\ j.of \in Messages
    /\ j.plan \subseteq text

JobsAreSound == \A t \in Threads : Sound(job[t])

IInv == TypeInv /\ JobsAreSound /\ NothingSkipped /\ BlobHasRows /\ EvictedHasText

(* No step takes a row, a text or the rows of an asset away.                 *)
StoreGrows ==
    /\ \A m \in Messages : Stored(m) => Stored(m)'
    /\ text \subseteq text'
    /\ sent \subseteq sent'

--------------------------------------------------------------------------------
(* Pages *)

LEMMA RangeOfTail ==
  ASSUME NEW S, NEW s \in Seq(S), s # <<>>
  PROVE  /\ Head(s) \in S /\ Tail(s) \in Seq(S)
         /\ Range(s) = {Head(s)} \cup Range(Tail(s))
  <1>1. Head(s) = s[1] /\ Head(s) \in S /\ Tail(s) \in Seq(S) /\ Len(s) \in Nat /\ Len(s) > 0
    OBVIOUS
  <1>2. Len(Tail(s)) = Len(s) - 1 /\ \A i \in 1..(Len(s) - 1) : Tail(s)[i] = s[i + 1]
    OBVIOUS
  <1>3. DOMAIN s = 1..Len(s) /\ DOMAIN Tail(s) = 1..(Len(s) - 1)
    BY <1>1, <1>2
  <1>4. ASSUME NEW i \in 1..Len(s) PROVE s[i] \in {Head(s)} \cup Range(Tail(s))
    <2>1. CASE i = 1
      BY <1>1, <2>1
    <2>2. CASE i # 1
      <3>1. i - 1 \in 1..(Len(s) - 1) /\ (i - 1) + 1 = i
        BY <1>1, <2>2
      <3>2. Tail(s)[i - 1] = s[i]
        BY <1>2, <3>1
      <3>. QED
        BY <1>3, <3>1, <3>2 DEF Range
    <2>. QED
      BY <2>1, <2>2
  <1>5. ASSUME NEW i \in 1..(Len(s) - 1) PROVE Tail(s)[i] \in Range(s)
    <2>1. i + 1 \in 1..Len(s)
      BY <1>1
    <2>. QED
      BY <1>2, <1>3, <2>1 DEF Range
  <1>6. Head(s) \in Range(s)
    BY <1>1, <1>3 DEF Range
  <1>7. Range(s) \subseteq {Head(s)} \cup Range(Tail(s))
    BY <1>3, <1>4 DEF Range
  <1>8. Range(Tail(s)) \subseteq Range(s)
    BY <1>3, <1>5 DEF Range
  <1>. QED
    BY <1>1, <1>6, <1>7, <1>8

LEMMA PageIsOfMessages ==
  ASSUME NEW s \in Seq(Messages)
  PROVE  Range(s) \subseteq Messages
  <1>1. \A i \in DOMAIN s : s[i] \in Messages
    OBVIOUS
  <1>. QED
    BY <1>1 DEF Range

LEMMA PageAfterCursor ==
  ASSUME NEW c \in 0..Log
  PROVE  /\ PageAfter(c) \in Seq(Messages)
         /\ c + Len(PageAfter(c)) \in 0..Log
         /\ \A m \in 1..(c + Len(PageAfter(c))) : m \in 1..c \/ m \in Range(PageAfter(c))
  <1>. DEFINE n == IF Log - c < PageSize THEN Log - c ELSE PageSize
  <1>1. n \in Nat /\ c + n =< Log /\ Log \in Nat
    BY CoreCallsAssumption
  <1>2. PageAfter(c) = [i \in 1..n |-> c + i]
    BY DEF PageAfter
  <1>. HIDE DEF n
  <1>3. \A i \in 1..n : c + i \in Messages
    BY <1>1 DEF Messages
  <1>4. PageAfter(c) \in Seq(Messages) /\ Len(PageAfter(c)) = n /\ DOMAIN PageAfter(c) = 1..n
    BY <1>1, <1>2, <1>3
  <1>5. ASSUME NEW m \in 1..(c + n) PROVE m \in 1..c \/ m \in Range(PageAfter(c))
    <2>1. CASE m > c
      <3>1. m - c \in 1..n /\ PageAfter(c)[m - c] = m
        BY <1>1, <1>2, <2>1
      <3>. QED
        BY <1>4, <3>1 DEF Range
    <2>. QED
      BY <1>1, <2>1
  <1>. QED
    BY <1>1, <1>4, <1>5

--------------------------------------------------------------------------------
(* Types *)

LEMMA TypeInvInit == Init => TypeInv
  <1>1. Idle \in Jobs
    BY CoreCallsAssumption DEF Idle, Jobs, Steps, Calls
  <1>. QED
    BY <1>1, CoreCallsAssumption DEF Init, TypeInv, BodyStates, Times

LEMMA IdleIsJob == Idle \in Jobs
  BY CoreCallsAssumption DEF Idle, Jobs, Steps, Calls

(* The steps that change one job to another, or end its call.                *)
LEMMA JobTypes ==
  ASSUME TypeInv, NEW t \in Threads, NEW j \in Jobs
  PROVE  [job EXCEPT ![t] = j] \in [Threads -> Jobs]
  BY DEF TypeInv

LEMMA GotoTypes ==
  ASSUME TypeInv, NEW t \in Threads, NEW step \in Steps, Goto(t, step)
  PROVE  job' \in [Threads -> Jobs]
  BY DEF TypeInv, Goto, Jobs

LEMMA ReturnTypes ==
  ASSUME TypeInv, NEW t \in Threads, Return(t)
  PROVE  job' \in [Threads -> Jobs]
  BY IdleIsJob DEF TypeInv, Return

LEMMA FaultTypes ==
  ASSUME TypeInv, Fault
  PROVE  faults' \in 0..MaxFaults
  BY CoreCallsAssumption DEF TypeInv, Fault

LEMMA PageStepTypes ==
  ASSUME TypeInv, JobsAreSound, NEW t \in Threads,
         BeginIngest(t) \/ Fetch(t) \/ Check(t) \/ Insert(t) \/ InsertFails(t) \/ PageDone(t)
  PROVE  TypeInv'
  <1>. USE DEF store
  <1>0. job[t] \in Jobs /\ job[t].page \in Seq(Messages) /\ job[t].plan \subseteq Messages
    BY DEF TypeInv, Jobs
  <1>1. CASE BeginIngest(t)
    <2>1. [Idle EXCEPT !.step = "fetch", !.call = "ingest"] \in Jobs
      BY IdleIsJob DEF Jobs, Steps, Calls
    <2>2. job' \in [Threads -> Jobs]
      BY <1>1, <2>1, JobTypes DEF BeginIngest
    <2>. QED
      BY <1>1, <2>2 DEF BeginIngest, TypeInv
  <1>2. CASE Fetch(t)
    <2>1. PageAfter(cursor) \in Seq(Messages) /\ cursor + Len(PageAfter(cursor)) \in 0..Log
      BY PageAfterCursor DEF TypeInv
    <2>. DEFINE j == [job[t] EXCEPT !.step = "check", !.page = PageAfter(cursor),
                                  !.next = cursor + Len(PageAfter(cursor))]
    <2>2. j \in Jobs
      BY <1>0, <2>1 DEF Jobs, Steps
    <2>3. job' = [job EXCEPT ![t] = j]
      BY <1>2 DEF Fetch
    <2>4. job' \in [Threads -> Jobs]
      BY <2>2, <2>3, JobTypes
    <2>. QED
      BY <1>2, <2>4 DEF Fetch, TypeInv
  <1>3. CASE Check(t)
    <2>1. Tail(job[t].page) \in Seq(Messages)
      BY <1>0, <1>3, RangeOfTail DEF Check
    <2>2. CASE Return(t)
      BY <1>3, <2>2, ReturnTypes DEF Check, TypeInv
    <2>3. CASE job' = [job EXCEPT ![t].page = Tail(@)]
      <3>1. job' \in [Threads -> Jobs]
        BY <2>1, <2>3 DEF TypeInv, Jobs
      <3>. QED
        BY <1>3, <3>1 DEF Check, TypeInv
    <2>4. CASE Goto(t, "insert")
      <3>1. job' \in [Threads -> Jobs]
        BY <2>4, GotoTypes DEF Steps
      <3>. QED
        BY <1>3, <3>1 DEF Check, TypeInv
    <2>. QED
      BY <1>3, <2>2, <2>3, <2>4 DEF Check
  <1>4. CASE Insert(t)
    <2>1. Head(job[t].page) \in Messages /\ Tail(job[t].page) \in Seq(Messages)
      BY <1>0, <1>4, RangeOfTail DEF Insert, At, JobsAreSound, Sound
    <2>2. CASE Return(t) /\ UNCHANGED store
      BY <1>4, <2>2, ReturnTypes DEF Insert, TypeInv
    <2>3. CASE ~(Return(t) /\ UNCHANGED store)
      <3>. DEFINE m == Head(job[t].page)
      <3>1. row' = [row EXCEPT ![m] = "local_plain_available"] /\ archived' = archived \ {m}
            /\ media' \subseteq media \cup HasMedia /\ text' \subseteq text \cup HasText
            /\ sent' = sent
            /\ job' = [job EXCEPT ![t].step = "check", ![t].page = Tail(@)]
        BY <1>4, <2>3 DEF Insert
      <3>2. job' \in [Threads -> Jobs]
        BY <2>1, <3>1 DEF TypeInv, Jobs, Steps
      <3>3. row' \in [Messages -> BodyStates]
        BY <2>1, <3>1 DEF TypeInv, BodyStates
      <3>. QED
        BY <1>4, <3>1, <3>2, <3>3 DEF Insert, TypeInv
    <2>. QED
      BY <2>2, <2>3
  <1>5. CASE InsertFails(t)
    BY <1>5, ReturnTypes, FaultTypes DEF InsertFails, TypeInv
  <1>6. CASE PageDone(t)
    <2>1. job' \in [Threads -> Jobs]
      BY <1>6, ReturnTypes, GotoTypes DEF PageDone, Steps
    <2>. QED
      BY <1>6, <2>1 DEF PageDone, TypeInv
  <1>. QED
    BY <1>1, <1>2, <1>3, <1>4, <1>5, <1>6

LEMMA BudgetStepTypes ==
  ASSUME TypeInv, NEW t \in Threads,
         Budget(t) \/ CheckCooldown(t) \/ Stamp(t) \/ Deliver(t) \/ BeginEnforce(t)
           \/ Plan(t) \/ Evict(t) \/ EvictFails(t)
  PROVE  TypeInv'
  <1>. USE DEF store
  <1>0. job[t] \in Jobs /\ job[t].next \in 0..Log /\ job[t].seen \in Times \cup {Unset}
        /\ job[t].plan \subseteq Messages
    BY DEF TypeInv, Jobs
  <1>1. CASE Budget(t)
    <2>1. job' \in [Threads -> Jobs]
      <3>1. CASE Goto(t, "return")
        BY <3>1, GotoTypes DEF Steps
      <3>2. CASE job' = [job EXCEPT ![t].step = "cooldown", ![t].seen = now]
        <4>1. [job[t] EXCEPT !.step = "cooldown", !.seen = now] \in Jobs
          BY <1>0 DEF TypeInv, Jobs, Steps
        <4>. QED
          BY <3>2, <4>1 DEF TypeInv
      <3>. QED
        BY <1>1, <3>1, <3>2 DEF Budget
    <2>. QED
      BY <1>1, <2>1 DEF Budget, TypeInv
  <1>2. CASE CheckCooldown(t)
    <2>1. job' \in [Threads -> Jobs]
      BY <1>2, GotoTypes DEF CheckCooldown, Steps
    <2>. QED
      BY <1>2, <2>1 DEF CheckCooldown, TypeInv
  <1>3. CASE Stamp(t)
    <2>1. job' \in [Threads -> Jobs]
      BY <1>3, GotoTypes DEF Stamp, Steps
    <2>. QED
      BY <1>0, <1>3, <2>1 DEF Stamp, TypeInv
  <1>4. CASE Deliver(t)
    BY <1>0, <1>4, ReturnTypes DEF Deliver, TypeInv
  <1>5. CASE BeginEnforce(t)
    <2>1. [Idle EXCEPT !.step = "plan", !.call = "enforce"] \in Jobs
      BY IdleIsJob DEF Jobs, Steps, Calls
    <2>2. job' \in [Threads -> Jobs]
      BY <1>5, <2>1, JobTypes DEF BeginEnforce
    <2>. QED
      BY <1>5, <2>2 DEF BeginEnforce, TypeInv
  <1>6. CASE Plan(t)
    <2>1. Planned \subseteq Messages
      BY CoreCallsAssumption DEF TypeInv, Planned, Evictable, Messages
    <2>2. job' \in [Threads -> Jobs]
      BY <1>6, <2>1, IdleIsJob DEF Plan, TypeInv, Jobs, Steps
    <2>. QED
      BY <1>0, <1>6, <2>2 DEF Plan, TypeInv
  <1>7. CASE Evict(t)
    <2>1. PICK m \in Messages : Evicted(t, m) /\ row' = [row EXCEPT ![m] = "remote_archive_only"]
      BY <1>7 DEF Evict
    <2>2. job' \in [Threads -> Jobs]
      <3>1. [job[t] EXCEPT !.plan = job[t].plan \ {m}] \in Jobs
        BY <1>0 DEF Jobs
      <3>2. [job[t] EXCEPT !.step = "stamp", !.plan = {}] \in Jobs
        BY <1>0 DEF Jobs, Steps
      <3>3. \/ job' = [job EXCEPT ![t] = [job[t] EXCEPT !.plan = job[t].plan \ {m}]]
            \/ job' = [job EXCEPT ![t] = [job[t] EXCEPT !.step = "stamp", !.plan = {}]]
            \/ job' = [job EXCEPT ![t] = Idle]
        <4>. DEFINE evicted == IF job[t].plan # {m} THEN [job[t] EXCEPT !.plan = job[t].plan \ {m}]
                               ELSE IF job[t].call = "ingest"
                               THEN [job[t] EXCEPT !.step = "stamp", !.plan = {}]
                               ELSE Idle
        <4>1. job' = [job EXCEPT ![t] = evicted]
          BY <2>1 DEF Evicted
        <4>. QED
          BY <4>1
      <3>. QED
        BY <3>1, <3>2, <3>3, IdleIsJob, JobTypes
    <2>3. row' \in [Messages -> BodyStates]
      BY <2>1 DEF TypeInv, BodyStates
    <2>. QED
      BY <1>7, <2>2, <2>3 DEF Evict, TypeInv
  <1>8. CASE EvictFails(t)
    <2>1. job' \in [Threads -> Jobs]
      BY <1>8, IdleIsJob DEF EvictFails, TypeInv, Jobs, Steps
    <2>. QED
      BY <1>8, <2>1, FaultTypes DEF EvictFails, TypeInv
  <1>. QED
    BY <1>1, <1>2, <1>3, <1>4, <1>5, <1>6, <1>7, <1>8

LEMMA OtherStepTypes ==
  ASSUME TypeInv, JobsAreSound, NEW t \in Threads,
         (\E m \in Messages : BeginHydrate(t, m)) \/ Process(t)
           \/ (\E a \in Assets : BeginSendMedia(t, a)) \/ Upload(t) \/ TransportFails(t)
  PROVE  TypeInv'
  <1>. USE DEF store
  <1>1. ASSUME NEW m \in Messages, BeginHydrate(t, m) PROVE TypeInv'
    <2>1. [Idle EXCEPT !.step = "hydrate", !.call = "hydrate", !.of = m] \in Jobs
      BY IdleIsJob DEF Jobs, Steps, Calls
    <2>2. job' \in [Threads -> Jobs]
      BY <1>1, <2>1, JobTypes DEF BeginHydrate
    <2>. QED
      BY <1>1, <2>2 DEF BeginHydrate, TypeInv
  <1>2. CASE Process(t)
    <2>1. job[t].of \in 0..Log
      BY <1>2, CoreCallsAssumption DEF Process, At, JobsAreSound, Sound, Messages
    <2>2. job' \in [Threads -> Jobs]
      <3>1. PageAfter(job[t].of) \in Seq(Messages)
        BY <2>1, PageAfterCursor
      <3>2. [job[t] EXCEPT !.step = "check", !.page = PageAfter(job[t].of)] \in Jobs
        BY <3>1 DEF TypeInv, Jobs, Steps
      <3>3. Return(t) \/ job' = [job EXCEPT ![t] = [job[t] EXCEPT !.step = "check",
                                                     !.page = PageAfter(job[t].of)]]
        BY <1>2 DEF Process
      <3>. QED
        BY <3>2, <3>3, JobTypes, ReturnTypes
    <2>. QED
      BY <1>2, <2>2 DEF Process, TypeInv
  <1>3. ASSUME NEW a \in Assets, BeginSendMedia(t, a) PROVE TypeInv'
    <2>1. [Idle EXCEPT !.step = "upload", !.call = "send_media", !.of = a] \in Jobs
      BY IdleIsJob DEF Jobs, Steps, Calls
    <2>2. job' \in [Threads -> Jobs]
      BY <1>3, <2>1, JobTypes DEF BeginSendMedia
    <2>. QED
      BY <1>3, <2>2 DEF BeginSendMedia, TypeInv
  <1>4. CASE Upload(t)
    <2>1. job[t].of \in Assets
      BY <1>4 DEF Upload, At, JobsAreSound, Sound, TypeInv
    <2>. QED
      BY <1>4, <2>1, ReturnTypes DEF Upload, TypeInv
  <1>5. CASE TransportFails(t)
    <2>1. blobs' \subseteq Assets
      BY <1>5 DEF TransportFails, At, JobsAreSound, Sound, TypeInv
    <2>. QED
      BY <1>5, <2>1, ReturnTypes, FaultTypes DEF TransportFails, TypeInv
  <1>. QED
    BY <1>1, <1>2, <1>3, <1>4, <1>5

--------------------------------------------------------------------------------
(* What a step leaves of the store, and of the jobs of other threads         *)

LEMMA StoreOnlyGrows ==
  ASSUME IInv, [Next]_vars
  PROVE  StoreGrows
  <1>. USE DEF IInv, TypeInv, StoreGrows, Stored, store
  <1>1. ASSUME NEW t \in Threads, Insert(t) PROVE StoreGrows
    BY <1>1 DEF Insert
  <1>2. ASSUME NEW t \in Threads, Evict(t) PROVE StoreGrows
    BY <1>2 DEF Evict
  <1>3. ASSUME NEW t \in Threads, NEW a \in Assets, BeginSendMedia(t, a) PROVE StoreGrows
    BY <1>3 DEF BeginSendMedia
  <1>4. ASSUME NEW m \in Messages, Archive(m) PROVE StoreGrows
    BY <1>4 DEF Archive
  <1>5. ASSUME UNCHANGED store PROVE StoreGrows
    BY <1>5
  <1>6. ASSUME NEW t \in Threads,
               BeginIngest(t) \/ Fetch(t) \/ Check(t) \/ PageDone(t) \/ Budget(t)
                 \/ CheckCooldown(t) \/ Plan(t) \/ Stamp(t) \/ Deliver(t) \/ InsertFails(t)
                 \/ BeginEnforce(t) \/ EvictFails(t) \/ Process(t) \/ Upload(t)
                 \/ TransportFails(t) \/ \E m \in Messages : BeginHydrate(t, m)
        PROVE  UNCHANGED store
    BY <1>6 DEF BeginIngest, Fetch, Check, PageDone, Budget, CheckCooldown, Plan, Stamp, Deliver,
       InsertFails, BeginEnforce, EvictFails, Process, Upload, TransportFails, BeginHydrate
  <1>7. Tick \/ Crash \/ StartOver \/ UNCHANGED vars => UNCHANGED store
    BY DEF Tick, Crash, StartOver, vars
  <1>. QED
    BY <1>1, <1>2, <1>3, <1>4, <1>5, <1>6, <1>7 DEF Next, Ingestion, OtherCall

LEMMA IdleIsSound == Sound(Idle)
  BY DEF Sound, Idle

(* A job that is not touched stays sound, as the store only grows.           *)
LEMMA SoundStays ==
  ASSUME TypeInv, StoreGrows, NEW t \in Threads, Sound(job[t]), job'[t] = job[t]
  PROVE  Sound(job[t])'
  <1>1. 1..job[t].next \subseteq Messages
    BY CoreCallsAssumption DEF TypeInv, Jobs, Messages
  <1>. QED
    BY <1>1 DEF StoreGrows, Sound, Stored

LEMMA OthersStaySound ==
  ASSUME IInv, StoreGrows, NEW t \in Threads, NEW j, job' = [job EXCEPT ![t] = j],
         Sound(job[t])'
  PROVE  JobsAreSound'
  <1>1. ASSUME NEW u \in Threads, u # t PROVE Sound(job[u])'
    <2>1. job'[u] = job[u]
      BY <1>1 DEF IInv, TypeInv
    <2>. QED
      BY <2>1, SoundStays DEF IInv, JobsAreSound
  <1>. QED
    BY <1>1 DEF JobsAreSound

LEMMA PageStepSound ==
  ASSUME IInv, StoreGrows, NEW t \in Threads,
         BeginIngest(t) \/ Fetch(t) \/ Check(t) \/ Insert(t) \/ InsertFails(t) \/ PageDone(t)
  PROVE  JobsAreSound'
  <1>. USE DEF IInv
  <1>0. /\ job[t] \in Jobs /\ Sound(job[t])
        /\ job[t].page \in Seq(Messages) /\ 1..job[t].next \subseteq Messages
    BY CoreCallsAssumption DEF TypeInv, Jobs, JobsAreSound, Messages
  <1>1. CASE BeginIngest(t)
    <2>. DEFINE j == [Idle EXCEPT !.step = "fetch", !.call = "ingest"]
    <2>1. job' = [job EXCEPT ![t] = j] /\ job'[t] = j
      BY <1>1 DEF BeginIngest, TypeInv
    <2>2. job'[t].step = "fetch" /\ job'[t].call = "ingest" /\ job'[t].plan = {}
      BY <2>1 DEF Idle
    <2>. HIDE DEF j
    <2>3. Sound(job[t])'
      BY <2>2 DEF Sound
    <2>. QED
      BY <2>1, <2>3, OthersStaySound
  <1>2. CASE Fetch(t)
    <2>. DEFINE n == cursor + Len(PageAfter(cursor))
                j == [job[t] EXCEPT !.step = "check", !.page = PageAfter(cursor), !.next = n]
    <2>1. job' = [job EXCEPT ![t] = j] /\ job'[t] = j
      BY <1>2 DEF Fetch, TypeInv
    <2>2. n \in 0..Log /\ \A m \in 1..n : m \in 1..cursor \/ m \in Range(PageAfter(cursor))
      BY PageAfterCursor DEF TypeInv
    <2>3. \A m \in 1..cursor : Stored(m)'
      BY CoreCallsAssumption DEF NothingSkipped, StoreGrows, TypeInv, Messages
    <2>4. job'[t].step = "check" /\ job'[t].call = job[t].call /\ job'[t].plan = job[t].plan
          /\ job'[t].page = PageAfter(cursor) /\ job'[t].next = n
      BY <1>0, <2>1 DEF Jobs
    <2>. HIDE DEF n, j
    <2>5. \A m \in 1..job'[t].next : Stored(m)' \/ m \in Range(job'[t].page)
      BY <2>2, <2>3, <2>4
    <2>6. Sound(job[t])'
      BY <1>0, <2>4, <2>5, <1>2 DEF Sound, StoreGrows, Fetch, At
    <2>. QED
      BY <2>1, <2>6, OthersStaySound
  <1>3. CASE Check(t)
    <2>0. job[t].step = "check" /\ job[t].page # <<>>
      BY <1>3 DEF Check, At
    <2>1. \/ Return(t) \/ Goto(t, "insert")
          \/ (Stored(Head(job[t].page)) /\ job' = [job EXCEPT ![t].page = Tail(@)])
      BY <1>3 DEF Check
    <2>2. CASE Return(t)
      <3>1. job' = [job EXCEPT ![t] = Idle] /\ job'[t] = Idle
        BY <2>2 DEF Return, TypeInv
      <3>2. Sound(job[t])'
        BY <3>1 DEF Sound, Idle
      <3>. QED
        BY <3>1, <3>2, OthersStaySound
    <2>3. CASE Goto(t, "insert")
      <3>. DEFINE j == [job[t] EXCEPT !.step = "insert"]
      <3>1. job' = [job EXCEPT ![t] = j] /\ job'[t] = j
        BY <2>3 DEF Goto, TypeInv
      <3>2. Sound(job[t])'
        BY <1>0, <2>0, <3>1 DEF Sound, StoreGrows, Stored, Jobs
      <3>. QED
        BY <3>1, <3>2, OthersStaySound
    <2>4. CASE Stored(Head(job[t].page)) /\ job' = [job EXCEPT ![t].page = Tail(@)]
      <3>. DEFINE j == [job[t] EXCEPT !.page = Tail(job[t].page)]
      <3>1. job' = [job EXCEPT ![t] = j] /\ job'[t] = j
        BY <2>4 DEF TypeInv
      <3>2. Head(job[t].page) \in Messages
            /\ Range(job[t].page) = {Head(job[t].page)} \cup Range(Tail(job[t].page))
        BY <1>0, <2>0, RangeOfTail
      <3>3. Sound(job[t])'
        BY <1>0, <2>0, <2>4, <3>1, <3>2 DEF Sound, StoreGrows, Jobs
      <3>. QED
        BY <3>1, <3>3, OthersStaySound
    <2>. QED
      BY <2>1, <2>2, <2>3, <2>4
  <1>4. CASE Insert(t)
    <2>0. job[t].step = "insert" /\ job[t].page # <<>>
      BY <1>0, <1>4 DEF Insert, At, Sound
    <2>1. \/ Return(t)
          \/ /\ row' = [row EXCEPT ![Head(job[t].page)] = "local_plain_available"]
             /\ job' = [job EXCEPT ![t].step = "check", ![t].page = Tail(@)]
      BY <1>4 DEF Insert
    <2>2. CASE Return(t)
      <3>1. job' = [job EXCEPT ![t] = Idle] /\ job'[t] = Idle
        BY <2>2 DEF Return, TypeInv
      <3>2. Sound(job[t])'
        BY <3>1 DEF Sound, Idle
      <3>. QED
        BY <3>1, <3>2, OthersStaySound
    <2>3. CASE /\ row' = [row EXCEPT ![Head(job[t].page)] = "local_plain_available"]
               /\ job' = [job EXCEPT ![t].step = "check", ![t].page = Tail(@)]
      <3>. DEFINE j == [job[t] EXCEPT !.step = "check", !.page = Tail(job[t].page)]
      <3>1. job' = [job EXCEPT ![t] = j] /\ job'[t] = j
        BY <2>3 DEF TypeInv
      <3>2. Head(job[t].page) \in Messages
            /\ Range(job[t].page) = {Head(job[t].page)} \cup Range(Tail(job[t].page))
        BY <1>0, <2>0, RangeOfTail
      <3>. DEFINE m == Head(job[t].page)
      <3>3. row'[m] # "none"
        BY <2>3, <3>2 DEF TypeInv
      <3>4. job'[t].step = "check" /\ job'[t].call = job[t].call /\ job'[t].plan = job[t].plan
            /\ job'[t].page = Tail(job[t].page) /\ job'[t].next = job[t].next
        BY <1>0, <3>1 DEF Jobs
      <3>. HIDE DEF m
      <3>5. ASSUME job[t].call = "ingest", NEW k \in 1..job[t].next
            PROVE  row'[k] # "none" \/ k \in Range(Tail(job[t].page))
        BY <1>0, <2>0, <3>2, <3>3, <3>5 DEF Sound, StoreGrows, Stored, m
      <3>6. Sound(job[t])'
        BY <1>0, <2>0, <3>4, <3>5 DEF Sound, StoreGrows, Stored
      <3>. QED
        BY <3>1, <3>6, OthersStaySound
    <2>. QED
      BY <2>1, <2>2, <2>3
  <1>5. CASE InsertFails(t)
    <2>1. job' = [job EXCEPT ![t] = Idle] /\ job'[t] = Idle
      BY <1>5 DEF InsertFails, Return, TypeInv
    <2>2. Sound(job[t])'
      BY <2>1 DEF Sound, Idle
    <2>. QED
      BY <2>1, <2>2, OthersStaySound
  <1>6. CASE PageDone(t)
    <2>0. job[t].step = "check" /\ job[t].page = <<>>
      BY <1>6 DEF PageDone, At
    <2>1. CASE Return(t)
      <3>1. job' = [job EXCEPT ![t] = Idle] /\ job'[t] = Idle
        BY <2>1 DEF Return, TypeInv
      <3>2. Sound(job[t])'
        BY <3>1 DEF Sound, Idle
      <3>. QED
        BY <3>1, <3>2, OthersStaySound
    <2>2. CASE job[t].call # "hydrate" /\ Goto(t, "budget")
      <3>. DEFINE j == [job[t] EXCEPT !.step = "budget"]
      <3>1. job' = [job EXCEPT ![t] = j] /\ job'[t] = j
        BY <2>2 DEF Goto, TypeInv
      <3>2. Range(job[t].page) = {}
        BY <2>0 DEF Range
      <3>3. Sound(job[t])'
        BY <1>0, <2>0, <2>2, <3>1, <3>2 DEF Sound, StoreGrows, Jobs
      <3>. QED
        BY <3>1, <3>3, OthersStaySound
    <2>. QED
      BY <1>6, <2>1, <2>2 DEF PageDone
  <1>. QED
    BY <1>1, <1>2, <1>3, <1>4, <1>5, <1>6

LEMMA BudgetStepSound ==
  ASSUME IInv, StoreGrows, NEW t \in Threads,
         Budget(t) \/ CheckCooldown(t) \/ Stamp(t) \/ Deliver(t) \/ BeginEnforce(t)
           \/ Plan(t) \/ Evict(t) \/ EvictFails(t)
  PROVE  JobsAreSound'
  <1>. USE DEF IInv
  <1>0. job[t] \in Jobs /\ Sound(job[t]) /\ 1..job[t].next \subseteq Messages
    BY CoreCallsAssumption DEF TypeInv, Jobs, JobsAreSound, Messages
  <1>1. ASSUME job' = [job EXCEPT ![t] = Idle] PROVE JobsAreSound'
    <2>1. job'[t] = Idle
      BY <1>1 DEF TypeInv
    <2>2. Sound(job[t])'
      BY <2>1 DEF Sound, Idle
    <2>. QED
      BY <1>1, <2>2, OthersStaySound
  <1>2. ASSUME job[t].step \in {"budget", "cooldown", "plan", "evict", "stamp"},
               job[t].call = "ingest",
               NEW step \in {"cooldown", "plan", "evict", "stamp", "return"},
               NEW seen, NEW plan, plan \subseteq text,
               job' = [job EXCEPT ![t] = [job[t] EXCEPT !.step = step, !.seen = seen,
                                                        !.plan = plan]]
        PROVE  JobsAreSound'
    <2>1. job'[t].step = step /\ job'[t].call = "ingest" /\ job'[t].plan = plan
          /\ job'[t].next = job[t].next
      BY <1>0, <1>2 DEF Jobs, TypeInv
    <2>2. Sound(job[t])'
      BY <1>0, <1>2, <2>1 DEF Sound, StoreGrows
    <2>. QED
      BY <1>2, <2>2, OthersStaySound
  <1>3. ASSUME job[t].step = "evict", job[t].call = "ingest",
               job' = [job EXCEPT ![t] = [job[t] EXCEPT !.step = "stamp", !.plan = {}]]
        PROVE  JobsAreSound'
    <2>1. job'[t].step = "stamp" /\ job'[t].call = "ingest" /\ job'[t].plan = {}
          /\ job'[t].next = job[t].next
      BY <1>0, <1>3 DEF Jobs, TypeInv
    <2>2. Sound(job[t])'
      BY <1>0, <1>3, <2>1 DEF Sound, StoreGrows
    <2>. QED
      BY <1>3, <2>2, OthersStaySound
  <1>4. ASSUME job[t].call # "ingest", NEW plan, plan \subseteq text,
               job' = [job EXCEPT ![t] = [job[t] EXCEPT !.step = "evict", !.plan = plan]]
        PROVE  JobsAreSound'
    <2>1. job'[t].step = "evict" /\ job'[t].call # "ingest" /\ job'[t].plan = plan
      BY <1>0, <1>4 DEF Jobs, TypeInv
    <2>2. Sound(job[t])'
      BY <1>4, <2>1 DEF Sound, StoreGrows
    <2>. QED
      BY <1>4, <2>2, OthersStaySound
  <1>. DEFINE Becomes(step, seen, plan) ==
         [job EXCEPT ![t] = [job[t] EXCEPT !.step = step, !.seen = seen, !.plan = plan]]
  <1>5. job[t].plan \subseteq text
    BY <1>0 DEF Sound
  <1>6. CASE Budget(t)
    <2>1. job[t].step = "budget" /\ job[t].call = "ingest"
      BY <1>0, <1>6 DEF Budget, At, Sound
    <2>2. \/ job' = Becomes("cooldown", now, job[t].plan)
          \/ job' = Becomes("return", job[t].seen, job[t].plan)
      BY <1>0, <1>6 DEF Budget, Goto, Jobs, TypeInv
    <2>. QED
      BY <1>2, <1>5, <2>1, <2>2
  <1>7. CASE CheckCooldown(t)
    <2>1. job[t].step = "cooldown" /\ job[t].call = "ingest"
      BY <1>0, <1>7 DEF CheckCooldown, At, Sound
    <2>2. \/ job' = Becomes("plan", job[t].seen, job[t].plan)
          \/ job' = Becomes("return", job[t].seen, job[t].plan)
      BY <1>0, <1>7 DEF CheckCooldown, Goto, Jobs, TypeInv
    <2>. QED
      BY <1>2, <1>5, <2>1, <2>2
  <1>8. CASE Stamp(t)
    <2>1. job[t].step = "stamp" /\ job[t].call = "ingest"
      BY <1>0, <1>8 DEF Stamp, At, Sound
    <2>2. job' = Becomes("return", job[t].seen, job[t].plan)
      BY <1>0, <1>8 DEF Stamp, Goto, Jobs, TypeInv
    <2>. QED
      BY <1>2, <1>5, <2>1, <2>2
  <1>9. CASE Deliver(t)
    BY <1>1, <1>9 DEF Deliver, Return
  <1>10. CASE BeginEnforce(t)
    <2>. DEFINE j == [Idle EXCEPT !.step = "plan", !.call = "enforce"]
    <2>1. job' = [job EXCEPT ![t] = j] /\ job'[t] = j
      BY <1>10 DEF BeginEnforce, TypeInv
    <2>2. job'[t].step = "plan" /\ job'[t].call = "enforce" /\ job'[t].plan = {}
      BY <2>1 DEF Idle
    <2>. HIDE DEF j
    <2>3. Sound(job[t])'
      BY <2>2 DEF Sound
    <2>. QED
      BY <2>1, <2>3, OthersStaySound
  <1>11. CASE Plan(t)
    <2>1. job[t].step = "plan" /\ Planned \subseteq text
      BY <1>11 DEF Plan, At, Planned, Evictable
    <2>2. CASE Planned # {} /\ job[t].call = "ingest"
      <3>1. job' = Becomes("evict", job[t].seen, Planned)
        BY <1>0, <1>11, <2>2 DEF Plan, Jobs, TypeInv
      <3>. QED
        BY <1>2, <2>1, <2>2, <3>1
    <2>3. CASE Planned # {} /\ job[t].call # "ingest"
      <3>1. job' = [job EXCEPT ![t] = [job[t] EXCEPT !.step = "evict", !.plan = Planned]]
        BY <1>11, <2>3 DEF Plan
      <3>. QED
        BY <1>4, <2>1, <2>3, <3>1
    <2>4. CASE Planned = {} /\ job[t].call = "ingest"
      <3>1. job' = Becomes("stamp", job[t].seen, job[t].plan)
        BY <1>0, <1>11, <2>4 DEF Plan, Jobs, TypeInv
      <3>. QED
        BY <1>2, <1>5, <2>1, <2>4, <3>1
    <2>5. CASE Planned = {} /\ job[t].call # "ingest"
      BY <1>1, <1>11, <2>5 DEF Plan
    <2>. QED
      BY <2>2, <2>3, <2>4, <2>5
  <1>12. CASE Evict(t)
    <2>1. PICK m \in Messages : Evicted(t, m)
      BY <1>12 DEF Evict
    <2>2. job[t].step = "evict" /\ job[t].plan \ {m} \subseteq text
      BY <1>5, <1>12 DEF Evict, At
    <2>3. CASE job[t].plan # {m} /\ job[t].call = "ingest"
      <3>1. job' = Becomes("evict", job[t].seen, job[t].plan \ {m})
        BY <1>0, <2>1, <2>2, <2>3 DEF Evicted, Jobs, TypeInv
      <3>. QED
        BY <1>2, <2>2, <2>3, <3>1
    <2>4. CASE job[t].plan # {m} /\ job[t].call # "ingest"
      <3>1. job' = [job EXCEPT ![t] = [job[t] EXCEPT !.step = "evict",
                                                     !.plan = job[t].plan \ {m}]]
        BY <1>0, <2>1, <2>2, <2>4 DEF Evicted, Jobs, TypeInv
      <3>. QED
        BY <1>4, <2>2, <2>4, <3>1
    <2>5. CASE job[t].plan = {m} /\ job[t].call = "ingest"
      <3>1. job' = [job EXCEPT ![t] = [job[t] EXCEPT !.step = "stamp", !.plan = {}]]
        BY <2>1, <2>5 DEF Evicted
      <3>. QED
        BY <1>3, <2>2, <2>5, <3>1
    <2>6. CASE job[t].plan = {m} /\ job[t].call # "ingest"
      BY <1>1, <2>1, <2>6 DEF Evicted
    <2>. QED
      BY <2>3, <2>4, <2>5, <2>6
  <1>13. CASE EvictFails(t)
    <2>1. CASE job[t].call = "ingest"
      BY <1>13, <1>3, <2>1 DEF EvictFails, At
    <2>2. CASE job[t].call # "ingest"
      BY <1>1, <1>13, <2>2 DEF EvictFails
    <2>. QED
      BY <2>1, <2>2
  <1>. QED
    BY <1>6, <1>7, <1>8, <1>9, <1>10, <1>11, <1>12, <1>13

LEMMA OtherStepSound ==
  ASSUME IInv, StoreGrows, NEW t \in Threads,
         (\E m \in Messages : BeginHydrate(t, m)) \/ Process(t)
           \/ (\E a \in Assets : BeginSendMedia(t, a)) \/ Upload(t) \/ TransportFails(t)
  PROVE  JobsAreSound'
  <1>. USE DEF IInv
  <1>0. job[t] \in Jobs /\ Sound(job[t])
    BY DEF TypeInv, JobsAreSound
  <1>1. ASSUME Return(t) PROVE JobsAreSound'
    <2>1. job' = [job EXCEPT ![t] = Idle] /\ job'[t] = Idle
      BY <1>1 DEF Return, TypeInv
    <2>2. Sound(job[t])'
      BY <2>1 DEF Sound, Idle
    <2>. QED
      BY <2>1, <2>2, OthersStaySound
  <1>2. ASSUME NEW m \in Messages, BeginHydrate(t, m) PROVE JobsAreSound'
    <2>. DEFINE j == [Idle EXCEPT !.step = "hydrate", !.call = "hydrate", !.of = m]
    <2>1. job' = [job EXCEPT ![t] = j] /\ job'[t] = j
      BY <1>2 DEF BeginHydrate, TypeInv
    <2>2. j.step = "hydrate" /\ j.call = "hydrate" /\ j.of = m /\ j.plan = {}
      BY DEF Idle
    <2>. HIDE DEF j
    <2>3. Sound(job[t])'
      BY <2>1, <2>2 DEF Sound
    <2>. QED
      BY <2>1, <2>3, OthersStaySound
  <1>3. CASE Process(t)
    <2>1. job[t].call = "hydrate" /\ job[t].plan \subseteq text
      BY <1>0, <1>3 DEF Process, At, Sound
    <2>2. CASE Return(t)
      BY <1>1, <2>2
    <2>3. CASE ~Return(t)
      <3>. DEFINE j == [job[t] EXCEPT !.step = "check", !.page = PageAfter(job[t].of)]
      <3>1. job' = [job EXCEPT ![t] = j] /\ job'[t] = j
        BY <1>3, <2>3 DEF Process, TypeInv
      <3>2. job'[t].step = "check" /\ job'[t].call = "hydrate" /\ job'[t].plan = job[t].plan
        BY <1>0, <2>1, <3>1 DEF Jobs
      <3>. HIDE DEF j
      <3>3. Sound(job[t])'
        BY <2>1, <3>2 DEF Sound, StoreGrows
      <3>. QED
        BY <3>1, <3>3, OthersStaySound
    <2>. QED
      BY <2>2, <2>3
  <1>4. ASSUME NEW a \in Assets, BeginSendMedia(t, a) PROVE JobsAreSound'
    <2>. DEFINE j == [Idle EXCEPT !.step = "upload", !.call = "send_media", !.of = a]
    <2>1. job' = [job EXCEPT ![t] = j] /\ job'[t] = j /\ a \in sent'
      BY <1>4 DEF BeginSendMedia, TypeInv
    <2>2. job'[t].step = "upload" /\ job'[t].of = a /\ job'[t].plan = {}
      BY <2>1 DEF Idle
    <2>. HIDE DEF j
    <2>3. Sound(job[t])'
      BY <2>1, <2>2 DEF Sound
    <2>. QED
      BY <2>1, <2>3, OthersStaySound
  <1>5. CASE Upload(t)
    BY <1>1, <1>5 DEF Upload
  <1>6. CASE TransportFails(t)
    BY <1>1, <1>6 DEF TransportFails
  <1>. QED
    BY <1>2, <1>3, <1>4, <1>5, <1>6

--------------------------------------------------------------------------------
(* The invariants *)

LEMMA TypesStay == IInv /\ [Next]_vars => TypeInv'
  <1>. SUFFICES ASSUME IInv, [Next]_vars PROVE TypeInv'
    OBVIOUS
  <1>. USE DEF IInv
  <1>1. CASE \E t \in Threads : Ingestion(t) \/ OtherCall(t)
    BY <1>1, PageStepTypes, BudgetStepTypes, OtherStepTypes DEF Ingestion, OtherCall
  <1>2. ASSUME NEW m \in Messages, Archive(m) PROVE TypeInv'
    BY <1>2 DEF Archive, TypeInv
  <1>3. CASE Tick
    BY <1>3, CoreCallsAssumption DEF Tick, TypeInv, Times, store
  <1>4. CASE Crash
    BY <1>4, FaultTypes, IdleIsJob DEF Crash, TypeInv, store
  <1>5. CASE StartOver
    BY <1>5, FaultTypes, CoreCallsAssumption DEF StartOver, TypeInv, store
  <1>6. CASE UNCHANGED vars
    BY <1>6 DEF vars, store, TypeInv
  <1>. QED
    BY <1>1, <1>2, <1>3, <1>4, <1>5, <1>6 DEF Next

LEMMA JobsStaySound == IInv /\ [Next]_vars => JobsAreSound'
  <1>. SUFFICES ASSUME IInv, [Next]_vars PROVE JobsAreSound'
    OBVIOUS
  <1>0. StoreGrows
    BY StoreOnlyGrows
  <1>1. CASE \E t \in Threads : Ingestion(t) \/ OtherCall(t)
    BY <1>0, <1>1, PageStepSound, BudgetStepSound, OtherStepSound DEF Ingestion, OtherCall
  <1>2. CASE UNCHANGED job
    BY <1>0, <1>2, SoundStays DEF IInv, JobsAreSound
  <1>3. CASE Crash
    <2>1. \A t \in Threads : job'[t] = Idle
      BY <1>3 DEF Crash
    <2>2. \A t \in Threads : Sound(job[t])'
      BY <2>1 DEF Sound, Idle
    <2>. QED
      BY <2>2 DEF JobsAreSound
  <1>. QED
    BY <1>1, <1>2, <1>3 DEF Next, Archive, Tick, StartOver, vars

(* The cursor moves only to the end of a page of which every message is      *)
(* stored, and what is stored stays.                                         *)
LEMMA NothingIsSkipped == IInv /\ [Next]_vars => NothingSkipped'
  <1>. SUFFICES ASSUME IInv, [Next]_vars PROVE NothingSkipped'
    OBVIOUS
  <1>. USE DEF IInv
  <1>0. StoreGrows /\ 1..cursor \subseteq Messages
    BY StoreOnlyGrows, CoreCallsAssumption DEF TypeInv, Messages
  <1>1. CASE UNCHANGED cursor
    BY <1>0, <1>1 DEF NothingSkipped, StoreGrows
  <1>2. ASSUME NEW t \in Threads, Deliver(t) PROVE NothingSkipped'
    <2>1. job[t].step = "return" /\ Sound(job[t]) /\ job[t].next \in 0..Log
      BY <1>2 DEF Deliver, At, JobsAreSound, TypeInv, Jobs
    <2>2. \A m \in 1..job[t].next : Stored(m)
      BY <2>1 DEF Sound
    <2>3. cursor' = job[t].next /\ \A m \in Messages : Stored(m)' <=> Stored(m)
      BY <1>2 DEF Deliver, Stored, store
    <2>4. 1..job[t].next \subseteq Messages
      BY <2>1, CoreCallsAssumption DEF Messages
    <2>. QED
      BY <2>2, <2>3, <2>4 DEF NothingSkipped
  <1>3. CASE StartOver
    BY <1>3 DEF StartOver, NothingSkipped
  <1>. QED
    BY <1>1, <1>2, <1>3 DEF Next, Ingestion, OtherCall, Archive, Tick, Crash, vars,
       BeginIngest, Fetch, Check, Insert, InsertFails, PageDone, Budget, CheckCooldown, Stamp,
       BeginEnforce, Plan, Evict, EvictFails, BeginHydrate, Process, BeginSendMedia, Upload,
       TransportFails

(* A blob is uploaded for the asset of an upload step, whose rows are there. *)
LEMMA BlobsKeepRows == IInv /\ [Next]_vars => BlobHasRows'
  <1>. SUFFICES ASSUME IInv, [Next]_vars PROVE BlobHasRows'
    OBVIOUS
  <1>. USE DEF IInv
  <1>0. StoreGrows
    BY StoreOnlyGrows
  <1>1. CASE UNCHANGED blobs
    BY <1>0, <1>1 DEF BlobHasRows, StoreGrows
  <1>2. ASSUME NEW t \in Threads, Upload(t) \/ TransportFails(t) PROVE BlobHasRows'
    <2>1. Sound(job[t])
      BY DEF JobsAreSound
    <2>2. \/ blobs' = blobs
          \/ job[t].of \in sent /\ blobs' = blobs \cup {job[t].of}
      BY <1>2, <2>1 DEF Upload, TransportFails, At, Sound
    <2>. QED
      BY <1>0, <2>2 DEF BlobHasRows, StoreGrows
  <1>. QED
    BY <1>1, <1>2 DEF Next, Ingestion, OtherCall, Archive, Tick, Crash, StartOver, vars,
       BeginIngest, Fetch, Check, Insert, InsertFails, PageDone, Budget, CheckCooldown, Stamp,
       Deliver, BeginEnforce, Plan, Evict, EvictFails, BeginHydrate, Process, BeginSendMedia

(* A plan holds bodies with their texts, and a row keeps its text.           *)
LEMMA EvictedKeepText == IInv /\ [Next]_vars => EvictedHasText'
  <1>. SUFFICES ASSUME IInv, [Next]_vars PROVE EvictedHasText'
    OBVIOUS
  <1>. USE DEF IInv
  <1>0. StoreGrows
    BY StoreOnlyGrows
  <1>1. CASE UNCHANGED row
    BY <1>0, <1>1 DEF EvictedHasText, StoreGrows
  <1>2. ASSUME NEW t \in Threads, Insert(t) PROVE EvictedHasText'
    <2>1. \A m \in Messages : row'[m] = row[m] \/ row'[m] = "local_plain_available"
      BY <1>2 DEF Insert, TypeInv, store
    <2>. QED
      BY <1>0, <2>1 DEF EvictedHasText, StoreGrows
  <1>3. ASSUME NEW t \in Threads, Evict(t) PROVE EvictedHasText'
    <2>1. PICK m \in Messages :
            m \in job[t].plan /\ row' = [row EXCEPT ![m] = "remote_archive_only"]
      BY <1>3 DEF Evict, IsNext
    <2>2. m \in text
      BY <2>1 DEF JobsAreSound, Sound
    <2>3. \A k \in Messages : row'[k] = row[k] \/ k = m
      BY <2>1 DEF TypeInv
    <2>. QED
      BY <1>0, <2>2, <2>3 DEF EvictedHasText, StoreGrows
  <1>. QED
    BY <1>1, <1>2, <1>3 DEF Next, Ingestion, OtherCall, Archive, Tick, Crash, StartOver, vars,
       BeginIngest, Fetch, Check, InsertFails, PageDone, Budget, CheckCooldown, Stamp, Deliver,
       BeginEnforce, Plan, EvictFails, BeginHydrate, Process, BeginSendMedia, Upload,
       TransportFails, store

LEMMA InvInit == Init => IInv
  <1>. SUFFICES ASSUME Init PROVE IInv
    OBVIOUS
  <1>1. TypeInv
    BY TypeInvInit
  <1>2. \A t \in Threads : job[t] = Idle
    BY DEF Init
  <1>3. JobsAreSound
    BY <1>2, IdleIsSound DEF JobsAreSound
  <1>4. NothingSkipped /\ BlobHasRows /\ EvictedHasText
    BY DEF Init, NothingSkipped, BlobHasRows, EvictedHasText
  <1>. QED
    BY <1>1, <1>3, <1>4 DEF IInv

THEOREM Invariance == Spec => []IInv
  <1>1. IInv /\ [Next]_vars => IInv'
    BY TypesStay, JobsStaySound, NothingIsSkipped, BlobsKeepRows, EvictedKeepText DEF IInv
  <1>. QED
    BY <1>1, InvInit, PTL DEF Spec

(* The type invariant that the runs check.                                   *)
THEOREM TypeCorrect == Spec => []TypeOK
  <1>1. TypeInv => TypeOK
    <2>. SUFFICES ASSUME TypeInv PROVE TypeOK
      OBVIOUS
    <2>1. ASSUME NEW t \in Threads
          PROVE  /\ job[t].step \in Steps /\ job[t].call \in Calls
                 /\ Range(job[t].page) \cup job[t].plan \subseteq Messages
                 /\ job[t].seen \in Times \cup {Unset}
      <3>1. job[t] \in Jobs
        BY DEF TypeInv
      <3>2. job[t].page \in Seq(Messages) /\ job[t].plan \subseteq Messages
        BY <3>1 DEF Jobs
      <3>3. Range(job[t].page) \subseteq Messages
        BY <3>2, PageIsOfMessages
      <3>. QED
        BY <3>1, <3>2, <3>3 DEF Jobs
    <2>. QED
      BY <2>1 DEF TypeInv, TypeOK, Calls
  <1>. QED
    BY <1>1, Invariance, PTL DEF IInv

(* Everything up to the host's cursor is in the store, whatever failed and   *)
(* whenever the process died (ingest_remote_messages, core_impl.rs).         *)
THEOREM CursorIsCovered == Spec => []NothingSkipped
  BY Invariance, PTL DEF IInv

(* Every blob at the gateway belongs to rows of the store (send_media).      *)
THEOREM BlobsHaveRows == Spec => []BlobHasRows
  BY Invariance, PTL DEF IInv

(* An evicted body is still readable (enforce_storage_budget, ingestion and  *)
(* hydration on any number of threads).                                      *)
THEOREM EvictedIsReadable == Spec => []EvictedHasText
  BY Invariance, PTL DEF IInv

--------------------------------------------------------------------------------
(* Pace of the automatic enforcement, with one poller.                       *)

(* last_enforcement_ms is read and written in two steps, without the mutex   *)
(* between: two pollers could both find the cooldown over.                   *)
OnePoller == \E p : Pollers = {p}

(* Pollers ingest, and the other threads do not.                             *)
Role(t, j) == IF t \in Pollers THEN j.step # "idle" => j.call = "ingest" ELSE j.call # "ingest"

(* What the poller knows of the last stamp l and of the last enforcement e:  *)
(* they are the same, but while it enforces itself.                          *)
Paced(j, l, e) ==
    /\ j.step \in {"cooldown", "plan", "evict", "stamp"} => j.seen \in Times
    /\ j.step \notin {"evict", "stamp"} => l = e
    /\ j.step = "plan" => l = Unset \/ j.seen - l > Cooldown
    /\ j.step \in {"evict", "stamp"} => e = j.seen

PaceInv == /\ \A t \in Threads : Role(t, job[t])
           /\ \A p \in Pollers : Paced(job[p], last, enforcedAt)

(* What EnforcedSparingly says of a step.                                    *)
Sparing == enforcedAt # Unset /\ enforcedAt' # enforcedAt
              => enforcedAt' = Unset \/ enforcedAt' - enforcedAt > Cooldown

(* One thread moves on: the others, and for a thread that does not poll the  *)
(* two instants, are as they were.                                           *)
LEMMA PaceOfOne ==
  ASSUME OnePoller, TypeInv, PaceInv, NEW t \in Threads, NEW j, job' = [job EXCEPT ![t] = j],
         Role(t, j),
         IF t \in Pollers THEN Paced(j, last', enforcedAt') ELSE UNCHANGED <<last, enforcedAt>>
  PROVE  PaceInv'
  <1>1. job'[t] = j /\ \A u \in Threads \ {t} : job'[u] = job[u]
    BY DEF TypeInv
  <1>2. \A u \in Threads : Role(u, job[u])'
    BY <1>1 DEF PaceInv, Role
  <1>3. ASSUME NEW p \in Pollers PROVE Paced(job[p], last, enforcedAt)'
    <2>1. p \in Threads
      BY CoreCallsAssumption
    <2>2. CASE p = t
      BY <1>1, <2>2 DEF Paced
    <2>3. CASE p # t
      <3>1. t \notin Pollers /\ job'[p] = job[p]
        BY <1>1, <2>1, <2>3 DEF OnePoller
      <3>. QED
        BY <3>1 DEF PaceInv, Paced
    <2>. QED BY <2>2, <2>3
  <1>. QED
    BY <1>2, <1>3 DEF PaceInv

LEMMA PaceOfReturn ==
  ASSUME OnePoller, TypeInv, PaceInv, NEW t \in Threads, Return(t), UNCHANGED <<last, enforcedAt>>,
         job[t].step \notin {"evict", "stamp"} \/ t \notin Pollers
  PROVE  PaceInv'
  <1>1. Role(t, Idle) /\ (t \in Pollers => Paced(Idle, last', enforcedAt'))
    BY DEF PaceInv, Role, Paced, Idle
  <1>. QED
    BY <1>1, PaceOfOne DEF Return

LEMMA PaceOfMove ==
  ASSUME OnePoller, TypeInv, PaceInv, NEW t \in Threads, NEW j \in Jobs,
         job' = [job EXCEPT ![t] = j], UNCHANGED <<last, enforcedAt>>,
         j.call = job[t].call, job[t].step \notin {"idle", "evict", "stamp"},
         j.step \notin {"cooldown", "plan", "evict", "stamp"}
  PROVE  PaceInv'
  <1>1. Role(t, j) /\ (t \in Pollers => Paced(j, last', enforcedAt'))
    BY DEF PaceInv, Role, Paced
  <1>. QED
    BY <1>1, PaceOfOne

LEMMA PaceOfGoto ==
  ASSUME OnePoller, TypeInv, PaceInv, NEW t \in Threads, NEW step \in Steps, Goto(t, step),
         UNCHANGED <<last, enforcedAt>>, job[t].step \notin {"idle", "evict", "stamp"},
         step \notin {"cooldown", "plan", "evict", "stamp"}
  PROVE  PaceInv'
  <1>. DEFINE j == [job[t] EXCEPT !.step = step]
  <1>1. job[t] \in Jobs
    BY DEF TypeInv
  <1>2. j \in Jobs /\ j.call = job[t].call /\ j.step = step
    BY <1>1 DEF Jobs
  <1>3. job' = [job EXCEPT ![t] = j]
    BY DEF Goto
  <1>. HIDE DEF j
  <1>. QED
    BY <1>2, <1>3, PaceOfMove

LEMMA PaceOfBegin ==
  ASSUME OnePoller, TypeInv, PaceInv, NEW t \in Threads, NEW j, job' = [job EXCEPT ![t] = j],
         job[t].step = "idle", UNCHANGED <<last, enforcedAt>>,
         IF t \in Pollers THEN j.step = "fetch" /\ j.call = "ingest" ELSE j.call # "ingest"
  PROVE  PaceInv'
  <1>1. Role(t, j) /\ (t \in Pollers => Paced(j, last', enforcedAt'))
    BY DEF PaceInv, Role, Paced
  <1>. QED
    BY <1>1, PaceOfOne

LEMMA PaceOfPageStep ==
  ASSUME OnePoller, IInv, PaceInv, NEW t \in Threads,
         BeginIngest(t) \/ Fetch(t) \/ Check(t) \/ Insert(t) \/ InsertFails(t) \/ PageDone(t)
  PROVE  PaceInv' /\ UNCHANGED <<last, enforcedAt>>
  <1>. USE DEF IInv, store
  <1>0. /\ job[t] \in Jobs /\ job[t].page \in Seq(Messages) /\ Sound(job[t])
        /\ UNCHANGED <<last, enforcedAt>>
    BY DEF TypeInv, Jobs, JobsAreSound, BeginIngest, Fetch, Check, Insert, InsertFails, PageDone
  <1>1. CASE BeginIngest(t)
    <2>. DEFINE j == [Idle EXCEPT !.step = "fetch", !.call = "ingest"]
    <2>1. job' = [job EXCEPT ![t] = j] /\ t \in Pollers /\ job[t].step = "idle"
      BY <1>1 DEF BeginIngest, At
    <2>2. j.step = "fetch" /\ j.call = "ingest"
      BY DEF Idle
    <2>. HIDE DEF j
    <2>. QED
      BY <1>0, <2>1, <2>2, PaceOfBegin
  <1>2. CASE Fetch(t)
    <2>. DEFINE n == cursor + Len(PageAfter(cursor))
                j == [job[t] EXCEPT !.step = "check", !.page = PageAfter(cursor), !.next = n]
    <2>1. job' = [job EXCEPT ![t] = j] /\ job[t].step = "fetch"
      BY <1>2 DEF Fetch, At
    <2>2. n \in 0..Log /\ PageAfter(cursor) \in Seq(Messages)
      BY PageAfterCursor DEF TypeInv
    <2>. HIDE DEF n
    <2>3. j \in Jobs /\ j.step = "check" /\ j.call = job[t].call
      BY <1>0, <2>2 DEF Jobs, Steps
    <2>. HIDE DEF j
    <2>. QED
      BY <1>0, <2>1, <2>3, PaceOfMove
  <1>3. ASSUME NEW step \in {"check", "insert"}, job[t].step = step, job[t].page # <<>>,
               job' = [job EXCEPT ![t].step = "check", ![t].page = Tail(@)]
        PROVE  PaceInv'
    <2>. DEFINE j == [job[t] EXCEPT !.step = "check", !.page = Tail(job[t].page)]
    <2>1. job' = [job EXCEPT ![t] = j]
      BY <1>3
    <2>2. Tail(job[t].page) \in Seq(Messages)
      BY <1>0, <1>3
    <2>3. j \in Jobs /\ j.step = "check" /\ j.call = job[t].call
      BY <1>0, <2>2 DEF Jobs, Steps
    <2>. HIDE DEF j
    <2>. QED
      BY <1>0, <1>3, <2>1, <2>3, PaceOfMove
  <1>4. CASE Check(t)
    <2>1. job[t].step = "check" /\ job[t].page # <<>>
      BY <1>4 DEF Check, At
    <2>2. Return(t) \/ Goto(t, "insert") \/ job' = [job EXCEPT ![t].page = Tail(@)]
      BY <1>4 DEF Check
    <2>3. CASE Return(t) \/ Goto(t, "insert")
      BY <1>0, <2>1, <2>3, PaceOfReturn, PaceOfGoto DEF Steps
    <2>4. CASE job' = [job EXCEPT ![t].page = Tail(@)]
      <3>. DEFINE j == [job[t] EXCEPT !.page = Tail(job[t].page)]
      <3>1. job' = [job EXCEPT ![t] = j]
        BY <2>4
      <3>2. Tail(job[t].page) \in Seq(Messages)
        BY <1>0, <2>1
      <3>3. j \in Jobs /\ j.step = "check" /\ j.call = job[t].call
        BY <1>0, <2>1, <3>2 DEF Jobs, Steps
      <3>. HIDE DEF j
      <3>. QED
        BY <1>0, <2>1, <3>1, <3>3, PaceOfMove
    <2>. QED
      BY <2>2, <2>3, <2>4
  <1>5. CASE Insert(t)
    <2>1. job[t].step = "insert" /\ job[t].page # <<>>
      BY <1>0, <1>5 DEF Insert, At, Sound
    <2>2. Return(t) \/ job' = [job EXCEPT ![t].step = "check", ![t].page = Tail(@)]
      BY <1>5 DEF Insert
    <2>. QED
      BY <1>0, <1>3, <2>1, <2>2, PaceOfReturn
  <1>6. CASE InsertFails(t)
    BY <1>0, <1>6, PaceOfReturn DEF InsertFails, At
  <1>7. CASE PageDone(t)
    BY <1>0, <1>7, PaceOfReturn, PaceOfGoto DEF PageDone, At, Steps
  <1>. QED
    BY <1>0, <1>1, <1>2, <1>4, <1>5, <1>6, <1>7

LEMMA PaceOfOtherStep ==
  ASSUME OnePoller, IInv, PaceInv, NEW t \in Threads,
         \/ BeginEnforce(t) \/ Process(t) \/ Upload(t) \/ TransportFails(t)
         \/ \E m \in Messages : BeginHydrate(t, m)
         \/ \E a \in Assets : BeginSendMedia(t, a)
  PROVE  PaceInv' /\ UNCHANGED <<last, enforcedAt>>
  <1>. USE DEF IInv, store
  <1>0. /\ job[t] \in Jobs /\ Sound(job[t])
        /\ UNCHANGED <<last, enforcedAt>>
    BY DEF TypeInv, JobsAreSound, BeginEnforce, Process, Upload, TransportFails, BeginHydrate,
           BeginSendMedia
  <1>1. CASE BeginEnforce(t)
    <2>. DEFINE j == [Idle EXCEPT !.step = "plan", !.call = "enforce"]
    <2>1. job' = [job EXCEPT ![t] = j] /\ t \notin Pollers /\ job[t].step = "idle"
      BY <1>1 DEF BeginEnforce, At
    <2>2. j.call = "enforce"
      BY DEF Idle
    <2>. HIDE DEF j
    <2>. QED
      BY <1>0, <2>1, <2>2, PaceOfBegin
  <1>2. ASSUME NEW m \in Messages, BeginHydrate(t, m) PROVE PaceInv'
    <2>. DEFINE j == [Idle EXCEPT !.step = "hydrate", !.call = "hydrate", !.of = m]
    <2>1. job' = [job EXCEPT ![t] = j] /\ t \notin Pollers /\ job[t].step = "idle"
      BY <1>2 DEF BeginHydrate, At
    <2>2. j.call = "hydrate"
      BY DEF Idle
    <2>. HIDE DEF j
    <2>. QED
      BY <1>0, <2>1, <2>2, PaceOfBegin
  <1>3. ASSUME NEW a \in Assets, BeginSendMedia(t, a) PROVE PaceInv'
    <2>. DEFINE j == [Idle EXCEPT !.step = "upload", !.call = "send_media", !.of = a]
    <2>1. job' = [job EXCEPT ![t] = j] /\ t \notin Pollers /\ job[t].step = "idle"
      BY <1>3 DEF BeginSendMedia, At
    <2>2. j.call = "send_media"
      BY DEF Idle
    <2>. HIDE DEF j
    <2>. QED
      BY <1>0, <2>1, <2>2, PaceOfBegin
  <1>4. CASE Process(t)
    <2>1. job[t].step = "hydrate"
      BY <1>4 DEF Process, At
    <2>2. CASE Return(t)
      BY <1>0, <2>1, <2>2, PaceOfReturn
    <2>3. CASE job' = [job EXCEPT ![t].step = "check", ![t].page = PageAfter(job[t].of)]
      <3>. DEFINE j == [job[t] EXCEPT !.step = "check", !.page = PageAfter(job[t].of)]
      <3>1. job' = [job EXCEPT ![t] = j]
        BY <2>3
      <3>2. job[t].of \in 0..Log
        BY <1>0, <2>1 DEF Sound, Messages
      <3>3. PageAfter(job[t].of) \in Seq(Messages)
        BY <3>2, PageAfterCursor
      <3>4. j \in Jobs /\ j.step = "check" /\ j.call = job[t].call
        BY <1>0, <3>3 DEF Jobs, Steps
      <3>. HIDE DEF j
      <3>. QED
        BY <1>0, <2>1, <3>1, <3>4, PaceOfMove
    <2>. QED
      BY <1>4, <2>2, <2>3 DEF Process
  <1>5. CASE Upload(t) \/ TransportFails(t)
    BY <1>0, <1>5, PaceOfReturn DEF Upload, TransportFails, At
  <1>. QED
    BY <1>0, <1>1, <1>2, <1>3, <1>4, <1>5

LEMMA PaceOfBudgetStep ==
  ASSUME OnePoller, IInv, PaceInv, NEW t \in Threads,
         Budget(t) \/ CheckCooldown(t) \/ Stamp(t) \/ Deliver(t)
           \/ Plan(t) \/ Evict(t) \/ EvictFails(t)
  PROVE  PaceInv' /\ Sparing
  <1>. USE DEF IInv, store
  <1>0. /\ job[t] \in Jobs /\ Sound(job[t]) /\ Role(t, job[t])
        /\ t \in Pollers => Paced(job[t], last, enforcedAt)
        /\ now \in Times /\ Times \subseteq Nat /\ Unset \notin Times
        /\ last \in Times \cup {Unset} /\ enforcedAt \in Times \cup {Unset}
    BY CoreCallsAssumption DEF TypeInv, JobsAreSound, PaceInv, Times
  <1>1. CASE Budget(t)
    <2>1. job[t].step = "budget" /\ t \in Pollers /\ UNCHANGED <<last, enforcedAt>>
      BY <1>0, <1>1 DEF Budget, At, Sound, Role
    <2>2. CASE Goto(t, "return")
      BY <2>1, <2>2, PaceOfGoto DEF Steps, Sparing
    <2>3. CASE job' = [job EXCEPT ![t].step = "cooldown", ![t].seen = now]
      <3>. DEFINE j == [job[t] EXCEPT !.step = "cooldown", !.seen = now]
      <3>1. job' = [job EXCEPT ![t] = j]
        BY <2>3
      <3>2. j.step = "cooldown" /\ j.call = job[t].call /\ j.seen = now
        BY <1>0 DEF Jobs
      <3>. HIDE DEF j
      <3>3. Role(t, j) /\ Paced(j, last', enforcedAt')
        BY <1>0, <2>1, <3>2 DEF Role, Paced
      <3>. QED
        BY <2>1, <3>1, <3>3, PaceOfOne DEF Sparing
    <2>. QED
      BY <1>1, <2>2, <2>3 DEF Budget
  <1>2. CASE CheckCooldown(t)
    <2>1. job[t].step = "cooldown" /\ t \in Pollers /\ UNCHANGED <<last, enforcedAt>>
      BY <1>0, <1>2 DEF CheckCooldown, At, Sound, Role
    <2>2. CASE Goto(t, "return")
      BY <2>1, <2>2, PaceOfGoto DEF Steps, Sparing
    <2>3. CASE (last = Unset \/ job[t].seen - last > Cooldown) /\ Goto(t, "plan")
      <3>. DEFINE j == [job[t] EXCEPT !.step = "plan"]
      <3>1. job' = [job EXCEPT ![t] = j]
        BY <2>3 DEF Goto
      <3>2. j.step = "plan" /\ j.call = job[t].call /\ j.seen = job[t].seen
        BY <1>0 DEF Jobs
      <3>. HIDE DEF j
      <3>3. Role(t, j) /\ Paced(j, last', enforcedAt')
        BY <1>0, <2>1, <2>3, <3>2 DEF Role, Paced
      <3>. QED
        BY <2>1, <3>1, <3>3, PaceOfOne DEF Sparing
    <2>. QED
      BY <1>2, <2>2, <2>3 DEF CheckCooldown
  <1>3. CASE Stamp(t)
    <2>1. /\ job[t].step = "stamp" /\ t \in Pollers /\ last' = job[t].seen
          /\ enforcedAt' = enforcedAt /\ Goto(t, "return")
      BY <1>0, <1>3 DEF Stamp, At, Sound, Role
    <2>. DEFINE j == [job[t] EXCEPT !.step = "return"]
    <2>2. job' = [job EXCEPT ![t] = j]
      BY <2>1 DEF Goto
    <2>3. j.step = "return" /\ j.call = job[t].call
      BY <1>0 DEF Jobs
    <2>. HIDE DEF j
    <2>4. Role(t, j) /\ Paced(j, last', enforcedAt')
      BY <1>0, <2>1, <2>3 DEF Role, Paced
    <2>. QED
      BY <2>1, <2>2, <2>4, PaceOfOne DEF Sparing
  <1>4. CASE Deliver(t)
    BY <1>4, PaceOfReturn DEF Deliver, At, Sparing
  <1>5. CASE t \notin Pollers /\ (Plan(t) \/ Evict(t) \/ EvictFails(t))
    <2>1. job[t].call # "ingest" /\ UNCHANGED <<last, enforcedAt>>
      BY <1>0, <1>5 DEF Role, Plan, Evict, EvictFails
    <2>2. PICK j : job' = [job EXCEPT ![t] = j] /\ j.call # "ingest"
      <3>. DEFINE evicting == [job[t] EXCEPT !.step = "evict", !.plan = Planned]
                  rest(m) == [job[t] EXCEPT !.plan = job[t].plan \ {m}]
      <3>1. evicting.call # "ingest" /\ Idle.call # "ingest"
        BY <1>0, <2>1 DEF Jobs, Idle
      <3>2. ASSUME NEW m PROVE rest(m).call # "ingest"
        BY <1>0, <2>1 DEF Jobs
      <3>3. ASSUME Plan(t) PROVE job' = [job EXCEPT ![t] = evicting] \/ job' = [job EXCEPT ![t] = Idle]
        BY <2>1, <3>3 DEF Plan
      <3>4. ASSUME Evict(t)
            PROVE  (\E m : job' = [job EXCEPT ![t] = rest(m)]) \/ job' = [job EXCEPT ![t] = Idle]
        BY <2>1, <3>4 DEF Evict, Evicted
      <3>5. ASSUME EvictFails(t) PROVE job' = [job EXCEPT ![t] = Idle]
        BY <2>1, <3>5 DEF EvictFails
      <3>. HIDE DEF evicting, rest
      <3>. QED
        BY <1>5, <3>1, <3>2, <3>3, <3>4, <3>5
    <2>3. Role(t, j)
      BY <1>5, <2>2 DEF Role
    <2>. QED
      BY <1>5, <2>1, <2>2, <2>3, PaceOfOne DEF Sparing
  <1>6. CASE t \in Pollers /\ Plan(t)
    <2>1. /\ job[t].step = "plan" /\ job[t].call = "ingest" /\ last' = last
          /\ enforcedAt' = job[t].seen
          /\ last = enforcedAt /\ (last = Unset \/ job[t].seen - last > Cooldown)
          /\ job[t].seen \in Times
      BY <1>0, <1>6 DEF Plan, At, Role, Paced
    <2>2. PICK j : /\ job' = [job EXCEPT ![t] = j] /\ j.call = "ingest"
                   /\ j.step \in {"evict", "stamp"} /\ j.seen = job[t].seen
      <3>. DEFINE evicting == [job[t] EXCEPT !.step = "evict", !.plan = Planned]
                  stamping == [job[t] EXCEPT !.step = "stamp"]
      <3>1. /\ evicting.call = "ingest" /\ evicting.step = "evict" /\ evicting.seen = job[t].seen
            /\ stamping.call = "ingest" /\ stamping.step = "stamp" /\ stamping.seen = job[t].seen
        BY <1>0, <2>1 DEF Jobs
      <3>2. job' = [job EXCEPT ![t] = evicting] \/ job' = [job EXCEPT ![t] = stamping]
        BY <1>6, <2>1 DEF Plan
      <3>. HIDE DEF evicting, stamping
      <3>. QED
        BY <3>1, <3>2
    <2>3. Role(t, j) /\ Paced(j, last', enforcedAt')
      BY <1>0, <2>1, <2>2 DEF Role, Paced
    <2>4. Sparing
      BY <2>1 DEF Sparing
    <2>. QED
      BY <1>6, <2>2, <2>3, <2>4, PaceOfOne
  <1>7. CASE t \in Pollers /\ (Evict(t) \/ EvictFails(t))
    <2>1. /\ job[t].step = "evict" /\ job[t].call = "ingest" /\ UNCHANGED <<last, enforcedAt>>
          /\ enforcedAt = job[t].seen /\ job[t].seen \in Times
      BY <1>0, <1>7 DEF Evict, EvictFails, At, Role, Paced
    <2>2. PICK j : /\ job' = [job EXCEPT ![t] = j] /\ j.call = "ingest"
                   /\ j.step \in {"evict", "stamp"} /\ j.seen = job[t].seen
      <3>. DEFINE rest(m) == [job[t] EXCEPT !.plan = job[t].plan \ {m}]
                  stamping == [job[t] EXCEPT !.step = "stamp", !.plan = {}]
      <3>1. /\ stamping.call = "ingest" /\ stamping.step = "stamp"
            /\ stamping.seen = job[t].seen
        BY <1>0, <2>1 DEF Jobs
      <3>2. ASSUME NEW m
            PROVE  rest(m).call = "ingest" /\ rest(m).step = "evict" /\ rest(m).seen = job[t].seen
        BY <1>0, <2>1 DEF Jobs
      <3>3. ASSUME Evict(t)
            PROVE  (\E m : job' = [job EXCEPT ![t] = rest(m)]) \/ job' = [job EXCEPT ![t] = stamping]
        BY <2>1, <3>3 DEF Evict, Evicted
      <3>4. ASSUME EvictFails(t) PROVE job' = [job EXCEPT ![t] = stamping]
        BY <2>1, <3>4 DEF EvictFails
      <3>. HIDE DEF rest, stamping
      <3>. QED
        BY <1>7, <3>1, <3>2, <3>3, <3>4
    <2>3. Role(t, j) /\ Paced(j, last', enforcedAt')
      BY <1>0, <2>1, <2>2 DEF Role, Paced
    <2>. QED
      BY <1>7, <2>1, <2>2, <2>3, PaceOfOne DEF Sparing
  <1>. QED
    BY <1>1, <1>2, <1>3, <1>4, <1>5, <1>6, <1>7

LEMMA PaceNext ==
  ASSUME OnePoller, IInv, PaceInv, [Next]_vars
  PROVE  PaceInv' /\ [Sparing]_vars
  <1>1. CASE \E t \in Threads : Ingestion(t) \/ OtherCall(t)
    <2>1. UNCHANGED <<last, enforcedAt>> => Sparing
      BY DEF Sparing
    <2>. QED
      BY <1>1, <2>1, PaceOfPageStep, PaceOfBudgetStep, PaceOfOtherStep DEF Ingestion, OtherCall
  <1>2. CASE UNCHANGED <<job, last, enforcedAt>>
    BY <1>2 DEF PaceInv, Role, Paced, Sparing
  <1>3. CASE Crash
    <2>1. last' = Unset /\ enforcedAt' = Unset /\ \A t \in Threads : job'[t] = Idle
      BY <1>3 DEF Crash
    <2>2. Pollers \subseteq Threads
      BY CoreCallsAssumption
    <2>3. PaceInv'
      BY <2>1, <2>2 DEF PaceInv, Role, Paced, Idle
    <2>. QED
      BY <2>1, <2>3 DEF Sparing
  <1>. QED
    BY <1>1, <1>2, <1>3 DEF Next, Archive, Tick, StartOver, vars

(* The automatic enforcement of a process with one poller keeps its          *)
(* cooldown, though it looks at the last instant in one step and writes it   *)
(* in another and the host's own enforcements run in between                 *)
(* (ingest_remote_messages, core_impl.rs).                                    *)
THEOREM EnforcementKeepsPace == ASSUME OnePoller PROVE Spec => EnforcedSparingly
  <1>1. Init => PaceInv
    <2>1. Pollers \subseteq Threads
      BY CoreCallsAssumption
    <2>. QED
      BY <2>1 DEF Init, PaceInv, Role, Paced, Idle
  <1>2. IInv /\ PaceInv /\ [Next]_vars => PaceInv' /\ [Sparing]_vars
    BY PaceNext
  <1>3. Spec => [][Sparing]_vars
    BY <1>1, <1>2, Invariance, PTL DEF Spec
  <1>. QED
    BY <1>3 DEF EnforcedSparingly, Sparing
================================================================================
