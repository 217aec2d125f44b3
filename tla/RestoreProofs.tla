----------------------------- MODULE RestoreProofs -----------------------------
(***************************************************************************)
(* Theorems about Restore, for any backup, any messages and any failures.  *)
(***************************************************************************)
EXTENDS Restore, TLAPS

Tasks == [pc : Places, segment : 0..(Len(Backup) + 1), skeletons : SUBSET Messages,
          bodies : SUBSET Messages, current : SUBSET Messages]

(* A restore is at a segment of the backup, or past the last one.            *)
InRange(j) ==
    /\ j.pc = "segment" => j.segment # 0
    /\ j.pc \in {"rows", "index"} => j.segment \in 1..Len(Backup)

TypeInv == TypeOK /\ \A r \in Restorers : InRange(task[r])

LEMMA BackupFacts ==
  /\ Len(Backup) \in Nat /\ DOMAIN Backup = 1..Len(Backup)
  /\ \A i \in 1..Len(Backup) :
        Backup[i].skeletons \subseteq Messages /\ Backup[i].bodies \subseteq Messages
  <1>. DEFINE Segment == [skeletons : SUBSET Messages, bodies : SUBSET Messages]
  <1>1. Backup \in Seq(Segment)
    BY RestoreAssumption
  <1>2. \A s \in Segment : s.skeletons \subseteq Messages /\ s.bodies \subseteq Messages
    OBVIOUS
  <1>. HIDE DEF Segment
  <1>3. Len(Backup) \in Nat /\ DOMAIN Backup = 1..Len(Backup)
        /\ \A i \in 1..Len(Backup) : Backup[i] \in Segment
    BY <1>1
  <1>. QED
    BY <1>2, <1>3

LEMMA IdleIsTask == Idle \in Tasks
  BY BackupFacts DEF Idle, Tasks, Places

LEMMA WriteTypes ==
  ASSUME TypeOK, NEW tables \in Tables, Write(tables)
  PROVE  disk' \in Tables /\ work' \in Tables /\ saves' \in Seq(Tables)
  BY DEF TypeOK, Write

LEMMA TypesStay ==
  ASSUME TypeInv, [Next]_vars
  PROVE  TypeInv'
  <1>. USE DEF TypeInv
  <1>0. /\ disk \in Tables /\ work \in Tables /\ before \in Tables /\ saves \in Seq(Tables)
        /\ task \in [Restorers -> Tasks] /\ acked \subseteq Messages /\ ignored \in BOOLEAN
        /\ Cleared \in Tables
    BY DEF TypeOK, Tasks, Cleared, Tables
  <1>1. ASSUME disk' \in Tables, work' \in Tables, before' \in Tables, saves' \in Seq(Tables),
               task' \in [Restorers -> Tasks], acked' \subseteq Messages, ignored' \in BOOLEAN,
               \A r \in Restorers : InRange(task'[r])
        PROVE  TypeInv'
    BY <1>1 DEF TypeOK, Tasks, InRange
  <1>2. ASSUME NEW r \in Restorers, NEW j \in Tasks, InRange(j), task' = [task EXCEPT ![r] = j]
        PROVE  task' \in [Restorers -> Tasks] /\ \A u \in Restorers : InRange(task'[u])
    BY <1>0, <1>2
  <1>3. ASSUME NEW r \in Restorers, Step(r) PROVE TypeInv'
    <2>0. task[r] \in Tasks /\ InRange(task[r])
      BY <1>0
    <2>1. CASE Fetch(r)
      <3>. DEFINE j == [Idle EXCEPT !.pc = IF Backup = <<>> THEN "done" ELSE "open"]
      <3>1. j \in Tasks /\ InRange(j)
        BY IdleIsTask DEF Tasks, Places, InRange, Idle
      <3>2. task' = [task EXCEPT ![r] = j]
        BY <2>1 DEF Fetch
      <3>. HIDE DEF j
      <3>. QED
        BY <1>0, <1>1, <1>2, <2>1, <3>1, <3>2 DEF Fetch
    <2>2. CASE SaveAndClear(r)
      <3>. DEFINE j == [task[r] EXCEPT !.pc = "segment", !.segment = 1]
      <3>0. 1 \in 0..(Len(Backup) + 1)
        BY BackupFacts
      <3>1. j \in Tasks /\ j.pc = "segment" /\ j.segment = 1
        BY <2>0, <3>0 DEF Tasks, Places
      <3>2. task' = [task EXCEPT ![r] = j]
        BY <2>2 DEF SaveAndClear
      <3>. HIDE DEF j
      <3>4. InRange(j)
        BY <3>1 DEF InRange
      <3>3. saves' \in Seq(Tables)
        BY <1>0, <2>2 DEF SaveAndClear
      <3>. QED
        BY <1>0, <1>1, <1>2, <2>2, <3>1, <3>2, <3>3, <3>4 DEF SaveAndClear
    <2>4. ASSUME NEW pc \in {"rollback", "failed", "done"}, Goto(r, pc)
          PROVE  task' \in [Restorers -> Tasks] /\ \A u \in Restorers : InRange(task'[u])
      <3>. DEFINE j == [task[r] EXCEPT !.pc = pc]
      <3>1. j \in Tasks /\ InRange(j)
        BY <2>0 DEF Tasks, Places, InRange
      <3>. QED
        BY <1>2, <2>4, <3>1 DEF Goto
    <2>13. CASE ClearFails(r)
      <3>1. HalfCleared(work) \subseteq Tables
        BY <1>0 DEF HalfCleared, Tables
      <3>2. saves' \in Seq(Tables) /\ work' \in Tables
        BY <1>0, <2>13, <3>1 DEF ClearFails
      <3>3. ignored' \in BOOLEAN
        BY <2>13 DEF ClearFails
      <3>4. Goto(r, "failed") /\ before' = disk /\ acked' = {} /\ disk' = disk
        BY <2>13 DEF ClearFails
      <3>. QED
        BY <1>0, <1>1, <2>4, <3>2, <3>3, <3>4
    <2>3. CASE OpenSegment(r)
      <3>. DEFINE s == Backup[task[r].segment]
                  j == [task[r] EXCEPT !.pc = "rows", !.skeletons = s.skeletons,
                                       !.bodies = s.bodies]
      <3>1. task[r].segment \in 1..Len(Backup)
        BY <2>0, <2>3, BackupFacts DEF OpenSegment, At, InRange, Tasks
      <3>2. j \in Tasks /\ InRange(j)
        BY <2>0, <3>1, BackupFacts DEF Tasks, Places, InRange
      <3>3. task' = [task EXCEPT ![r] = j]
        BY <2>3 DEF OpenSegment
      <3>. HIDE DEF j
      <3>. QED
        BY <1>0, <1>1, <1>2, <2>3, <3>2, <3>3 DEF OpenSegment
    <2>5. CASE SegmentFails(r)
      BY <1>0, <1>1, <2>4, <2>5 DEF SegmentFails
    <2>6. ASSUME NEW m \in Messages, RestoreSkeleton(r, m) PROVE TypeInv'
      <3>. DEFINE j == [task[r] EXCEPT !.skeletons = task[r].skeletons \ {m}]
                  tables == [work EXCEPT !.skeletons = work.skeletons \cup {m}]
      <3>1. j \in Tasks /\ InRange(j)
        BY <2>0 DEF Tasks, InRange
      <3>2. task' = [task EXCEPT ![r] = j]
        BY <2>6 DEF RestoreSkeleton
      <3>3. tables \in Tables /\ Write(tables)
        BY <1>0, <2>6 DEF RestoreSkeleton, Tables
      <3>. HIDE DEF j, tables
      <3>. QED
        BY <1>0, <1>1, <1>2, <2>6, <3>1, <3>2, <3>3, WriteTypes DEF RestoreSkeleton
    <2>7. ASSUME NEW m \in Messages, RestoreBody(r, m) PROVE TypeInv'
      <3>. DEFINE j == [task[r] EXCEPT !.pc = "index", !.bodies = task[r].bodies \ {m},
                                       !.current = {m}]
                  tables == [work EXCEPT !.bodies = work.bodies \cup {m}]
      <3>0. task[r].segment \in 1..Len(Backup)
        BY <2>0, <2>7 DEF RestoreBody, At, InRange
      <3>1. j \in Tasks /\ InRange(j)
        BY <2>0, <3>0 DEF Tasks, Places, InRange
      <3>2. task' = [task EXCEPT ![r] = j]
        BY <2>7 DEF RestoreBody
      <3>3. tables \in Tables /\ Write(tables)
        BY <1>0, <2>7 DEF RestoreBody, Tables
      <3>. HIDE DEF j, tables
      <3>. QED
        BY <1>0, <1>1, <1>2, <2>7, <3>1, <3>2, <3>3, WriteTypes DEF RestoreBody
    <2>8. CASE Index(r)
      <3>1. task[r].segment \in 1..Len(Backup) /\ task[r].current \subseteq Messages
        BY <2>0, <2>8 DEF Index, At, InRange, Tasks
      <3>2. \A pc \in {"rows", "rollback"} :
               [task[r] EXCEPT !.pc = pc] \in Tasks /\ InRange([task[r] EXCEPT !.pc = pc])
        BY <2>0, <3>1 DEF Tasks, Places, InRange
      <3>3. \E pc \in {"rows", "rollback"} : task' = [task EXCEPT ![r] = [task[r] EXCEPT !.pc = pc]]
        BY <2>8 DEF Index, Goto
      <3>4. task' \in [Restorers -> Tasks] /\ \A u \in Restorers : InRange(task'[u])
        BY <1>2, <3>2, <3>3
      <3>. DEFINE tables == [work EXCEPT !.found = work.found \cup task[r].current]
      <3>5. tables \in Tables
        BY <1>0, <3>1 DEF Tables
      <3>6. Write(tables) \/ UNCHANGED <<disk, work, saves>>
        BY <2>8 DEF Index
      <3>. HIDE DEF tables
      <3>. QED
        BY <1>0, <1>1, <2>8, <3>4, <3>5, <3>6, WriteTypes DEF Index
    <2>9. CASE NextSegment(r)
      <3>. DEFINE j == [task[r] EXCEPT !.pc = "segment", !.segment = task[r].segment + 1]
      <3>0. task[r].segment \in 1..Len(Backup)
        BY <2>0, <2>9 DEF NextSegment, At, InRange
      <3>1. task[r].segment + 1 \in 0..(Len(Backup) + 1) /\ task[r].segment + 1 # 0
        BY <3>0, BackupFacts
      <3>2. j \in Tasks
        BY <2>0, <3>1 DEF Tasks, Places
      <3>3. j.pc = "segment" /\ j.segment = task[r].segment + 1
        BY <2>0 DEF Tasks
      <3>4. InRange(j)
        BY <3>1, <3>3 DEF InRange
      <3>5. task' = [task EXCEPT ![r] = j]
        BY <2>9 DEF NextSegment
      <3>. HIDE DEF j
      <3>. QED
        BY <1>0, <1>1, <1>2, <2>9, <3>2, <3>4, <3>5 DEF NextSegment
    <2>10. saves # <<>> => Last(saves) \in Tables /\ Front(saves) \in Seq(Tables)
      BY <1>0 DEF Last, Front
    <2>11. CASE Rollback(r)
      <3>1. work' \in Tables /\ saves' \in Seq(Tables) /\ disk' \in Tables
        BY <1>0, <2>10, <2>11 DEF Rollback
      <3>2. ignored' \in BOOLEAN
        BY <1>0, <2>11 DEF Rollback
      <3>. QED
        BY <1>0, <1>1, <2>4, <2>11, <3>1, <3>2 DEF Rollback
    <2>12. CASE Release(r)
      <3>1. saves' \in Seq(Tables) /\ disk' \in Tables
        BY <1>0, <2>10, <2>12 DEF Release
      <3>2. ignored' \in BOOLEAN
        BY <1>0, <2>12 DEF Release
      <3>. QED
        BY <1>0, <1>1, <2>4, <2>12, <3>1, <3>2 DEF Release
    <2>14. CASE RowFails(r)
      BY <1>0, <1>1, <2>4, <2>14 DEF RowFails
    <2>. QED
      BY <1>3, <2>1, <2>2, <2>3, <2>5, <2>6, <2>7, <2>8, <2>9, <2>11, <2>12, <2>13, <2>14 DEF Step
  <1>4. ASSUME NEW m \in Messages, Ingest(m) PROVE TypeInv'
    <2>. DEFINE tables == [skeletons |-> work.skeletons \cup {m}, bodies |-> work.bodies \cup {m},
                           found |-> work.found \cup {m}]
    <2>1. tables \in Tables
      BY <1>0 DEF Tables
    <2>2. Write(tables) \/ UNCHANGED <<disk, work, saves>>
      BY <1>4 DEF Ingest
    <2>. HIDE DEF tables
    <2>. QED
      BY <1>0, <1>1, <1>4, <2>1, <2>2, WriteTypes DEF Ingest
  <1>5. CASE Crash
    <2>1. task' \in [Restorers -> Tasks] /\ \A u \in Restorers : InRange(task'[u])
      BY <1>5, IdleIsTask DEF Crash, InRange, Idle
    <2>2. /\ disk' \in Tables /\ work' \in Tables /\ before' \in Tables /\ saves' \in Seq(Tables)
          /\ acked' \subseteq Messages
      BY <1>0, <1>5 DEF Crash
    <2>3. ignored' \in BOOLEAN
      BY <1>5 DEF Crash
    <2>. QED
      BY <1>1, <2>1, <2>2, <2>3
  <1>6. CASE UNCHANGED vars
    BY <1>0, <1>1, <1>6 DEF vars
  <1>7. CASE Undone
    BY <1>0, <1>1, <1>7 DEF Undone
  <1>. QED
    BY <1>3, <1>4, <1>5, <1>6, <1>7 DEF Next

LEMMA TypeInvInit == Init => TypeInv
  <1>. SUFFICES ASSUME Init PROVE TypeInv
    OBVIOUS
  <1>1. disk \in Tables
    BY DEF Init, Tables
  <1>2. /\ work \in Tables /\ before \in Tables /\ saves \in Seq(Tables) /\ acked \subseteq Messages
    BY <1>1 DEF Init
  <1>3. ignored \in BOOLEAN
    BY DEF Init
  <1>4. task \in [Restorers -> Tasks] /\ \A r \in Restorers : InRange(task[r])
    BY IdleIsTask DEF Init, InRange, Idle
  <1>. QED
    BY <1>1, <1>2, <1>3, <1>4 DEF TypeInv, TypeOK, Tasks

(* The type invariant that the runs check, for any number of restorers.      *)
THEOREM TypeCorrect == Spec => []TypeOK
  <1>1. TypeInv /\ [Next]_vars => TypeInv'
    BY TypesStay
  <1>2. TypeInv => TypeOK
    BY DEF TypeInv
  <1>. QED
    BY <1>1, <1>2, TypeInvInit, PTL DEF Spec

--------------------------------------------------------------------------------
(* One restore at a time.                                                    *)

RunsAlone == \E r : Restorers = {r}

HasSegments(tables, n) ==
    \A i \in 1..Len(Backup) : i < n =>
        /\ Backup[i].skeletons \subseteq tables.skeletons
        /\ Backup[i].bodies \subseteq tables.bodies

Working == {"segment", "rows", "index", "rollback"}

(* While a savepoint is open, the disk is what the first one rolls back to,  *)
(* and includes what it was when the tables were cleared last.               *)
Behind ==
    /\ saves = <<>> => work = disk
    /\ saves # <<>> => saves[1] = disk /\ Includes(disk, before)

(* The restored rows are in the write connection, as long as the savepoint   *)
(* is open; more than its own are open only if an error was ignored.         *)
Progress(j) ==
    /\ saves # <<>> => ignored \/ (Len(saves) = 1 /\ j.pc \in Working)
    /\ j.pc \in Working => Includes(disk, before)
    /\ j.pc \in {"segment", "rows", "index"} => saves = <<>> \/ HasSegments(work, j.segment)
    /\ j.pc \in {"rows", "index"} => \/ saves = <<>>
          \/ /\ Backup[j.segment].skeletons \subseteq work.skeletons \cup j.skeletons
             /\ Backup[j.segment].bodies \subseteq work.bodies \cup j.bodies
    /\ j.pc = "done" => HasAll(disk) \/ ignored
    /\ j.pc = "failed" => Includes(disk, before) /\ (ignored \/ Includes(work, before))

AloneInv ==
    /\ \A r \in Restorers : Progress(task[r])
    /\ Behind
    /\ NeverHalfRestored

LEMMA HasAllIsAllSegments ==
  ASSUME NEW tables, HasSegments(tables, Len(Backup) + 1)
  PROVE  HasAll(tables)
  <1>1. ASSUME NEW i \in DOMAIN Backup
        PROVE  /\ Backup[i].skeletons \subseteq tables.skeletons
               /\ Backup[i].bodies \subseteq tables.bodies
    BY BackupFacts DEF HasSegments
  <1>. QED
    BY <1>1 DEF HasAll, BackedUpSkeletons, BackedUpBodies

LEMMA HasAllOfNothing ==
  ASSUME Backup = <<>>, NEW tables
  PROVE  HasAll(tables)
  BY DEF HasAll, BackedUpSkeletons, BackedUpBodies

LEMMA IncludesIsFieldwise ==
  ASSUME NEW a \in Tables, NEW b \in Tables
  PROVE  Includes(a, b) <=> /\ b.skeletons \subseteq a.skeletons /\ b.bodies \subseteq a.bodies
                            /\ b.found \subseteq a.found
  <1>1. DOMAIN a = {"skeletons", "bodies", "found"}
    BY DEF Tables
  <1>. QED
    BY <1>1 DEF Includes

LEMMA AloneInit == Init => AloneInv
  <1>. SUFFICES ASSUME Init PROVE AloneInv
    OBVIOUS
  <1>1. \A r \in Restorers : Progress(task[r])
    BY DEF Init, Progress, Idle, Working
  <1>2. NeverHalfRestored /\ Behind
    BY DEF Init, NeverHalfRestored, Includes, Behind
  <1>. QED
    BY <1>1, <1>2 DEF AloneInv

(* A write of somebody else, inside the savepoint or outside, or of the      *)
(* restore itself.                                                           *)
LEMMA WriteKeepsBehind ==
  ASSUME TypeInv, TypeInv', AloneInv, UNCHANGED <<saves, before, ignored>>,
         Includes(work', work), disk' = IF saves = <<>> THEN work' ELSE disk
  PROVE  /\ Behind' /\ NeverHalfRestored'
         /\ Includes(disk, before) => Includes(disk', before)
         /\ HasAll(disk) => HasAll(disk')
         /\ Includes(work, before) => Includes(work', before)
         /\ \A n : HasSegments(work, n) => HasSegments(work', n)
         /\ work.skeletons \subseteq work'.skeletons /\ work.bodies \subseteq work'.bodies
  <1>1. /\ work \in Tables /\ work' \in Tables /\ before \in Tables /\ disk \in Tables
        /\ disk' \in Tables
    BY DEF TypeInv, TypeOK
  <1>2. /\ work.skeletons \subseteq work'.skeletons /\ work.bodies \subseteq work'.bodies
        /\ work.found \subseteq work'.found
    BY <1>1, IncludesIsFieldwise
  <1>3. Includes(work, before) => Includes(work', before)
    BY <1>1, <1>2, IncludesIsFieldwise
  <1>4. \A n : HasSegments(work, n) => HasSegments(work', n)
    BY <1>2 DEF HasSegments
  <1>5. HasAll(work) => HasAll(work')
    BY <1>2 DEF HasAll
  <1>6. Behind
    BY DEF AloneInv
  <1>7. /\ Includes(disk, before) => Includes(disk', before)
        /\ HasAll(disk) => HasAll(disk')
    BY <1>3, <1>5, <1>6 DEF Behind
  <1>8. Behind'
    BY <1>6, <1>7 DEF Behind
  <1>9. NeverHalfRestored'
    BY <1>7 DEF AloneInv, NeverHalfRestored
  <1>. QED
    BY <1>2, <1>3, <1>4, <1>7, <1>8, <1>9

LEMMA AloneStep ==
  ASSUME RunsAlone, TypeInv, TypeInv', AloneInv, [Next]_vars
  PROVE  AloneInv'
  <1>0. PICK r : Restorers = {r}
    BY DEF RunsAlone
  <1>1. /\ Progress(task[r]) /\ r \in Restorers /\ task[r] \in Tasks /\ InRange(task[r])
        /\ task \in [Restorers -> Tasks] /\ saves \in Seq(Tables)
        /\ work \in Tables /\ before \in Tables /\ disk \in Tables
        /\ work' \in Tables /\ before' \in Tables /\ disk' \in Tables
        /\ Behind /\ NeverHalfRestored
    BY <1>0 DEF AloneInv, TypeInv, TypeOK, Tasks
  <1>2. ASSUME Progress(task[r])', Behind', NeverHalfRestored' PROVE AloneInv'
    BY <1>0, <1>2 DEF AloneInv
  <1>3. Includes(disk, disk) /\ Includes(work, work)
    BY DEF Includes
  <1>4. ASSUME UNCHANGED <<disk, before>> PROVE NeverHalfRestored'
    BY <1>1, <1>4 DEF NeverHalfRestored
  <1>20. ASSUME UNCHANGED <<disk, work, saves, before>> PROVE NeverHalfRestored' /\ Behind'
    BY <1>1, <1>20 DEF NeverHalfRestored, Behind
  <1>21. /\ saves # <<>> /\ Len(saves) = 1 => Front(saves) = <<>> /\ Last(saves) = saves[1]
         /\ saves # <<>> /\ Len(saves) # 1 => Front(saves) # <<>> /\ Front(saves)[1] = saves[1]
         /\ Append(saves, work) # <<>>
         /\ saves = <<>> => Append(saves, work)[1] = work /\ Len(Append(saves, work)) = 1
         /\ saves # <<>> => Append(saves, work)[1] = saves[1]
    <2>1. saves \in Seq(Tables) /\ Len(saves) \in Nat
      BY <1>1
    <2>2. saves # <<>> /\ Len(saves) = 1 => Front(saves) = <<>> /\ Last(saves) = saves[1]
      BY <2>1 DEF Front, Last
    <2>3. ASSUME saves # <<>>, Len(saves) # 1 PROVE Front(saves) # <<>> /\ Front(saves)[1] = saves[1]
      <3>0. Len(saves) # 0
        BY <2>1, <2>3
      <3>1. Len(saves) - 1 \in 1..Len(saves)
        <4>1. \A n \in Nat : n # 0 /\ n # 1 => n - 1 \in 1..n
          OBVIOUS
        <4>. QED
          BY <2>1, <2>3, <3>0, <4>1
      <3>2. Len(Front(saves)) = Len(saves) - 1 /\ Front(saves)[1] = saves[1]
        <4>1. Front(saves) = SubSeq(saves, 1, Len(saves) - 1)
          BY DEF Front
        <4>2. DEFINE n == Len(saves) - 1
        <4>3. n \in Nat /\ 1 <= n /\ n <= Len(saves)
          BY <2>1, <3>1
        <4>4. Len(SubSeq(saves, 1, n)) = n /\ SubSeq(saves, 1, n)[1] = saves[1]
          BY <1>1, <4>3
        <4>. QED
          BY <4>1, <4>4
      <3>. QED
        BY <2>1, <3>1, <3>2
    <2>4. Append(saves, work) # <<>>
      BY <1>1
    <2>5. saves = <<>> => Append(saves, work)[1] = work /\ Len(Append(saves, work)) = 1
      BY <1>1
    <2>6. saves # <<>> => Append(saves, work)[1] = saves[1]
      BY <1>1
    <2>. QED
      BY <2>2, <2>3, <2>4, <2>5, <2>6
  <1>5. CASE UNCHANGED <<disk, work, saves, before, ignored, task>>
    <2>1. Progress(task[r])'
      BY <1>1, <1>5 DEF Progress, HasSegments, HasAll, Includes
    <2>. QED
      BY <1>2, <1>5, <1>20, <2>1
  <1>6. CASE Crash
    <2>1. task'[r] = Idle /\ saves' = <<>> /\ work' = disk' /\ UNCHANGED <<disk, before>>
      BY <1>0, <1>6 DEF Crash
    <2>. QED
      BY <1>2, <1>4, <2>1 DEF Progress, Idle, Working, Behind
  <1>22. CASE Undone
    <2>1. /\ saves # <<>> /\ saves' = <<>> /\ work' = disk'
          /\ UNCHANGED <<disk, before, ignored, task>>
      BY <1>22 DEF Undone
    <2>2. Includes(disk, before)
      BY <1>1, <2>1 DEF Behind
    <2>3. Progress(task[r])'
      BY <1>1, <2>1, <2>2 DEF Progress, HasAll, Includes
    <2>. QED
      BY <1>2, <1>4, <2>1, <2>3 DEF Behind
  <1>7. ASSUME NEW m \in Messages, Ingest(m) PROVE AloneInv'
    <2>. DEFINE tables == [skeletons |-> work.skeletons \cup {m}, bodies |-> work.bodies \cup {m},
                           found |-> work.found \cup {m}]
    <2>1. CASE UNCHANGED <<disk, work, saves>>
      BY <1>5, <1>7, <2>1 DEF Ingest
    <2>2. CASE Write(tables)
      <3>1. tables \in Tables /\ work' = tables
        BY <1>1, <2>2 DEF Tables, Write
      <3>2. Includes(tables, work)
        BY <1>1, <3>1, IncludesIsFieldwise
      <3>3. /\ UNCHANGED <<saves, before, ignored, task>> /\ Includes(work', work)
            /\ disk' = IF saves = <<>> THEN work' ELSE disk
        BY <1>7, <2>2, <3>1, <3>2 DEF Ingest, Write
      <3>4. /\ Behind' /\ NeverHalfRestored'
            /\ Includes(disk, before) => Includes(disk', before)
            /\ HasAll(disk) => HasAll(disk')
            /\ Includes(work, before) => Includes(work', before)
            /\ \A n : HasSegments(work, n) => HasSegments(work', n)
            /\ work.skeletons \subseteq work'.skeletons /\ work.bodies \subseteq work'.bodies
        BY <3>3, WriteKeepsBehind
      <3>5. HasSegments(work, task[r].segment) => HasSegments(work', task[r].segment)
        BY <3>4
      <3>6. Progress(task[r])'
        BY <1>1, <3>3, <3>4, <3>5 DEF Progress
      <3>. QED
        BY <1>2, <3>4, <3>6
    <2>. QED
      BY <1>7, <2>1, <2>2 DEF Ingest
  <1>8. CASE Fetch(r)
    <2>1. task'[r].pc = IF Backup = <<>> THEN "done" ELSE "open"
      BY <1>1, <1>8 DEF Fetch, Idle
    <2>2. saves # <<>> => ignored
      BY <1>1, <1>8 DEF Fetch, Progress, Working
    <2>3. Backup = <<>> => HasAll(disk)
      BY HasAllOfNothing
    <2>5. UNCHANGED <<disk, work, saves, before, ignored>>
      BY <1>8 DEF Fetch
    <2>4. Progress(task[r])'
      BY <2>1, <2>2, <2>3, <2>5 DEF Progress, Working
    <2>. QED
      BY <1>2, <1>20, <2>4, <2>5
  <1>9. CASE SaveAndClear(r)
    <2>1. /\ saves' = Append(saves, work) /\ UNCHANGED disk /\ before' = disk
          /\ ignored' = (saves # <<>>)
      BY <1>9 DEF SaveAndClear
    <2>2. saves' # <<>> /\ saves'[1] = disk' /\ (ignored' \/ Len(saves') = 1)
      BY <1>1, <1>21, <2>1 DEF Behind
    <2>3. task'[r].pc = "segment" /\ task'[r].segment = 1
      BY <1>1, <1>9 DEF SaveAndClear, Tasks
    <2>4. HasSegments(work', 1)
      BY DEF HasSegments
    <2>6. Includes(disk', before')
      BY <1>3, <2>1
    <2>5. Progress(task[r])'
      BY <2>2, <2>3, <2>4, <2>6 DEF Progress, Working
    <2>. QED
      BY <1>2, <2>2, <2>5, <2>6 DEF Behind, NeverHalfRestored
  <1>23. CASE ClearFails(r)
    <2>1. /\ UNCHANGED disk /\ before' = disk /\ task[r].pc = "open" /\ Goto(r, "failed")
      BY <1>23 DEF ClearFails, At
    <2>2. Includes(disk', before') /\ task'[r].pc = "failed"
      BY <1>1, <1>3, <2>1 DEF Goto, Tasks
    <2>3. CASE ignored' = (saves # <<>>) /\ UNCHANGED <<work, saves>>
      <3>1. saves = <<>> => work' = disk
        BY <1>1, <2>3 DEF Behind
      <3>2. ignored' \/ Includes(work', before')
        BY <1>3, <2>1, <2>3, <3>1
      <3>3. Progress(task[r])'
        BY <2>2, <2>3, <3>2 DEF Progress, Working
      <3>4. Behind'
        BY <1>1, <2>1, <2>2, <2>3 DEF Behind
      <3>. QED
        BY <1>2, <2>2, <3>3, <3>4 DEF NeverHalfRestored
    <2>4. CASE ignored' = TRUE /\ saves' = Append(saves, work)
      <3>1. Progress(task[r])'
        BY <2>2, <2>4 DEF Progress, Working
      <3>2. saves' # <<>> /\ saves'[1] = disk'
        BY <1>1, <1>21, <2>1, <2>4 DEF Behind
      <3>3. Behind'
        BY <2>2, <3>2 DEF Behind
      <3>. QED
        BY <1>2, <2>2, <3>1, <3>3 DEF NeverHalfRestored
    <2>. QED
      BY <1>23, <2>3, <2>4 DEF ClearFails
  <1>10. CASE OpenSegment(r)
    <2>1. task[r].pc = "segment" /\ UNCHANGED <<disk, work, saves, before, ignored>>
      BY <1>10 DEF OpenSegment, At
    <2>2. /\ task'[r].pc = "rows" /\ task'[r].segment = task[r].segment
          /\ task'[r].skeletons = Backup[task[r].segment].skeletons
          /\ task'[r].bodies = Backup[task[r].segment].bodies
      BY <1>1, <1>10 DEF OpenSegment, Tasks
    <2>3. Progress(task[r])'
      BY <1>1, <2>1, <2>2 DEF Progress, HasSegments, Working
    <2>. QED
      BY <1>2, <1>20, <2>1, <2>3
  <1>11. CASE SegmentFails(r) \/ RowFails(r)
    <2>1. /\ task[r].pc \in {"segment", "rows", "index"}
          /\ UNCHANGED <<disk, work, saves, before, ignored>>
      BY <1>11 DEF SegmentFails, RowFails, At
    <2>2. task'[r].pc = "rollback"
      BY <1>1, <1>11 DEF SegmentFails, RowFails, Goto, Tasks
    <2>3. Progress(task[r])'
      BY <1>1, <2>1, <2>2 DEF Progress, Working
    <2>. QED
      BY <1>2, <1>20, <2>1, <2>3
  <1>12. ASSUME NEW m \in Messages, RestoreSkeleton(r, m) PROVE AloneInv'
    <2>. DEFINE tables == [work EXCEPT !.skeletons = work.skeletons \cup {m}]
    <2>1. task[r].pc = "rows"
      BY <1>12 DEF RestoreSkeleton, At
    <2>2. /\ tables \in Tables /\ Includes(tables, work)
          /\ tables.skeletons = work.skeletons \cup {m} /\ tables.bodies = work.bodies
      BY <1>1 DEF Tables, Includes
    <2>3. Write(tables) /\ UNCHANGED <<before, ignored>>
      BY <1>12 DEF RestoreSkeleton
    <2>4. /\ UNCHANGED <<saves, before, ignored>> /\ Includes(work', work)
          /\ disk' = IF saves = <<>> THEN work' ELSE disk
          /\ work'.skeletons = work.skeletons \cup {m} /\ work'.bodies = work.bodies
      BY <2>2, <2>3 DEF Write
    <2>5. /\ task'[r].pc = "rows" /\ task'[r].segment = task[r].segment
          /\ task'[r].skeletons = task[r].skeletons \ {m} /\ task'[r].bodies = task[r].bodies
      BY <1>1, <1>12, <2>1 DEF RestoreSkeleton, Tasks
    <2>6. /\ Behind' /\ NeverHalfRestored'
          /\ Includes(disk, before) => Includes(disk', before)
          /\ HasSegments(work, task[r].segment) => HasSegments(work', task[r].segment)
      BY <2>4, WriteKeepsBehind
    <2>7. Progress(task[r])'
      BY <1>1, <2>1, <2>4, <2>5, <2>6 DEF Progress, Working
    <2>. QED
      BY <1>2, <2>6, <2>7
  <1>13. ASSUME NEW m \in Messages, RestoreBody(r, m) PROVE AloneInv'
    <2>. DEFINE tables == [work EXCEPT !.bodies = work.bodies \cup {m}]
    <2>1. task[r].pc = "rows"
      BY <1>13 DEF RestoreBody, At
    <2>2. /\ tables \in Tables /\ Includes(tables, work)
          /\ tables.bodies = work.bodies \cup {m} /\ tables.skeletons = work.skeletons
      BY <1>1 DEF Tables, Includes
    <2>3. Write(tables) /\ UNCHANGED <<before, ignored>>
      BY <1>13 DEF RestoreBody
    <2>4. /\ UNCHANGED <<saves, before, ignored>> /\ Includes(work', work)
          /\ disk' = IF saves = <<>> THEN work' ELSE disk
          /\ work'.bodies = work.bodies \cup {m} /\ work'.skeletons = work.skeletons
      BY <2>2, <2>3 DEF Write
    <2>5. /\ task'[r].pc = "index" /\ task'[r].segment = task[r].segment
          /\ task'[r].skeletons = task[r].skeletons /\ task'[r].bodies = task[r].bodies \ {m}
      BY <1>1, <1>13, <2>1 DEF RestoreBody, Tasks
    <2>6. /\ Behind' /\ NeverHalfRestored'
          /\ Includes(disk, before) => Includes(disk', before)
          /\ HasSegments(work, task[r].segment) => HasSegments(work', task[r].segment)
      BY <2>4, WriteKeepsBehind
    <2>7. Progress(task[r])'
      BY <1>1, <2>1, <2>4, <2>5, <2>6 DEF Progress, Working
    <2>. QED
      BY <1>2, <2>6, <2>7
  <1>14. CASE Index(r)
    <2>. DEFINE tables == [work EXCEPT !.found = work.found \cup task[r].current]
    <2>1. task[r].pc = "index"
      BY <1>14 DEF Index, At
    <2>2. Includes(tables, work) /\ tables.skeletons = work.skeletons /\ tables.bodies = work.bodies
      BY <1>1 DEF Tables, Includes
    <2>3. Write(tables) \/ UNCHANGED <<disk, work, saves>>
      BY <1>14 DEF Index
    <2>4. /\ UNCHANGED <<saves, before, ignored>> /\ Includes(work', work)
          /\ disk' = IF saves = <<>> THEN work' ELSE disk
          /\ work'.skeletons = work.skeletons /\ work'.bodies = work.bodies
      BY <1>1, <1>3, <1>14, <2>2, <2>3 DEF Index, Write, Behind
    <2>5. /\ task'[r].pc \in {"rows", "rollback"} /\ task'[r].segment = task[r].segment
          /\ task'[r].skeletons = task[r].skeletons /\ task'[r].bodies = task[r].bodies
      BY <1>1, <1>14 DEF Index, Goto, Tasks
    <2>6. /\ Behind' /\ NeverHalfRestored'
          /\ Includes(disk, before) => Includes(disk', before)
          /\ HasSegments(work, task[r].segment) => HasSegments(work', task[r].segment)
      BY <2>4, WriteKeepsBehind
    <2>7. Progress(task[r])'
      BY <1>1, <2>1, <2>4, <2>5, <2>6 DEF Progress, Working
    <2>. QED
      BY <1>2, <2>6, <2>7
  <1>15. CASE NextSegment(r)
    <2>1. /\ task[r].pc = "rows" /\ task[r].skeletons = {} /\ task[r].bodies = {}
          /\ UNCHANGED <<disk, work, saves, before, ignored>>
      BY <1>15 DEF NextSegment, At
    <2>2. task'[r].pc = "segment" /\ task'[r].segment = task[r].segment + 1
      BY <1>1, <1>15 DEF NextSegment, Tasks
    <2>3. saves = <<>> \/ HasSegments(work, task[r].segment + 1)
      <3>. SUFFICES ASSUME saves # <<>> PROVE HasSegments(work, task[r].segment + 1)
        OBVIOUS
      <3>1. HasSegments(work, task[r].segment) /\ task[r].segment \in 1..Len(Backup)
            /\ Backup[task[r].segment].skeletons \subseteq work.skeletons
            /\ Backup[task[r].segment].bodies \subseteq work.bodies
        BY <1>1, <2>1 DEF Progress, InRange
      <3>2. \A i \in 1..Len(Backup) :
               i < task[r].segment + 1 => i < task[r].segment \/ i = task[r].segment
        BY <3>1, BackupFacts
      <3>. QED
        BY <3>1, <3>2 DEF HasSegments
    <2>4. Progress(task[r])'
      BY <1>1, <2>1, <2>2, <2>3 DEF Progress, Working
    <2>. QED
      BY <1>2, <1>20, <2>1, <2>4
  <1>16. CASE Rollback(r)
    <2>1. task[r].pc = "rollback" /\ Includes(disk, before) /\ before' = before
      BY <1>1, <1>16 DEF Rollback, At, Progress, Working
    <2>2. task'[r].pc = "failed"
      BY <1>1, <1>16 DEF Rollback, Goto, Tasks
    <2>3. CASE /\ saves # <<>> /\ work' = Last(saves) /\ saves' = Front(saves)
               /\ disk' = IF Len(saves) = 1 THEN Last(saves) ELSE disk
               /\ UNCHANGED ignored
      <3>1. disk' = disk
        BY <1>1, <1>21, <2>3 DEF Behind
      <3>2. /\ Len(saves) = 1 => saves' = <<>> /\ work' = disk
            /\ Len(saves) # 1 => saves' # <<>> /\ saves'[1] = disk /\ ignored
        BY <1>1, <1>21, <2>3 DEF Behind, Progress
      <3>3. Progress(task[r])'
        BY <2>1, <2>2, <2>3, <3>1, <3>2 DEF Progress, Working
      <3>4. Behind'
        BY <2>1, <3>1, <3>2 DEF Behind
      <3>. QED
        BY <1>2, <1>4, <2>1, <3>1, <3>3, <3>4
    <2>4. CASE /\ ignored' = TRUE /\ UNCHANGED <<disk, saves>>
               /\ work' \in {work} \cup (IF saves = <<>> THEN {} ELSE {Last(saves)})
      <3>1. Progress(task[r])'
        BY <2>1, <2>2, <2>4 DEF Progress, Working
      <3>2. Behind'
        BY <1>1, <2>1, <2>4 DEF Behind
      <3>. QED
        BY <1>2, <1>4, <2>1, <2>4, <3>1, <3>2
    <2>. QED
      BY <1>16, <2>3, <2>4 DEF Rollback
  <1>17. CASE Release(r)
    <2>1. /\ task[r].pc = "segment" /\ before' = before /\ work' = work
          /\ saves = <<>> \/ HasSegments(work, task[r].segment)
      BY <1>1, <1>17 DEF Release, At, Progress
    <2>2. task[r].segment = Len(Backup) + 1
      BY <1>1, <1>17, BackupFacts DEF Release, Tasks
    <2>3. saves = <<>> \/ HasAll(work)
      BY <2>1, <2>2, HasAllIsAllSegments
    <2>4. task'[r].pc = "done"
      BY <1>1, <1>17 DEF Release, Goto, Tasks
    <2>5. CASE /\ saves # <<>> /\ saves' = Front(saves)
               /\ disk' = IF Len(saves) = 1 THEN work ELSE disk
               /\ UNCHANGED ignored
      <3>1. HasAll(work)
        BY <2>3, <2>5
      <3>2. CASE Len(saves) = 1
        <4>1. saves' = <<>> /\ disk' = work
          BY <1>21, <2>5, <3>2
        <4>2. Progress(task[r])'
          BY <2>4, <3>1, <4>1 DEF Progress, Working
        <4>. QED
          BY <1>2, <2>1, <3>1, <4>1, <4>2 DEF Behind, NeverHalfRestored
      <3>3. CASE Len(saves) # 1
        <4>1. saves' # <<>> /\ saves'[1] = disk' /\ disk' = disk /\ ignored'
          BY <1>1, <1>21, <2>5, <3>3 DEF Behind, Progress
        <4>2. Progress(task[r])'
          BY <2>4, <4>1 DEF Progress, Working
        <4>3. Behind'
          BY <1>1, <2>1, <2>5, <4>1 DEF Behind
        <4>. QED
          BY <1>2, <1>4, <2>1, <4>1, <4>2, <4>3
      <3>. QED
        BY <3>2, <3>3
    <2>6. CASE ignored' = TRUE /\ UNCHANGED <<disk, saves>>
      <3>1. Progress(task[r])'
        BY <2>4, <2>6 DEF Progress, Working
      <3>. QED
        BY <1>2, <1>20, <2>1, <2>6, <3>1
    <2>. QED
      BY <1>17, <2>5, <2>6 DEF Release
  <1>. QED
    BY <1>0, <1>5, <1>6, <1>7, <1>8, <1>9, <1>10, <1>11, <1>12, <1>13, <1>14, <1>15, <1>16, <1>17,
       <1>22, <1>23
    DEF Next, Step, vars

(* A restore that runs alone leaves on disk all of the old data or all of    *)
(* the restored data, whatever fails or crashes and whoever writes           *)
(* meanwhile, and it says which unless the error of the statement that ends  *)
(* its savepoint was ignored (RestorePipeline::execute).                     *)
THEOREM RestoreAloneIsAtomic == ASSUME RunsAlone PROVE Spec => []RestoreIsAtomic
  <1>1. TypeInv /\ [Next]_vars => TypeInv'
    BY TypesStay
  <1>2. TypeInv /\ TypeInv' /\ AloneInv /\ [Next]_vars => AloneInv'
    BY AloneStep
  <1>3. AloneInv => RestoreIsAtomic
    BY DEF AloneInv, Progress, At, RestoreIsAtomic, FailedKeepsOldData, DoneIsCommitted
  <1>. QED
    BY <1>1, <1>2, <1>3, TypeInvInit, AloneInit, PTL DEF Spec
================================================================================
