--------------------------- MODULE BackupChainProofs ---------------------------
(***************************************************************************)
(* Theorems about BackupChain, for any number of workers and messages, any *)
(* failures, lost replies and restarts.                                    *)
(***************************************************************************)
EXTENDS BackupChain, FiniteSetTheorems, TLAPS

States == {"live", "deleted"}
Named == [id : Nat, generation : Nat, previous : Nat \cup {Genesis}]
Jobs == [pc : Places, skeletons : SUBSET (Messages \X States),
         bodies : SUBSET (Messages \X Nat), manifest : Named \cup {Genesis}]

TypeInv ==
    /\ skeleton \in [Messages -> States \cup {"absent"}]
    /\ version \in [Messages -> Nat]
    /\ backedUp \subseteq Messages
    /\ generation \in Nat /\ previous \in Nat \cup {Genesis} /\ prepared \in Nat
    /\ manifests \in Seq(Named)
    /\ job \in [Workers -> Jobs]

Seen(m) == skeleton[m] # "absent"

(* The bodies have a text that the message had, unless it is deleted now.    *)
Recorded(m, bodies) == skeleton[m] = "live" => \E v \in 1..version[m] : <<m, v>> \in bodies

(* What a backup knows, wherever it is: the skeletons were read first and    *)
(* the bodies next, the segment was uploaded first and the manifest next.    *)
Sound(j) ==
    /\ \A e \in j.skeletons : Seen(e[1])
    /\ j.pc \in {"prepare", "segment", "manifest", "finalize", "mark"} =>
          \A e \in j.skeletons : Recorded(e[1], j.bodies)
    /\ j.pc \in {"segment", "manifest", "finalize", "mark"} => j.manifest \in Named
    /\ j.pc \in {"manifest", "finalize", "mark"} =>
          \E s \in segments : /\ s.id = j.manifest.id
                              /\ s.skeletons = j.skeletons /\ s.bodies = j.bodies
    /\ j.pc \in {"finalize", "mark"} =>
          \E i \in DOMAIN manifests : manifests[i].id = j.manifest.id

JobsAreSound == \A w \in Workers : Sound(job[w])

LiveHasText == \A m \in Messages : skeleton[m] = "live" => version[m] > 0

InSegment(m, s) == /\ \E state \in States : <<m, state>> \in s.skeletons
                   /\ Recorded(m, s.bodies)

Recoverable(m) ==
    \E i \in DOMAIN manifests : \E s \in segments :
        s.id = manifests[i].id /\ InSegment(m, s)

MarkedInv == \A m \in backedUp : Seen(m) /\ Recoverable(m)

IInv == TypeInv /\ LiveHasText /\ JobsAreSound /\ ManifestsHaveSegments /\ MarkedInv

(* No step takes anything away from the gateway, a message that was seen     *)
(* stays, and a text it had stays one that it had.                           *)
GatewayGrows ==
    /\ segments \subseteq segments'
    /\ \A i \in DOMAIN manifests : i \in DOMAIN manifests' /\ manifests'[i] = manifests[i]
StoreStays ==
    \A m \in Messages : Seen(m) =>
        Seen(m)' /\ \A bodies : Recorded(m, bodies) =>
            (skeleton'[m] = "live" => \E v \in 1..version'[m] : <<m, v>> \in bodies)

--------------------------------------------------------------------------------

LEMMA GatewayOnlyGrows ==
  ASSUME TypeInv, [Next]_vars
  PROVE  GatewayGrows
  <1>1. ASSUME NEW w \in Workers, UploadManifest(w) PROVE GatewayGrows
    <2>1. segments' = segments /\ manifests' = Append(manifests, job[w].manifest)
      BY <1>1 DEF UploadManifest
    <2>2. DOMAIN manifests = 1..Len(manifests) /\ Len(manifests) \in Nat
      BY DEF TypeInv
    <2>3. \A i \in 1..Len(manifests) : i \in DOMAIN manifests' /\ manifests'[i] = manifests[i]
      BY <2>1, <2>2 DEF TypeInv
    <2>. QED
      BY <2>1, <2>2, <2>3 DEF GatewayGrows
  <1>2. ASSUME UNCHANGED manifests, segments \subseteq segments' PROVE GatewayGrows
    BY <1>2 DEF GatewayGrows
  <1>. QED
    BY <1>1, <1>2 DEF Next, Backup, Receive, Edit, DeleteForEveryone, StoreChanges, ReadSkeletons,
       ReadBodies, Prepare, UploadSegment, Finalize, Mark, Fail, Restart, gateway, vars

LEMMA StoreOnlyStays ==
  ASSUME TypeInv, [Next]_vars
  PROVE  StoreStays
  <1>1. ASSUME NEW m \in Messages, Receive(m) \/ Edit(m) \/ DeleteForEveryone(m)
        PROVE  StoreStays
    <2>1. ASSUME NEW k \in Messages, k # m
          PROVE  skeleton'[k] = skeleton[k] /\ version'[k] = version[k]
      BY <1>1, <2>1 DEF Receive, Edit, DeleteForEveryone, TypeInv
    <2>2. Seen(m) => skeleton'[m] # "absent"
                     /\ (skeleton'[m] = "live" => skeleton[m] = "live" /\ version'[m] >= version[m])
      BY <1>1 DEF Receive, Edit, DeleteForEveryone, TypeInv, Seen
    <2>3. version[m] \in Nat /\ version'[m] \in Nat
      BY <1>1 DEF Receive, Edit, DeleteForEveryone, TypeInv
    <2>4. version'[m] >= version[m] => 1..version[m] \subseteq 1..version'[m]
      BY <2>3
    <2>5. ASSUME Seen(m), NEW bodies, Recorded(m, bodies)
          PROVE  skeleton'[m] = "live" => \E v \in 1..version'[m] : <<m, v>> \in bodies
      BY <2>2, <2>4, <2>5 DEF Recorded
    <2>. QED
      BY <2>1, <2>2, <2>5 DEF StoreStays, Seen, Recorded
  <1>2. ASSUME UNCHANGED store PROVE StoreStays
    BY <1>2 DEF store, StoreStays, Seen, Recorded
  <1>. QED
    BY <1>1, <1>2 DEF Next, Backup, ReadSkeletons, ReadBodies, Prepare, UploadSegment,
       UploadManifest, Finalize, Mark, Fail, Restart, vars, store

LEMMA InvInit == Init => IInv
  <1>. SUFFICES ASSUME Init PROVE IInv
    OBVIOUS
  <1>1. Idle \in Jobs
    BY DEF Idle, Jobs, Places
  <1>2. TypeInv
    BY <1>1 DEF Init, TypeInv
  <1>3. ASSUME NEW w \in Workers PROVE Sound(job[w])
    BY DEF Init, Idle, Sound
  <1>4. LiveHasText /\ ManifestsHaveSegments /\ MarkedInv
    BY DEF Init, LiveHasText, ManifestsHaveSegments, MarkedInv
  <1>. QED
    BY <1>2, <1>3, <1>4 DEF IInv, JobsAreSound

LEMMA TypesStay == IInv /\ [Next]_vars => TypeInv'
  <1>. SUFFICES ASSUME IInv, [Next]_vars PROVE TypeInv'
    OBVIOUS
  <1>. USE DEF IInv, store, coordinator, gateway
  <1>0. Idle \in Jobs
    BY DEF Idle, Jobs, Places
  <1>1. ASSUME NEW m \in Messages, Receive(m) \/ Edit(m) \/ DeleteForEveryone(m)
        PROVE  TypeInv'
    <2>1. UNCHANGED <<backedUp, coordinator, prepared, gateway, job>>
      BY <1>1 DEF Receive, Edit, DeleteForEveryone, StoreChanges
    <2>2. CASE Receive(m)
      BY <2>1, <2>2 DEF Receive, TypeInv, States
    <2>3. CASE Edit(m)
      BY <2>1, <2>3 DEF Edit, TypeInv
    <2>4. CASE DeleteForEveryone(m)
      BY <2>1, <2>4 DEF DeleteForEveryone, TypeInv, States
    <2>. QED
      BY <1>1, <2>2, <2>3, <2>4
  <1>2. ASSUME NEW w \in Workers, Backup(w) PROVE TypeInv'
    <2>0. job[w] \in Jobs
      BY DEF TypeInv
    <2>1. CASE ReadSkeletons(w)
      <3>1. StoredSkeletons \in SUBSET (Messages \X States)
        BY DEF StoredSkeletons, TypeInv, States
      <3>2. [Idle EXCEPT !.pc = "bodies", !.skeletons = StoredSkeletons] \in Jobs
        BY <1>0, <3>1 DEF Jobs, Places
      <3>. QED
        BY <2>1, <3>2 DEF ReadSkeletons, TypeInv
    <2>2. CASE ReadBodies(w)
      <3>1. StoredBodies \in SUBSET (Messages \X Nat)
        BY DEF StoredBodies, TypeInv
      <3>2. [job[w] EXCEPT !.pc = "prepare", !.bodies = StoredBodies] \in Jobs
        BY <2>0, <3>1 DEF Jobs, Places
      <3>. QED
        BY <2>2, <3>2 DEF ReadBodies, TypeInv
    <2>3. CASE Prepare(w)
      <3>1. [id |-> prepared + 1, generation |-> generation, previous |-> previous] \in Named
        BY DEF TypeInv, Named
      <3>2. prepared' \in Nat
        BY <2>3 DEF Prepare, TypeInv
      <3>. DEFINE n == [id |-> prepared + 1, generation |-> generation, previous |-> previous]
                  j == [job[w] EXCEPT !.pc = "segment", !.manifest = n]
      <3>. HIDE DEF n
      <3>3. j \in Jobs
        BY <2>0, <3>1 DEF Jobs, Places, n
      <3>4. job' = [job EXCEPT ![w] = j]
        BY <2>3 DEF Prepare, n
      <3>. HIDE DEF j
      <3>. QED
        BY <2>3, <3>2, <3>3, <3>4 DEF Prepare, TypeInv
    <2>4. ASSUME NEW pc \in Places, Goto(w, pc) PROVE job' \in [Workers -> Jobs]
      BY <2>4 DEF Goto, TypeInv, Jobs
    <2>5. ASSUME NEW pc \in Places, Answered(w, pc) PROVE job' \in [Workers -> Jobs]
      BY <1>0, <2>4, <2>5 DEF Answered, TypeInv
    <2>6. CASE UploadSegment(w)
      <3>1. job' \in [Workers -> Jobs]
        BY <2>5, <2>6 DEF UploadSegment, Places
      <3>. QED
        BY <2>6, <3>1 DEF UploadSegment, TypeInv
    <2>7. CASE UploadManifest(w)
      <3>1. job' \in [Workers -> Jobs]
        BY <2>5, <2>7 DEF UploadManifest, Places
      <3>2. job[w].manifest \in Named
        BY <2>7 DEF UploadManifest, At, JobsAreSound, Sound
      <3>3. manifests' \in Seq(Named)
        BY <2>7, <3>2 DEF UploadManifest, TypeInv
      <3>. QED
        BY <2>7, <3>1, <3>3 DEF UploadManifest, TypeInv
    <2>8. CASE Finalize(w)
      <3>1. job' \in [Workers -> Jobs]
        BY <2>4, <2>8 DEF Finalize, Places
      <3>2. job[w].manifest \in Named
        BY <2>8 DEF Finalize, At, JobsAreSound, Sound
      <3>3. previous' \in Nat /\ generation' \in Nat
        BY <2>8, <3>2 DEF Finalize, TypeInv, Named
      <3>. QED
        BY <2>8, <3>1, <3>3 DEF Finalize, TypeInv
    <2>9. CASE Mark(w)
      <3>1. {s[1] : s \in job[w].skeletons} \subseteq Messages
        BY <2>0 DEF Jobs
      <3>. QED
        BY <1>0, <2>9, <3>1 DEF Mark, TypeInv
    <2>10. CASE Fail(w)
      BY <1>0, <2>10 DEF Fail, TypeInv
    <2>. QED
      BY <1>2, <2>1, <2>2, <2>3, <2>6, <2>7, <2>8, <2>9, <2>10 DEF Backup
  <1>3. CASE Restart
    BY <1>0, <1>3 DEF Restart, TypeInv
  <1>4. CASE UNCHANGED vars
    BY <1>4 DEF vars, TypeInv
  <1>. QED
    BY <1>1, <1>2, <1>3, <1>4 DEF Next

(* A backup that a step does not touch stays sound.                          *)
LEMMA SoundStays ==
  ASSUME TypeInv, GatewayGrows, StoreStays, NEW w \in Workers, Sound(job[w]),
         job'[w] = job[w]
  PROVE  Sound(job[w])'
  <1>. DEFINE j == job[w]
  <1>1. \A e \in j.skeletons : e[1] \in Messages
    BY DEF TypeInv, Jobs
  <1>2. \A e \in j.skeletons : Seen(e[1]) /\ Seen(e[1])'
    BY <1>1 DEF Sound, StoreStays
  <1>3. ASSUME j.pc \in {"prepare", "segment", "manifest", "finalize", "mark"},
               NEW e \in j.skeletons
        PROVE  skeleton'[e[1]] = "live" => \E v \in 1..version'[e[1]] : <<e[1], v>> \in j.bodies
    BY <1>1, <1>2, <1>3 DEF Sound, StoreStays
  <1>. HIDE DEF j
  <1>4. /\ j.pc \in {"segment", "manifest", "finalize", "mark"} => j.manifest \in Named
        /\ j.pc \in {"manifest", "finalize", "mark"} =>
              \E s \in segments' : /\ s.id = j.manifest.id
                                   /\ s.skeletons = j.skeletons /\ s.bodies = j.bodies
        /\ j.pc \in {"finalize", "mark"} =>
              \E i \in DOMAIN manifests' : manifests'[i].id = j.manifest.id
    BY DEF Sound, GatewayGrows, j
  <1>5. job'[w] = j
    BY DEF j
  <1>. QED
    BY <1>2, <1>3, <1>4, <1>5 DEF Sound, Seen, Recorded

LEMMA JobsStaySound == IInv /\ [Next]_vars => JobsAreSound'
  <1>. SUFFICES ASSUME IInv, [Next]_vars PROVE JobsAreSound'
    OBVIOUS
  <1>. USE DEF IInv
  <1>0. GatewayGrows /\ StoreStays
    BY GatewayOnlyGrows, StoreOnlyStays
  <1>1. ASSUME NEW w \in Workers, job'[w] = Idle PROVE Sound(job[w])'
    BY <1>1 DEF Sound, Idle
  <1>2. CASE UNCHANGED job
    BY <1>0, <1>2, SoundStays DEF JobsAreSound
  <1>3. CASE Restart
    BY <1>1, <1>3 DEF Restart, JobsAreSound
  <1>4. ASSUME NEW w \in Workers, Backup(w) PROVE JobsAreSound'
    <2>0. /\ job[w] \in Jobs /\ Sound(job[w])
          /\ \A e \in job[w].skeletons : e[1] \in Messages
      BY DEF JobsAreSound, TypeInv, Jobs
    <2>1. ASSUME NEW u \in Workers, u # w PROVE job'[u] = job[u]
      BY <1>4, <2>1 DEF Backup, ReadSkeletons, ReadBodies, Prepare, UploadSegment, UploadManifest,
         Finalize, Mark, Fail, Answered, Goto, TypeInv
    <2>2. UNCHANGED store
      BY <1>4 DEF Backup, ReadSkeletons, ReadBodies, Prepare, UploadSegment, UploadManifest,
         Finalize, Mark, Fail
    <2>3. ASSUME job'[w] = Idle PROVE Sound(job[w])'
      BY <1>1, <2>3
    <2>4. ASSUME ReadSkeletons(w) PROVE Sound(job[w])'
      <3>1. job'[w].pc = "bodies" /\ job'[w].skeletons = StoredSkeletons
        BY <2>4 DEF ReadSkeletons, TypeInv, Idle
      <3>2. \A e \in StoredSkeletons : skeleton'[e[1]] # "absent"
        BY <2>2 DEF StoredSkeletons, store
      <3>. QED
        BY <3>1, <3>2 DEF Sound, Seen
    <2>5. ASSUME ReadBodies(w) PROVE Sound(job[w])'
      <3>1. /\ job'[w].pc = "prepare" /\ job'[w].skeletons = job[w].skeletons
            /\ job'[w].bodies = StoredBodies
        BY <2>0, <2>5 DEF ReadBodies, TypeInv, Jobs
      <3>2. ASSUME NEW e \in job[w].skeletons, skeleton[e[1]] = "live"
            PROVE  \E v \in 1..version[e[1]] : <<e[1], v>> \in StoredBodies
        <4>1. e[1] \in Messages /\ version[e[1]] \in Nat /\ version[e[1]] > 0
          BY <2>0, <3>2 DEF LiveHasText, TypeInv
        <4>2. <<e[1], version[e[1]]>> \in StoredBodies /\ version[e[1]] \in 1..version[e[1]]
          BY <4>1 DEF StoredBodies
        <4>. QED
          BY <4>2
      <3>. QED
        BY <2>0, <2>2, <3>1, <3>2 DEF Sound, Seen, Recorded, store
    <2>6. ASSUME Prepare(w) PROVE Sound(job[w])'
      <3>. DEFINE n == [id |-> prepared + 1, generation |-> generation, previous |-> previous]
      <3>1. n \in Named
        BY DEF TypeInv, Named
      <3>. HIDE DEF n
      <3>2. job[w].pc = "prepare" /\ job'[w] = [job[w] EXCEPT !.pc = "segment", !.manifest = n]
        BY <2>6 DEF Prepare, At, TypeInv, n
      <3>3. /\ job'[w].pc = "segment" /\ job'[w].skeletons = job[w].skeletons
            /\ job'[w].bodies = job[w].bodies /\ job'[w].manifest = n
        BY <2>0, <3>2 DEF Jobs
      <3>. QED
        BY <2>0, <2>2, <3>1, <3>2, <3>3 DEF Sound, Seen, Recorded, store
    <2>7. ASSUME UploadSegment(w) /\ job'[w] # Idle PROVE Sound(job[w])'
      <3>1. job[w].pc = "segment" /\ job'[w] = [job[w] EXCEPT !.pc = "manifest"]
        BY <2>7 DEF UploadSegment, At, Answered, Goto, TypeInv
      <3>2. /\ job'[w].pc = "manifest" /\ job'[w].skeletons = job[w].skeletons
            /\ job'[w].bodies = job[w].bodies /\ job'[w].manifest = job[w].manifest
        BY <2>0, <3>1 DEF Jobs
      <3>3. \E s \in segments' : /\ s.id = job[w].manifest.id
                                 /\ s.skeletons = job[w].skeletons /\ s.bodies = job[w].bodies
        <4>1. Segment(w) \in segments'
          BY <2>7 DEF UploadSegment
        <4>2. /\ Segment(w).id = job[w].manifest.id
              /\ Segment(w).skeletons = job[w].skeletons /\ Segment(w).bodies = job[w].bodies
          BY DEF Segment
        <4>. QED
          BY <4>1, <4>2
      <3>. QED
        BY <2>0, <2>2, <3>1, <3>2, <3>3 DEF Sound, Seen, Recorded, store
    <2>8. ASSUME UploadManifest(w) /\ job'[w] # Idle PROVE Sound(job[w])'
      <3>1. job[w].pc = "manifest" /\ job'[w] = [job[w] EXCEPT !.pc = "finalize"]
        BY <2>8 DEF UploadManifest, At, Answered, Goto, TypeInv
      <3>2. /\ job'[w].pc = "finalize" /\ job'[w].skeletons = job[w].skeletons
            /\ job'[w].bodies = job[w].bodies /\ job'[w].manifest = job[w].manifest
        BY <2>0, <3>1 DEF Jobs
      <3>3. \E i \in DOMAIN manifests' : manifests'[i].id = job[w].manifest.id
        <4>1. manifests' = Append(manifests, job[w].manifest)
          BY <2>8 DEF UploadManifest
        <4>2. Len(manifests) + 1 \in DOMAIN manifests'
              /\ manifests'[Len(manifests) + 1] = job[w].manifest
          BY <4>1 DEF TypeInv
        <4>. QED
          BY <4>2
      <3>4. UNCHANGED segments
        BY <2>8 DEF UploadManifest
      <3>. QED
        BY <2>0, <2>2, <3>1, <3>2, <3>3, <3>4 DEF Sound, Seen, Recorded, store
    <2>9. ASSUME Finalize(w) PROVE Sound(job[w])'
      <3>1. job[w].pc = "finalize" /\ job'[w] = [job[w] EXCEPT !.pc = "mark"]
            /\ UNCHANGED <<segments, manifests>>
        BY <2>9 DEF Finalize, At, Goto, TypeInv, gateway
      <3>2. /\ job'[w].pc = "mark" /\ job'[w].skeletons = job[w].skeletons
            /\ job'[w].bodies = job[w].bodies /\ job'[w].manifest = job[w].manifest
        BY <2>0, <3>1 DEF Jobs
      <3>. QED
        BY <2>0, <2>2, <3>1, <3>2 DEF Sound, Seen, Recorded, store
    <2>10. ASSUME Mark(w) \/ Fail(w) PROVE Sound(job[w])'
      BY <2>3, <2>10 DEF Mark, Fail, TypeInv
    <2>11. Sound(job[w])'
      BY <1>4, <2>3, <2>4, <2>5, <2>6, <2>7, <2>8, <2>9, <2>10 DEF Backup
    <2>. QED
      BY <1>0, <2>1, <2>11, SoundStays DEF JobsAreSound
  <1>. QED
    BY <1>2, <1>3, <1>4 DEF Next, Receive, Edit, DeleteForEveryone, StoreChanges, vars

LEMMA LiveKeepsText == IInv /\ [Next]_vars => LiveHasText'
  <1>. SUFFICES ASSUME IInv, [Next]_vars PROVE LiveHasText'
    OBVIOUS
  <1>. USE DEF IInv, LiveHasText
  <1>1. ASSUME NEW m \in Messages, Receive(m) \/ Edit(m) \/ DeleteForEveryone(m)
        PROVE  LiveHasText'
    BY <1>1 DEF Receive, Edit, DeleteForEveryone, TypeInv
  <1>2. CASE UNCHANGED store
    BY <1>2 DEF store
  <1>. QED
    BY <1>1, <1>2 DEF Next, Backup, ReadSkeletons, ReadBodies, Prepare, UploadSegment,
       UploadManifest, Finalize, Mark, Fail, Restart, vars, store

(* A manifest is uploaded by a backup whose segment is there.                *)
LEMMA ManifestsKeepSegments == IInv /\ [Next]_vars => ManifestsHaveSegments'
  <1>. SUFFICES ASSUME IInv, [Next]_vars PROVE ManifestsHaveSegments'
    OBVIOUS
  <1>. USE DEF IInv
  <1>0. GatewayGrows
    BY GatewayOnlyGrows
  <1>1. ASSUME NEW w \in Workers, UploadManifest(w) PROVE ManifestsHaveSegments'
    <2>1. manifests' = Append(manifests, job[w].manifest) /\ UNCHANGED segments
      BY <1>1 DEF UploadManifest
    <2>2. \E s \in segments : s.id = job[w].manifest.id
      BY <1>1 DEF UploadManifest, At, JobsAreSound, Sound
    <2>3. DOMAIN manifests' = 1..(Len(manifests) + 1) /\ DOMAIN manifests = 1..Len(manifests)
          /\ Len(manifests) \in Nat
          /\ manifests'[Len(manifests) + 1] = job[w].manifest
          /\ \A i \in 1..Len(manifests) : manifests'[i] = manifests[i]
      BY <2>1 DEF TypeInv
    <2>4. ASSUME NEW i \in DOMAIN manifests' PROVE \E s \in segments' : s.id = manifests'[i].id
      <3>1. CASE i = Len(manifests) + 1
        BY <2>1, <2>2, <2>3, <3>1
      <3>2. CASE i # Len(manifests) + 1
        <4>1. i \in DOMAIN manifests /\ manifests'[i] = manifests[i]
          BY <2>3, <3>2
        <4>. QED
          BY <2>1, <4>1 DEF ManifestsHaveSegments, SegmentOf
      <3>. QED
        BY <3>1, <3>2
    <2>. QED
      BY <2>4 DEF ManifestsHaveSegments, SegmentOf
  <1>2. CASE UNCHANGED manifests
    BY <1>0, <1>2 DEF GatewayGrows, ManifestsHaveSegments, SegmentOf
  <1>. QED
    BY <1>1, <1>2 DEF Next, Backup, Receive, Edit, DeleteForEveryone, StoreChanges, ReadSkeletons,
       ReadBodies, Prepare, UploadSegment, Finalize, Mark, Fail, Restart, gateway, vars

(* What is recoverable stays so, and a backup marks what its segment holds.  *)
LEMMA MarkedStays == IInv /\ [Next]_vars => MarkedInv'
  <1>. SUFFICES ASSUME IInv, [Next]_vars PROVE MarkedInv'
    OBVIOUS
  <1>. USE DEF IInv
  <1>0. GatewayGrows /\ StoreStays
    BY GatewayOnlyGrows, StoreOnlyStays
  <1>1. ASSUME NEW m \in Messages, Seen(m), Recoverable(m) PROVE Seen(m)' /\ Recoverable(m)'
    <2>1. PICK i \in DOMAIN manifests, s \in segments : s.id = manifests[i].id /\ InSegment(m, s)
      BY <1>1 DEF Recoverable
    <2>2. i \in DOMAIN manifests' /\ s \in segments' /\ s.id = manifests'[i].id
      BY <1>0, <2>1 DEF GatewayGrows
    <2>3. skeleton'[m] = "live" => \E v \in 1..version'[m] : <<m, v>> \in s.bodies
      BY <1>0, <1>1, <2>1 DEF StoreStays, InSegment
    <2>4. \E state \in States : <<m, state>> \in s.skeletons
      BY <2>1 DEF InSegment
    <2>. QED
      BY <1>0, <1>1, <2>2, <2>3, <2>4 DEF StoreStays, Recoverable, InSegment, Recorded
  <1>2. CASE UNCHANGED backedUp
    BY <1>1, <1>2 DEF MarkedInv, TypeInv
  <1>3. ASSUME NEW w \in Workers, Mark(w) PROVE MarkedInv'
    <2>1. job[w] \in Jobs /\ Sound(job[w]) /\ job[w].pc = "mark"
      BY <1>3 DEF Mark, At, JobsAreSound, TypeInv
    <2>2. ASSUME NEW e \in job[w].skeletons
          PROVE  e[1] \in Messages /\ Seen(e[1]) /\ Recoverable(e[1])
      <3>1. e[1] \in Messages /\ e[2] \in States /\ e = <<e[1], e[2]>>
        BY <2>1 DEF Jobs
      <3>2. Seen(e[1]) /\ Recorded(e[1], job[w].bodies)
        BY <2>1 DEF Sound
      <3>3. PICK s \in segments : /\ s.id = job[w].manifest.id
                                  /\ s.skeletons = job[w].skeletons /\ s.bodies = job[w].bodies
        BY <2>1 DEF Sound
      <3>4. PICK i \in DOMAIN manifests : manifests[i].id = job[w].manifest.id
        BY <2>1 DEF Sound
      <3>5. InSegment(e[1], s)
        BY <3>1, <3>2, <3>3 DEF InSegment
      <3>. QED
        BY <3>1, <3>2, <3>3, <3>4, <3>5 DEF Recoverable
    <2>3. backedUp' = backedUp \cup {s[1] : s \in job[w].skeletons}
      BY <1>3 DEF Mark
    <2>4. \A m \in backedUp' : m \in Messages /\ Seen(m) /\ Recoverable(m)
      BY <2>2, <2>3 DEF MarkedInv, TypeInv
    <2>. QED
      BY <1>1, <2>4 DEF MarkedInv
  <1>. QED
    BY <1>2, <1>3 DEF Next, Backup, Receive, Edit, DeleteForEveryone, StoreChanges, ReadSkeletons,
       ReadBodies, Prepare, UploadSegment, UploadManifest, Finalize, Fail, Restart, vars

THEOREM Invariance == Spec => []IInv
  <1>1. IInv /\ [Next]_vars => IInv'
    BY TypesStay, LiveKeepsText, JobsStaySound, ManifestsKeepSegments, MarkedStays DEF IInv
  <1>. QED
    BY <1>1, InvInit, PTL DEF Spec

(* A manifest never names a segment that the gateway does not have, for any  *)
(* number of workers and whatever fails (run_incremental_backup).            *)
THEOREM NamedSegmentsExist == Spec => []ManifestsHaveSegments
  BY Invariance, PTL DEF IInv

(* A message that is marked as backed up is in a published segment, its text *)
(* too unless it was deleted since (BackupSnapshot::from_db, mark_backed_up).*)
THEOREM MarkedMessagesRecoverable == Spec => []MarkedIsRecoverable
  <1>1. IInv => MarkedIsRecoverable
    <2>. SUFFICES ASSUME IInv, NEW m \in backedUp
         PROVE  \E i \in DOMAIN manifests : \E s \in SegmentOf(i) :
                   /\ \E state \in {"live", "deleted"} : <<m, state>> \in s.skeletons
                   /\ skeleton[m] = "live" => \E v \in 1..version[m] : <<m, v>> \in s.bodies
      BY DEF MarkedIsRecoverable
    <2>1. PICK i \in DOMAIN manifests, s \in segments : s.id = manifests[i].id /\ InSegment(m, s)
      BY DEF IInv, MarkedInv, Recoverable
    <2>2. s \in SegmentOf(i)
      BY <2>1 DEF SegmentOf
    <2>. QED
      BY <2>1, <2>2 DEF InSegment, Recorded, States
  <1>. QED
    BY <1>1, Invariance, PTL

--------------------------------------------------------------------------------
(* One worker, a process that is not restarted, and no reply that is lost.   *)

RunsAlone == (\E w : Workers = {w}) /\ ~Restarts /\ ~LostReplies

(* Where the coordinator stands between the gateway and the backup.          *)
InStep(j) ==
    /\ Len(manifests) =< prepared
    /\ \A i \in DOMAIN manifests : manifests[i].id =< prepared
    /\ j.pc # "finalize" => generation = Len(manifests) /\ previous = Chain!Tip
    /\ j.pc \in {"segment", "manifest"} =>
          /\ j.manifest = [id |-> prepared, generation |-> generation, previous |-> previous]
          /\ prepared \in Ids /\ Len(manifests) < prepared
          /\ \A i \in DOMAIN manifests : manifests[i].id < prepared
    /\ j.pc = "finalize" =>
          /\ manifests # <<>> /\ manifests[Len(manifests)] = j.manifest
          /\ generation + 1 = Len(manifests)

ChainInv == prepared =< MaxBackups /\ \A w \in Workers : InStep(job[w])

LEMMA ChainStep ==
  ASSUME RunsAlone, IInv, ChainInv, [Next]_vars
  PROVE  ChainInv' /\ [Chain!Next]_manifests
  <1>. USE DEF IInv
  <1>0. PICK w : Workers = {w}
    BY DEF RunsAlone
  <1>1. /\ job[w] \in Jobs /\ Sound(job[w]) /\ InStep(job[w]) /\ w \in Workers
        /\ prepared \in Nat /\ MaxBackups \in Nat /\ prepared =< MaxBackups
        /\ Len(manifests) \in Nat /\ DOMAIN manifests = 1..Len(manifests)
        /\ \A i \in DOMAIN manifests : manifests[i].id \in Nat
    <2>1. /\ w \in Workers /\ job[w] \in Jobs /\ Sound(job[w]) /\ InStep(job[w])
          /\ prepared \in Nat /\ MaxBackups \in Nat /\ prepared =< MaxBackups
      BY <1>0, BackupAssumption DEF TypeInv, JobsAreSound, ChainInv
    <2>2. /\ Len(manifests) \in Nat /\ DOMAIN manifests = 1..Len(manifests)
          /\ \A i \in DOMAIN manifests : manifests[i] \in Named
      BY DEF TypeInv
    <2>3. \A n \in Named : n.id \in Nat
      BY DEF Named
    <2>. QED
      BY <2>1, <2>2, <2>3
  <1>2. ASSUME InStep(job[w])', prepared' =< MaxBackups PROVE ChainInv'
    BY <1>0, <1>2 DEF ChainInv
  <1>3. ASSUME UNCHANGED <<coordinator, prepared, manifests>>,
               job'[w].pc # "finalize", job[w].pc # "finalize",
               job'[w].pc \in {"segment", "manifest"} =>
                  job[w].pc \in {"segment", "manifest"} /\ job'[w].manifest = job[w].manifest
        PROVE  ChainInv' /\ [Chain!Next]_manifests
    <2>1. InStep(job[w])'
      BY <1>1, <1>3 DEF InStep, Chain!Tip, coordinator
    <2>. QED
      BY <1>1, <1>2, <1>3, <2>1
  <1>4. CASE UNCHANGED <<job, coordinator, prepared, manifests>>
    <2>1. InStep(job[w])'
      BY <1>1, <1>4 DEF InStep, Chain!Tip, coordinator
    <2>. QED
      BY <1>1, <1>2, <1>4, <2>1
  <1>5. CASE ReadSkeletons(w) \/ Mark(w) \/ Fail(w)
    <2>1. job[w].pc # "finalize" /\ job'[w].pc \in {"idle", "bodies"}
          /\ UNCHANGED <<coordinator, prepared, manifests>>
      <3>1. CASE ReadSkeletons(w)
        <4>1. job'[w] = [Idle EXCEPT !.pc = "bodies", !.skeletons = StoredSkeletons]
          BY <1>1, <3>1 DEF ReadSkeletons, TypeInv
        <4>2. job'[w].pc = "bodies"
          BY <4>1 DEF Idle
        <4>. QED
          BY <3>1, <4>2 DEF ReadSkeletons, At, gateway
      <3>2. CASE Mark(w) \/ Fail(w)
        <4>1. job'[w] = Idle
          BY <1>1, <3>2 DEF Mark, Fail, TypeInv
        <4>. QED
          BY <3>2, <4>1 DEF Mark, Fail, At, Idle, gateway
      <3>. QED
        BY <1>5, <3>1, <3>2
    <2>. QED
      BY <1>3, <2>1
  <1>6. CASE ReadBodies(w)
    <2>1. job[w].pc = "bodies" /\ job'[w].pc = "prepare"
          /\ UNCHANGED <<coordinator, prepared, manifests>>
      BY <1>1, <1>6 DEF ReadBodies, At, TypeInv, Jobs, gateway
    <2>. QED
      BY <1>3, <2>1
  <1>7. CASE Prepare(w)
    <2>. DEFINE n == [id |-> prepared + 1, generation |-> generation, previous |-> previous]
    <2>1. /\ job[w].pc = "prepare" /\ prepared < MaxBackups /\ prepared' = prepared + 1
          /\ UNCHANGED <<generation, previous, manifests>>
          /\ job' = [job EXCEPT ![w].pc = "segment", ![w].manifest = n]
      BY <1>7 DEF Prepare, At, coordinator, gateway
    <2>2. job'[w].pc = "segment" /\ job'[w].manifest = n
      BY <1>1, <2>1 DEF TypeInv, Jobs
    <2>3. InStep(job[w])'
      BY <1>1, <2>1, <2>2 DEF InStep, Chain!Tip, Ids
    <2>. QED
      BY <1>1, <1>2, <2>1, <2>3
  <1>8. CASE UploadSegment(w)
    <2>1. /\ job[w].pc = "segment" /\ UNCHANGED <<coordinator, prepared, manifests>>
          /\ job' = [job EXCEPT ![w].pc = "manifest"]
      BY <1>8 DEF UploadSegment, At, Answered, Goto, RunsAlone
    <2>2. job'[w].pc = "manifest" /\ job'[w].manifest = job[w].manifest
      BY <1>1, <2>1 DEF TypeInv, Jobs
    <2>. QED
      BY <1>3, <2>1, <2>2
  <1>9. CASE UploadManifest(w)
    <2>1. /\ job[w].pc = "manifest" /\ UNCHANGED <<generation, previous, prepared>>
          /\ manifests' = Append(manifests, job[w].manifest)
          /\ job' = [job EXCEPT ![w].pc = "finalize"]
      BY <1>9 DEF UploadManifest, At, Answered, Goto, RunsAlone, coordinator
    <2>2. job'[w].pc = "finalize" /\ job'[w].manifest = job[w].manifest
      BY <1>1, <2>1 DEF TypeInv, Jobs
    <2>3. /\ job[w].manifest = [id |-> prepared, generation |-> Len(manifests),
                                previous |-> Chain!Tip]
          /\ generation = Len(manifests)
          /\ prepared \in Ids /\ Len(manifests) < prepared
          /\ \A i \in DOMAIN manifests : manifests[i].id < prepared
      BY <1>1, <2>1 DEF InStep
    <2>4. job[w].manifest \in Named
      BY <1>1, <2>1 DEF Sound
    <2>5. /\ Len(manifests') = Len(manifests) + 1 /\ manifests' # <<>>
          /\ DOMAIN manifests' = 1..(Len(manifests) + 1)
          /\ manifests'[Len(manifests) + 1] = job[w].manifest
          /\ \A i \in 1..Len(manifests) : manifests'[i] = manifests[i]
      BY <2>1, <2>4 DEF TypeInv
    <2>6. \A i \in DOMAIN manifests' : manifests'[i].id =< prepared
      BY <1>1, <2>3, <2>5
    <2>7. InStep(job[w])'
      <3>1. /\ Len(manifests') =< prepared'
            /\ \A i \in DOMAIN manifests' : manifests'[i].id =< prepared'
        BY <1>1, <2>1, <2>3, <2>5, <2>6 DEF Ids
      <3>2. manifests'[Len(manifests')] = job'[w].manifest /\ generation' + 1 = Len(manifests')
        BY <1>1, <2>1, <2>2, <2>3, <2>5
      <3>. QED
        BY <2>2, <2>5, <3>1, <3>2 DEF InStep
    <2>8. Chain!Publish(prepared)
      BY <1>1, <2>1, <2>3 DEF Chain!Publish
    <2>. QED
      BY <1>1, <1>2, <2>1, <2>3, <2>7, <2>8 DEF Chain!Next
  <1>10. CASE Finalize(w)
    <2>1. /\ job[w].pc = "finalize" /\ generation' = generation + 1
          /\ previous' = job[w].manifest.id /\ UNCHANGED <<prepared, manifests>>
          /\ job' = [job EXCEPT ![w].pc = "mark"]
      BY <1>10 DEF Finalize, At, Goto, gateway
    <2>2. job'[w].pc = "mark"
      BY <1>1, <2>1 DEF TypeInv, Jobs
    <2>3. InStep(job[w])'
      BY <1>1, <2>1, <2>2 DEF InStep, Chain!Tip
    <2>. QED
      BY <1>1, <1>2, <2>1, <2>3
  <1>11. ~Restart
    BY DEF RunsAlone, Restart
  <1>. QED
    BY <1>0, <1>4, <1>5, <1>6, <1>7, <1>8, <1>9, <1>10, <1>11 DEF Next, Backup, Receive, Edit,
       DeleteForEveryone, StoreChanges, vars, coordinator, gateway

LEMMA ChainInit == Init => ChainInv /\ Chain!Init
  BY BackupAssumption DEF Init, ChainInv, InStep, Idle, Chain!Init, Chain!Tip

(* One worker that runs to its end each time publishes one chain, whatever   *)
(* fails in between: the backup implements the abstract chain of manifests   *)
(* (coordinator.rs, core_impl.rs).                                           *)
THEOREM BackupImplementsChain == ASSUME RunsAlone PROVE Spec => PublishesOneChain
  <1>1. IInv /\ ChainInv /\ [Next]_vars => ChainInv' /\ [Chain!Next]_manifests
    BY ChainStep
  <1>. QED
    BY <1>1, ChainInit, Invariance, PTL DEF Spec, PublishesOneChain, Chain!Spec

--------------------------------------------------------------------------------
(* Types, with the bounds: a generation number is never ahead of the         *)
(* payloads that were prepared.                                              *)

JobType == [pc : Places, skeletons : Skeletons, bodies : Bodies, manifest : Manifests \cup {Genesis}]

(* A payload that was prepared and is not finalized yet.                     *)
Open(w) == job[w].pc \in {"segment", "manifest", "finalize"}
OpenIds == {job[w].manifest.id : w \in {v \in Workers : Open(v)}}

OpenIsPrepared ==
    \A w \in Workers : Open(w) => job[w].manifest \in Manifests /\ job[w].manifest.id =< prepared

(* No two workers hold the same payload: the mutex hands out each id once.   *)
OpenAreDistinct ==
    \A v, w \in Workers : Open(v) /\ Open(w) /\ job[v].manifest.id = job[w].manifest.id => v = w

(* Each generation was the end of a payload of its own.                      *)
GenerationsCounted == generation + Cardinality(OpenIds) =< prepared

CountInv == TypeOK /\ OpenIsPrepared /\ OpenAreDistinct /\ GenerationsCounted

LEMMA OpenIdsFinite ==
  ASSUME CountInv
  PROVE  IsFiniteSet(OpenIds) /\ Cardinality(OpenIds) \in Nat /\ OpenIds \subseteq 1..prepared
  <1>1. prepared \in Int /\ prepared \in Nat
    BY BackupAssumption DEF CountInv, TypeOK
  <1>2. OpenIds \subseteq 1..prepared
    <2>1. ASSUME NEW w \in Workers, Open(w) PROVE job[w].manifest.id \in 1..prepared
      <3>1. job[w].manifest.id \in Ids /\ job[w].manifest.id =< prepared
        BY <2>1 DEF CountInv, OpenIsPrepared, Manifests
      <3>. QED
        BY <1>1, <3>1, BackupAssumption DEF Ids
    <2>. QED
      BY <2>1 DEF OpenIds
  <1>3. IsFiniteSet(1..prepared)
    BY <1>1, FS_Interval
  <1>4. IsFiniteSet(OpenIds)
    BY <1>2, <1>3, FS_Subset
  <1>. QED
    BY <1>2, <1>4, FS_CardinalityType

(* One worker's step, as the count sees it: it opens nothing, closes its     *)
(* payload or keeps it.                                                      *)
LEMMA CloseOrKeep ==
  ASSUME CountInv, NEW w \in Workers,
         \A v \in Workers \ {w} : job'[v] = job[v],
         Open(w)' => Open(w) /\ job'[w].manifest = job[w].manifest,
         UNCHANGED prepared,
         generation' = generation \/ (generation' = generation + 1 /\ Open(w) /\ ~Open(w)')
  PROVE  OpenIsPrepared' /\ OpenAreDistinct' /\ GenerationsCounted'
  <1>1. \A v \in Workers : Open(v)' => Open(v) /\ job'[v].manifest = job[v].manifest
    BY DEF Open
  <1>2. OpenIsPrepared' /\ OpenAreDistinct'
    BY <1>1 DEF CountInv, OpenIsPrepared, OpenAreDistinct
  <1>3. IsFiniteSet(OpenIds) /\ Cardinality(OpenIds) \in Nat
    BY OpenIdsFinite
  <1>4. OpenIds' \subseteq OpenIds
    BY <1>1 DEF OpenIds
  <1>5. IsFiniteSet(OpenIds') /\ Cardinality(OpenIds') \in Nat /\ Cardinality(OpenIds') =< Cardinality(OpenIds)
    <2>1. IsFiniteSet(OpenIds') /\ Cardinality(OpenIds') =< Cardinality(OpenIds)
      BY <1>3, <1>4, FS_Subset
    <2>. QED
      BY <2>1, FS_CardinalityType
  <1>6. generation \in Nat /\ prepared \in Nat
    BY BackupAssumption DEF CountInv, TypeOK, Generations
  <1>7. CASE generation' = generation
    BY <1>2, <1>3, <1>5, <1>6, <1>7 DEF CountInv, GenerationsCounted
  <1>8. CASE generation' = generation + 1 /\ Open(w) /\ ~Open(w)'
    <2>. DEFINE id == job[w].manifest.id
    <2>1. id \in OpenIds
      BY <1>8 DEF OpenIds
    <2>2. id \notin OpenIds'
      <3>1. ASSUME NEW v \in Workers, Open(v)' PROVE job'[v].manifest.id # id
        BY <1>1, <1>8, <3>1 DEF CountInv, OpenAreDistinct
      <3>. QED
        BY <3>1 DEF OpenIds
    <2>3. OpenIds' \subseteq OpenIds \ {id}
      BY <1>4, <2>2
    <2>. HIDE DEF id
    <2>4. IsFiniteSet(OpenIds \ {id}) /\ Cardinality(OpenIds \ {id}) = Cardinality(OpenIds) - 1
      BY <1>3, <2>1, FS_RemoveElement
    <2>5. Cardinality(OpenIds') =< Cardinality(OpenIds \ {id})
      BY <2>3, <2>4, FS_Subset
    <2>. QED
      BY <1>2, <1>3, <1>5, <1>6, <1>8, <2>4, <2>5 DEF CountInv, GenerationsCounted
  <1>. QED
    BY <1>2, <1>7, <1>8

LEMMA CountPrepare ==
  ASSUME CountInv, NEW w \in Workers, Prepare(w)
  PROVE  OpenIsPrepared' /\ OpenAreDistinct' /\ GenerationsCounted' /\ job' \in [Workers -> JobType]
  <1>. DEFINE n == [id |-> prepared + 1, generation |-> generation, previous |-> previous]
              j == [job[w] EXCEPT !.pc = "segment", !.manifest = n]
  <1>1. prepared \in Nat /\ generation \in Nat /\ prepared < MaxBackups /\ prepared' = prepared + 1
        /\ generation' = generation
    BY BackupAssumption DEF Prepare, CountInv, TypeOK, Generations, coordinator
  <1>2. n \in Manifests /\ n.id = prepared + 1
    BY <1>1, BackupAssumption DEF Manifests, Ids, CountInv, TypeOK
  <1>. HIDE DEF n
  <1>3. job \in [Workers -> JobType]
    BY DEF CountInv, TypeOK, JobType
  <1>4. j \in JobType /\ j.pc = "segment" /\ j.manifest = n
    BY <1>2, <1>3 DEF JobType, Places
  <1>5. job' = [job EXCEPT ![w] = j]
    BY DEF Prepare, n
  <1>6. ~Open(w)
    BY DEF Prepare, At, Open
  <1>. HIDE DEF j
  <1>7. job'[w] = j /\ \A v \in Workers \ {w} : job'[v] = job[v]
    BY <1>3, <1>5
  <1>8. Open(w)' /\ \A v \in Workers \ {w} : Open(v)' <=> Open(v)
    BY <1>4, <1>7 DEF Open
  <1>9. \A v \in Workers : Open(v) => job[v].manifest.id \in Nat /\ job[v].manifest.id =< prepared
    BY BackupAssumption DEF CountInv, OpenIsPrepared, Manifests, Ids
  <1>10. OpenIsPrepared'
    <2>1. ASSUME NEW v \in Workers, Open(v)'
          PROVE  job'[v].manifest \in Manifests /\ job'[v].manifest.id =< prepared'
      <3>1. CASE v = w
        BY <1>1, <1>2, <1>4, <1>7, <3>1
      <3>2. CASE v # w
        BY <1>1, <1>7, <1>8, <1>9, <2>1, <3>2 DEF CountInv, OpenIsPrepared
      <3>. QED BY <3>1, <3>2
    <2>. QED
      BY <2>1 DEF OpenIsPrepared
  <1>11. OpenAreDistinct'
    <2>1. \A v \in Workers \ {w} : Open(v)' => job'[v].manifest.id # job'[w].manifest.id
      BY <1>1, <1>2, <1>4, <1>7, <1>8, <1>9
    <2>. QED
      BY <1>7, <1>8, <2>1 DEF CountInv, OpenAreDistinct
  <1>12. OpenIds' = OpenIds \cup {prepared + 1}
    <2>1. ASSUME NEW v \in Workers, Open(v)' PROVE job'[v].manifest.id \in OpenIds \cup {prepared + 1}
      BY <1>2, <1>4, <1>7, <1>8, <2>1 DEF OpenIds
    <2>2. ASSUME NEW v \in Workers, Open(v) PROVE job[v].manifest.id \in OpenIds'
      <3>1. v # w /\ Open(v)' /\ job'[v].manifest.id = job[v].manifest.id
        BY <1>6, <1>7, <1>8, <2>2
      <3>. QED
        BY <3>1 DEF OpenIds
    <2>3. prepared + 1 \in OpenIds'
      <3>1. job'[w].manifest.id = prepared + 1
        BY <1>2, <1>4, <1>7
      <3>. QED
        BY <1>8, <3>1 DEF OpenIds
    <2>. QED
      BY <2>1, <2>2, <2>3 DEF OpenIds
  <1>13. GenerationsCounted'
    <2>1. prepared + 1 \notin OpenIds
      BY <1>1, <1>9 DEF OpenIds
    <2>2. IsFiniteSet(OpenIds) /\ Cardinality(OpenIds) \in Nat
      BY OpenIdsFinite
    <2>3. Cardinality(OpenIds') = Cardinality(OpenIds) + 1
      BY <1>12, <2>1, <2>2, FS_AddElement
    <2>. QED
      BY <1>1, <2>2, <2>3 DEF CountInv, GenerationsCounted
  <1>14. job' \in [Workers -> JobType]
    BY <1>3, <1>4, <1>5
  <1>. QED
    BY <1>10, <1>11, <1>13, <1>14

LEMMA CountInit == Init => CountInv
  <1>. SUFFICES ASSUME Init PROVE CountInv
    OBVIOUS
  <1>1. Idle \in JobType /\ Idle.pc = "idle"
    BY DEF Idle, JobType, Places, Skeletons, Bodies
  <1>2. TypeOK
    BY <1>1, BackupAssumption DEF Init, TypeOK, JobType, Generations
  <1>3. \A w \in Workers : ~Open(w)
    BY <1>1 DEF Init, Open
  <1>4. OpenIds = {}
    BY <1>3 DEF OpenIds
  <1>5. Cardinality({}) = 0
    BY FS_EmptySet
  <1>. QED
    BY <1>2, <1>3, <1>4, <1>5
       DEF Init, CountInv, OpenIsPrepared, OpenAreDistinct, GenerationsCounted

LEMMA CountNext == CountInv /\ [Next]_vars => CountInv'
  <1>. SUFFICES ASSUME CountInv, [Next]_vars PROVE CountInv'
    OBVIOUS
  <1>. USE BackupAssumption DEF store, coordinator, gateway
  <1>0. /\ Idle \in JobType /\ Idle.pc = "idle"
        /\ TypeOK /\ OpenIsPrepared /\ OpenAreDistinct /\ GenerationsCounted
        /\ job \in [Workers -> JobType]
    BY DEF Idle, JobType, Places, Skeletons, Bodies, CountInv, TypeOK
  <1>1. ASSUME UNCHANGED <<coordinator, prepared, job>>
        PROVE  OpenIsPrepared' /\ OpenAreDistinct' /\ GenerationsCounted'
    <2>1. OpenIds' = OpenIds
      BY <1>1 DEF OpenIds, Open
    <2>. QED
      BY <1>0, <1>1, <2>1 DEF OpenIsPrepared, OpenAreDistinct, GenerationsCounted, Open
  <1>2. ASSUME NEW m \in Messages, Receive(m) \/ Edit(m) \/ DeleteForEveryone(m)
        PROVE  CountInv'
    <2>1. UNCHANGED <<backedUp, coordinator, prepared, gateway, job>> /\ quiet' = {}
      BY <1>2 DEF Receive, Edit, DeleteForEveryone, StoreChanges
    <2>2. skeleton' \in [Messages -> {"absent", "live", "deleted"}]
      BY <1>0, <1>2 DEF Receive, Edit, DeleteForEveryone, TypeOK
    <2>3. version' \in [Messages -> 0..MaxVersion]
      <3>1. version \in [Messages -> 0..MaxVersion] /\ MaxVersion \in Nat \ {0}
        BY <1>0 DEF TypeOK
      <3>2. version[m] < MaxVersion => version[m] + 1 \in 0..MaxVersion
        BY <3>1
      <3>3. 1 \in 0..MaxVersion /\ 0 \in 0..MaxVersion
        BY <3>1
      <3>. QED
        BY <1>2, <3>1, <3>2, <3>3 DEF Receive, Edit, DeleteForEveryone
    <2>4. TypeOK'
      BY <1>0, <2>1, <2>2, <2>3 DEF TypeOK
    <2>. QED
      BY <1>1, <2>1, <2>4 DEF CountInv
  <1>3. ASSUME NEW w \in Workers, ReadSkeletons(w) PROVE CountInv'
    <2>. DEFINE j == [Idle EXCEPT !.pc = "bodies", !.skeletons = StoredSkeletons]
    <2>1. StoredSkeletons \in Skeletons
      BY <1>0 DEF StoredSkeletons, Skeletons, TypeOK
    <2>2. j \in JobType /\ j.pc = "bodies"
      BY <2>1 DEF JobType, Places, Idle, Bodies
    <2>3. job' = [job EXCEPT ![w] = j]
      BY <1>3 DEF ReadSkeletons
    <2>. HIDE DEF j
    <2>4. job'[w] = j /\ (\A v \in Workers \ {w} : job'[v] = job[v]) /\ job' \in [Workers -> JobType]
      BY <1>0, <2>2, <2>3
    <2>5. TypeOK'
      BY <1>0, <1>3, <2>4 DEF ReadSkeletons, TypeOK, JobType
    <2>6. ~Open(w)' /\ UNCHANGED <<generation, prepared>>
      BY <1>3, <2>2, <2>4 DEF Open, ReadSkeletons
    <2>. QED
      BY <2>4, <2>5, <2>6, CloseOrKeep DEF CountInv
  <1>4. ASSUME NEW w \in Workers, ReadBodies(w) PROVE CountInv'
    <2>. DEFINE j == [job[w] EXCEPT !.pc = "prepare", !.bodies = StoredBodies]
    <2>1. StoredBodies \in Bodies
      BY <1>0 DEF StoredBodies, Bodies, TypeOK
    <2>2. j \in JobType /\ j.pc = "prepare"
      BY <1>0, <2>1 DEF JobType, Places
    <2>3. job' = [job EXCEPT ![w] = j]
      BY <1>4 DEF ReadBodies
    <2>. HIDE DEF j
    <2>4. job'[w] = j /\ (\A v \in Workers \ {w} : job'[v] = job[v]) /\ job' \in [Workers -> JobType]
      BY <1>0, <2>2, <2>3
    <2>5. TypeOK'
      BY <1>0, <1>4, <2>4 DEF ReadBodies, TypeOK, JobType
    <2>6. ~Open(w)' /\ UNCHANGED <<generation, prepared>>
      BY <1>4, <2>2, <2>4 DEF Open, ReadBodies
    <2>. QED
      BY <2>4, <2>5, <2>6, CloseOrKeep DEF CountInv
  <1>5. ASSUME NEW w \in Workers, Prepare(w) PROVE CountInv'
    <2>1. prepared' \in 0..MaxBackups
      BY <1>0, <1>5 DEF Prepare, TypeOK
    <2>2. TypeOK'
      BY <1>0, <1>5, <2>1, CountPrepare DEF Prepare, TypeOK, JobType
    <2>. QED
      BY <1>5, <2>2, CountPrepare DEF CountInv
  <1>6. ASSUME NEW w \in Workers, NEW pc \in Places, Goto(w, pc)
        PROVE  /\ job' \in [Workers -> JobType] /\ job'[w].pc = pc
               /\ job'[w].manifest = job[w].manifest
               /\ \A v \in Workers \ {w} : job'[v] = job[v]
    BY <1>0, <1>6 DEF Goto, JobType
  <1>7. ASSUME NEW w \in Workers, job' = [job EXCEPT ![w] = Idle]
        PROVE  /\ job' \in [Workers -> JobType] /\ job'[w].pc = "idle"
               /\ \A v \in Workers \ {w} : job'[v] = job[v]
    BY <1>0, <1>7
  <1>8. ASSUME NEW w \in Workers, NEW pc \in Places, Open(w), Answered(w, pc),
               UNCHANGED <<coordinator, prepared>>
        PROVE  /\ job' \in [Workers -> JobType] /\ quiet' \in SUBSET Workers
               /\ OpenIsPrepared' /\ OpenAreDistinct' /\ GenerationsCounted'
    <2>1. CASE Goto(w, pc) /\ UNCHANGED quiet
      BY <1>0, <1>6, <1>8, <2>1, CloseOrKeep DEF TypeOK
    <2>2. CASE job' = [job EXCEPT ![w] = Idle] /\ quiet' = quiet \ {w}
      <3>1. ~Open(w)'
        BY <1>7, <2>2 DEF Open
      <3>. QED
        BY <1>0, <1>7, <1>8, <2>2, <3>1, CloseOrKeep DEF TypeOK
    <2>. QED
      BY <1>8, <2>1, <2>2 DEF Answered
  <1>9. ASSUME NEW w \in Workers, UploadSegment(w) PROVE CountInv'
    <2>1. Open(w) /\ job[w].manifest.id \in Ids
      BY <1>0, <1>9 DEF UploadSegment, At, Open, OpenIsPrepared, Manifests
    <2>2. Segment(w) \in [id : Ids, skeletons : Skeletons, bodies : Bodies]
      BY <1>0, <2>1 DEF Segment, JobType
    <2>3. /\ job' \in [Workers -> JobType] /\ quiet' \in SUBSET Workers
          /\ OpenIsPrepared' /\ OpenAreDistinct' /\ GenerationsCounted'
      BY <1>8, <1>9, <2>1 DEF UploadSegment, Places
    <2>4. TypeOK'
      BY <1>0, <1>9, <2>2, <2>3 DEF UploadSegment, TypeOK, JobType
    <2>. QED
      BY <2>3, <2>4 DEF CountInv
  <1>10. ASSUME NEW w \in Workers, UploadManifest(w) PROVE CountInv'
    <2>1. Open(w) /\ job[w].manifest \in Manifests
      BY <1>0, <1>10 DEF UploadManifest, At, Open, OpenIsPrepared
    <2>2. manifests' \in Seq(Manifests)
      BY <1>0, <1>10, <2>1 DEF UploadManifest, TypeOK
    <2>3. /\ job' \in [Workers -> JobType] /\ quiet' \in SUBSET Workers
          /\ OpenIsPrepared' /\ OpenAreDistinct' /\ GenerationsCounted'
      BY <1>8, <1>10, <2>1 DEF UploadManifest, Places
    <2>4. TypeOK'
      BY <1>0, <1>10, <2>2, <2>3 DEF UploadManifest, TypeOK, JobType
    <2>. QED
      BY <2>3, <2>4 DEF CountInv
  <1>11. ASSUME NEW w \in Workers, Finalize(w) PROVE CountInv'
    <2>1. Open(w) /\ job[w].manifest \in Manifests
      BY <1>0, <1>11 DEF Finalize, At, Open, OpenIsPrepared
    <2>2. job' \in [Workers -> JobType] /\ ~Open(w)' /\ \A v \in Workers \ {w} : job'[v] = job[v]
      BY <1>6, <1>11 DEF Finalize, Places, Open
    <2>3. OpenIsPrepared' /\ OpenAreDistinct' /\ GenerationsCounted'
      BY <1>11, <2>1, <2>2, CloseOrKeep DEF Finalize
    <2>4. previous' \in Ids
      BY <1>11, <2>1 DEF Finalize, Manifests
    <2>5. generation' \in Generations
      <3>1. IsFiniteSet(OpenIds) /\ Cardinality(OpenIds) \in Nat /\ prepared \in 0..MaxBackups
        BY OpenIdsFinite DEF CountInv, TypeOK
      <3>2. Cardinality(OpenIds) # 0
        <4>1. job[w].manifest.id \in OpenIds
          BY <2>1 DEF OpenIds
        <4>. QED
          BY <3>1, <4>1, FS_EmptySet
      <3>3. generation \in Nat /\ generation' = generation + 1
        BY <1>0, <1>11 DEF Finalize, TypeOK, Generations
      <3>. QED
        BY <1>0, <3>1, <3>2, <3>3 DEF GenerationsCounted, Generations
    <2>6. TypeOK'
      BY <1>0, <1>11, <2>2, <2>4, <2>5 DEF Finalize, TypeOK, JobType
    <2>. QED
      BY <2>3, <2>6 DEF CountInv
  <1>12. ASSUME NEW w \in Workers, Mark(w) \/ Fail(w) PROVE CountInv'
    <2>1. job' = [job EXCEPT ![w] = Idle] /\ UNCHANGED <<store, coordinator, prepared, gateway>>
      BY <1>12 DEF Mark, Fail
    <2>2. job' \in [Workers -> JobType] /\ ~Open(w)' /\ \A v \in Workers \ {w} : job'[v] = job[v]
      BY <1>7, <2>1 DEF Open
    <2>3. {s[1] : s \in job[w].skeletons} \subseteq Messages
      BY <1>0 DEF JobType, Skeletons
    <2>4. TypeOK'
      BY <1>0, <1>12, <2>1, <2>2, <2>3 DEF Mark, Fail, TypeOK, JobType
    <2>. QED
      BY <2>1, <2>2, <2>4, CloseOrKeep DEF CountInv
  <1>13. CASE Restart
    <2>1. /\ job' = [w \in Workers |-> Idle] /\ generation' = 0 /\ previous' = Genesis /\ quiet' = {}
          /\ UNCHANGED <<store, backedUp, prepared, gateway>>
      BY <1>13 DEF Restart
    <2>2. \A w \in Workers : ~Open(w)'
      BY <1>0, <2>1 DEF Open
    <2>3. OpenIds' = {}
      BY <2>2 DEF OpenIds
    <2>4. Cardinality({}) = 0
      BY FS_EmptySet
    <2>5. TypeOK'
      BY <1>0, <2>1 DEF TypeOK, JobType, Generations
    <2>6. GenerationsCounted'
      <3>1. prepared \in Nat
        BY <1>0 DEF TypeOK
      <3>. QED
        BY <2>1, <2>3, <2>4, <3>1 DEF GenerationsCounted
    <2>. QED
      BY <2>2, <2>5, <2>6 DEF CountInv, OpenIsPrepared, OpenAreDistinct
  <1>14. CASE UNCHANGED vars
    <2>1. TypeOK'
      BY <1>0, <1>14 DEF vars, TypeOK
    <2>. QED
      BY <1>1, <1>14, <2>1 DEF vars, CountInv
  <1>. QED
    BY <1>2, <1>3, <1>4, <1>5, <1>9, <1>10, <1>11, <1>12, <1>13, <1>14 DEF Next, Backup

(* The coordinator's counter stays within the payloads it prepared, however  *)
(* many workers back up at once and whatever fails or is restarted: each     *)
(* advance of the generation uses up a payload of its own.                   *)
THEOREM GenerationsAreBounded == Spec => []TypeOK
  <1>1. CountInv => TypeOK
    BY DEF CountInv
  <1>. QED
    BY <1>1, CountInit, CountNext, PTL DEF Spec
================================================================================
