--------------------------- MODULE MigrationsProofs ----------------------------
(***************************************************************************)
(* Theorems about Migrations, for any number of versions and any choice of *)
(* the ones that alter a table.                                            *)
(***************************************************************************)
EXTENDS Migrations, TLAPS

(* What an open that is under way has established.                         *)
Progress ==
    /\ userVersion <= build
    /\ pc \in {"batch", "bump"} =>
          /\ next \in 1..build
          /\ 1..(next - 1) \subseteq applied
          /\ seen # 0 => userVersion = next - 1
    /\ pc = "bump" =>
          /\ next \in applied
          /\ seen = 0 => next = build

IInv == TypeOK /\ VersionIsHonest /\ OpenedIsComplete /\ Progress

LEMMA IInvInit == Init => IInv
  BY VersionsAssumption DEF Init, IInv, TypeOK, VersionIsHonest, OpenedIsComplete, Progress

LEMMA IInvNext == IInv /\ [Next]_vars => IInv'
  <1>. SUFFICES ASSUME IInv, [Next]_vars PROVE IInv'
    OBVIOUS
  <1>. USE VersionsAssumption DEF IInv, TypeOK, VersionIsHonest, OpenedIsComplete, Progress
  <1>1. CASE Open
    <2>1. build' = build /\ userVersion' = userVersion /\ applied' = applied
      BY <1>1 DEF Open
    <2>2. PICK s : s \in {userVersion, 0} /\ seen' = s
      BY <1>1 DEF Open
    <2>3. next' = s + 1 /\ pc' = IF s < build THEN "batch" ELSE "opened"
      BY <1>1, <2>2 DEF Open
    <2>4. build \in 1..Latest /\ Latest \in Nat /\ userVersion \in 0..Latest /\ s \in 0..build
      BY <2>2
    <2>5. 1..s \subseteq applied /\ (s # 0 => s = userVersion)
      BY <2>2
    <2>6. CASE s < build
      <3>1. pc' = "batch" /\ s + 1 \in 1..build /\ (s + 1) - 1 = s
        BY <2>3, <2>4, <2>6
      <3>. QED
        BY <2>1, <2>2, <2>3, <2>4, <2>5, <3>1
    <2>7. CASE s = build
      <3>1. pc' = "opened"
        BY <2>3, <2>4, <2>7
      <3>. QED
        BY <2>1, <2>2, <2>3, <2>4, <2>5, <2>7, <3>1
    <2>. QED
      BY <2>4, <2>6, <2>7
  <1>2. CASE RunBatch
    BY <1>2 DEF RunBatch
  <1>3. CASE Refuse
    BY <1>3 DEF Refuse
  <1>4. CASE Bump
    <2>1. 1..next \subseteq applied /\ next \in 1..build
      BY <1>4 DEF Bump
    <2>. QED
      BY <1>4, <2>1 DEF Bump
  <1>5. CASE Interrupt
    BY <1>5 DEF Interrupt
  <1>6. CASE Upgrade
    BY <1>6 DEF Upgrade
  <1>7. CASE UNCHANGED vars
    BY <1>7 DEF vars
  <1>. QED
    BY <1>1, <1>2, <1>3, <1>4, <1>5, <1>6, <1>7 DEF Next

LEMMA Invariance == Spec => []IInv
  BY IInvInit, IInvNext, PTL DEF Spec

(* The version in the file never promises what the file lacks.             *)
THEOREM VersionAlwaysHonest == Spec => []VersionIsHonest
  <1>1. IInv => VersionIsHonest
    BY DEF IInv
  <1>. QED
    BY <1>1, Invariance, PTL

(* A store that was opened has all the tables its build uses.              *)
THEOREM OpenedAlwaysComplete == Spec => []OpenedIsComplete
  <1>1. IInv => OpenedIsComplete
    BY DEF IInv
  <1>. QED
    BY <1>1, Invariance, PTL

(* No step lowers the version.                                             *)
THEOREM VersionsOnlyGrow == Spec => ForwardOnly
  <1>1. IInv /\ [Next]_vars => [userVersion' >= userVersion]_vars
    BY DEF IInv, TypeOK, Progress, Next, Open, RunBatch, Refuse, Bump, Interrupt, Upgrade
  <1>. QED
    BY <1>1, Invariance, PTL DEF Spec, ForwardOnly

================================================================================
