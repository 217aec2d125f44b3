------------------------- MODULE CircuitBreakerProofs --------------------------
(***************************************************************************)
(* Theorems about CircuitBreaker, for any number of threads, any threshold *)
(* and any number of retries.                                              *)
(***************************************************************************)
EXTENDS CircuitBreaker, TLAPS

(* A breaker that is not open has no late requests, and a thread that is     *)
(* admitted has sent none since it opened.                                   *)
AdmittedIsFirst ==
    /\ ~IsOpen => \A c \in Callers : late[c] = 0
    /\ \A c \in Callers : pc[c] = "admitted" => late[c] = 0

IInv == TypeOK /\ AdmittedIsFirst /\ OneLateRequest

LEMMA IInvInit == Init => IInv
  BY BreakerAssumption
  DEF Init, IInv, TypeOK, Places, AdmittedIsFirst, OneLateRequest, IsOpen

--------------------------------------------------------------------------------
(* Types *)

LEMMA TypeNext == TypeOK /\ [Next]_vars => TypeOK'
  <1>. SUFFICES ASSUME TypeOK, [Next]_vars PROVE TypeOK'
    OBVIOUS
  <1>. USE BreakerAssumption DEF TypeOK, Places, Goto
  <1>1. CASE Tick
    <2>1. openedAge \in 0..Recovery /\ openedAge + 1 \in 0..Recovery
      BY <1>1 DEF Tick
    <2>2. late' \in [Callers -> 0..2]
      BY <1>1 DEF Tick, SinceOpen
    <2>. QED
      BY <1>1, <2>1, <2>2 DEF Tick
  <1>2. ASSUME NEW c \in Callers, Call(c) PROVE TypeOK'
    BY <1>2 DEF Call, breaker
  <1>3. ASSUME NEW c \in Callers, CheckCount(c) PROVE TypeOK'
    BY <1>3 DEF CheckCount, breaker
  <1>4. ASSUME NEW c \in Callers, CheckTime(c) PROVE TypeOK'
    BY <1>4 DEF CheckTime, breaker
  <1>5. ASSUME NEW c \in Callers, Request(c) PROVE TypeOK'
    <2>1. late' \in [Callers -> 0..2]
      BY <1>5 DEF Request
    <2>. QED
      BY <1>5, <2>1 DEF Request, breaker
  <1>6. ASSUME NEW c \in Callers, NEW answer \in {"success", "transient", "permanent"},
               Answer(c, answer)
        PROVE  TypeOK'
    <2>1. again' \in [Callers -> BOOLEAN]
      BY <1>6, Zenon DEF Answer
    <2>2. pc' \in [Callers -> Places]
      BY <1>6 DEF Answer
    <2>. QED
      BY <1>6, <2>1, <2>2 DEF Answer, breaker
  <1>7. ASSUME NEW c \in Callers, Wake(c) PROVE TypeOK'
    BY <1>7 DEF Wake, breaker
  <1>8. ASSUME NEW c \in Callers, AddFailure(c) PROVE TypeOK'
    BY <1>8 DEF AddFailure, SinceOpen
  <1>9. ASSUME NEW c \in Callers, TestThreshold(c) PROVE TypeOK'
    BY <1>9 DEF TestThreshold, Recorded, breaker
  <1>10. ASSUME NEW c \in Callers, StoreTime(c) PROVE TypeOK'
    BY <1>10 DEF StoreTime, Recorded, SinceOpen
  <1>11. ASSUME NEW c \in Callers, ZeroCount(c) PROVE TypeOK'
    BY <1>11 DEF ZeroCount, SinceOpen
  <1>12. ASSUME NEW c \in Callers, ZeroTime(c) PROVE TypeOK'
    BY <1>12 DEF ZeroTime, SinceOpen
  <1>13. CASE UNCHANGED vars
    BY <1>13 DEF vars, breaker
  <1>. QED
    BY <1>1, <1>2, <1>3, <1>4, <1>5, <1>6, <1>7, <1>8, <1>9, <1>10, <1>11, <1>12, <1>13
    DEF Next, Proceed

--------------------------------------------------------------------------------
(* Late requests *)

(* What is not a load or a request: the breaker may change, nobody is newly  *)
(* admitted, and the history is kept as long as the breaker is open.         *)
LEMMA RecordingKeeps ==
  ASSUME IInv, SinceOpen, \A c \in Callers : pc'[c] = "admitted" => pc[c] = "admitted"
  PROVE  (AdmittedIsFirst /\ OneLateRequest)'
  <1>1. CASE IsOpen'
    BY <1>1 DEF IInv, SinceOpen, AdmittedIsFirst, OneLateRequest
  <1>2. CASE ~IsOpen'
    BY <1>2 DEF SinceOpen, AdmittedIsFirst, OneLateRequest
  <1>. QED
    BY <1>1, <1>2

(* What leaves the breaker and the history alone and admits nobody whom the  *)
(* breaker does not let through.                                             *)
LEMMA LoadingKeeps ==
  ASSUME IInv, UNCHANGED <<breaker, late>>,
         \A c \in Callers : pc'[c] = "admitted" => pc[c] = "admitted" \/ ~IsOpen
  PROVE  (AdmittedIsFirst /\ OneLateRequest)'
  BY DEF IInv, breaker, AdmittedIsFirst, OneLateRequest, IsOpen

LEMMA LateNext == IInv /\ [Next]_vars => (AdmittedIsFirst /\ OneLateRequest)'
  <1>. SUFFICES ASSUME IInv, [Next]_vars PROVE (AdmittedIsFirst /\ OneLateRequest)'
    OBVIOUS
  <1>0. pc \in [Callers -> Places] /\ late \in [Callers -> 0..2]
    BY DEF IInv, TypeOK
  <1>1. CASE Tick
    BY <1>1, RecordingKeeps DEF Tick
  <1>2. ASSUME NEW c \in Callers, Call(c) PROVE (AdmittedIsFirst /\ OneLateRequest)'
    <2>1. UNCHANGED <<breaker, late>>
      BY <1>2 DEF Call
    <2>2. \A d \in Callers : pc'[d] = "admitted" => pc[d] = "admitted"
      BY <1>0, <1>2 DEF Call, Goto
    <2>. QED
      BY <2>1, <2>2, LoadingKeeps
  <1>3. ASSUME NEW c \in Callers, CheckCount(c) PROVE (AdmittedIsFirst /\ OneLateRequest)'
    <2>1. UNCHANGED <<breaker, late>>
      BY <1>3 DEF CheckCount
    <2>2. \A d \in Callers : pc'[d] = "admitted" => pc[d] = "admitted" \/ ~IsOpen
      BY <1>0, <1>3, BreakerAssumption DEF CheckCount, Goto, IsOpen, IInv, TypeOK
    <2>. QED
      BY <2>1, <2>2, LoadingKeeps
  <1>4. ASSUME NEW c \in Callers, CheckTime(c) PROVE (AdmittedIsFirst /\ OneLateRequest)'
    <2>1. UNCHANGED <<breaker, late>>
      BY <1>4 DEF CheckTime
    <2>2. \A d \in Callers : pc'[d] = "admitted" => pc[d] = "admitted" \/ ~IsOpen
      BY <1>0, <1>4 DEF CheckTime, Goto, IsOpen
    <2>. QED
      BY <2>1, <2>2, LoadingKeeps
  <1>5. ASSUME NEW c \in Callers, Request(c) PROVE (AdmittedIsFirst /\ OneLateRequest)'
    <2>1. pc[c] = "admitted" /\ late[c] = 0
      BY <1>5 DEF Request, IInv, AdmittedIsFirst
    <2>2. pc' = [pc EXCEPT ![c] = "waiting"] /\ IsOpen' = IsOpen
      BY <1>5 DEF Request, Goto, breaker, IsOpen
    <2>3. CASE IsOpen
      <3>1. late' = [late EXCEPT ![c] = 1]
        BY <1>0, <1>5, <2>1, <2>3 DEF Request
      <3>. QED
        BY <1>0, <2>2, <2>3, <3>1 DEF IInv, AdmittedIsFirst, OneLateRequest
    <2>4. CASE ~IsOpen
      <3>1. late' = late
        BY <1>5, <2>4 DEF Request
      <3>. QED
        BY <1>0, <2>2, <2>4, <3>1 DEF IInv, AdmittedIsFirst, OneLateRequest
    <2>. QED
      BY <2>3, <2>4
  <1>6. ASSUME NEW c \in Callers, NEW answer \in {"success", "transient", "permanent"},
               Answer(c, answer)
        PROVE  (AdmittedIsFirst /\ OneLateRequest)'
    <2>1. UNCHANGED <<breaker, late>>
      BY <1>6 DEF Answer
    <2>2. \A d \in Callers : pc'[d] = "admitted" => pc[d] = "admitted"
      BY <1>0, <1>6 DEF Answer, Goto
    <2>. QED
      BY <2>1, <2>2, LoadingKeeps
  <1>7. ASSUME NEW c \in Callers, Wake(c) \/ TestThreshold(c)
        PROVE  (AdmittedIsFirst /\ OneLateRequest)'
    <2>1. UNCHANGED <<breaker, late>>
      BY <1>7 DEF Wake, TestThreshold
    <2>2. \A d \in Callers : pc'[d] = "admitted" => pc[d] = "admitted"
      BY <1>0, <1>7 DEF Wake, TestThreshold, Recorded, Goto
    <2>. QED
      BY <2>1, <2>2, LoadingKeeps
  <1>8. ASSUME NEW c \in Callers,
               AddFailure(c) \/ StoreTime(c) \/ ZeroCount(c) \/ ZeroTime(c)
        PROVE  (AdmittedIsFirst /\ OneLateRequest)'
    <2>1. SinceOpen
      BY <1>8 DEF AddFailure, StoreTime, ZeroCount, ZeroTime
    <2>2. \A d \in Callers : pc'[d] = "admitted" => pc[d] = "admitted"
      BY <1>0, <1>8 DEF AddFailure, StoreTime, ZeroCount, ZeroTime, Recorded, Goto
    <2>. QED
      BY <2>1, <2>2, RecordingKeeps
  <1>9. CASE UNCHANGED vars
    BY <1>9, LoadingKeeps DEF vars, breaker
  <1>. QED
    BY <1>1, <1>2, <1>3, <1>4, <1>5, <1>6, <1>7, <1>8, <1>9 DEF Next, Proceed

LEMMA Invariance == Spec => []IInv
  <1>1. IInv /\ [Next]_vars => IInv'
    BY TypeNext, LateNext DEF IInv
  <1>. QED
    BY IInvInit, <1>1, PTL DEF Spec

(* The variables of the breaker and of the retry loop have their types.      *)
THEOREM TypeCorrect == Spec => []TypeOK
  <1>1. IInv => TypeOK
    BY DEF IInv
  <1>. QED
    BY <1>1, Invariance, PTL

(* While the breaker is open a thread sends at most the request that it had  *)
(* been admitted to before, whatever the others record between its loads.    *)
THEOREM LateAtMostOnce == Spec => []OneLateRequest
  <1>1. IInv => OneLateRequest
    BY DEF IInv
  <1>. QED
    BY <1>1, Invariance, PTL
================================================================================
