----------------------------- MODULE CircuitBreaker ----------------------------
(***************************************************************************)
(* The circuit breaker of the gateway transport and the retry loop around  *)
(* it (transport/circuit_breaker.rs, transport/kdrive_bridge.rs).  One     *)
(* KdriveTransport is shared by every thread that backs up, ingests,       *)
(* archives or sends; its breaker is two relaxed atomics and no lock, so   *)
(* each load and each store is a step.                                     *)
(*                                                                         *)
(* Data.  opened_at_ms is modelled by its age, up to the recovery timeout, *)
(* and failure_count by its value up to the threshold: nothing in the code *)
(* tells larger values apart (no 2^32 failures, a clock that is not set    *)
(* back).  A network error and a retryable status take the same path.      *)
(***************************************************************************)
EXTENDS Integers

CONSTANTS
    Callers,      \* threads that send requests
    Threshold,    \* failures that open the breaker
    Recovery,     \* clock ticks until an open breaker lets requests through
    MaxRetries,
    Never         \* opened_at_ms = 0

ASSUME BreakerAssumption ==
    /\ Threshold \in Nat \ {0}
    /\ Recovery \in Nat \ {0}
    /\ MaxRetries \in Nat
    /\ Never \notin Nat

VARIABLES
    failures,   \* failure_count
    openedAge,  \* time since opened_at_ms
    pc,         \* where each caller is in send_with_retry
    attempt,    \* its attempt
    again,      \* it will retry once the failure is recorded
    late        \* history: its requests since the breaker is open

breaker == <<failures, openedAge>>
vars == <<failures, openedAge, pc, attempt, again, late>>

Places == {"idle", "check", "check_time", "admitted", "waiting", "sleeping",
           "failed", "counted", "opening", "succeeded", "zeroed"}

TypeOK ==
    /\ failures \in 0..Threshold
    /\ openedAge \in 0..Recovery \cup {Never}
    /\ pc \in [Callers -> Places]
    /\ attempt \in [Callers -> 0..MaxRetries]
    /\ again \in [Callers -> BOOLEAN]
    /\ late \in [Callers -> 0..2]

Init ==
    /\ failures = 0
    /\ openedAge = Never
    /\ pc = [c \in Callers |-> "idle"]
    /\ attempt = [c \in Callers |-> 0]
    /\ again = [c \in Callers |-> FALSE]
    /\ late = [c \in Callers |-> 0]

IsOpen == failures = Threshold /\ (openedAge = Never \/ openedAge < Recovery)

(* The history of late requests ends when the breaker is not open any more. *)
SinceOpen == late' = IF IsOpen' THEN late ELSE [c \in Callers |-> 0]

Goto(c, place) == pc' = [pc EXCEPT ![c] = place]

--------------------------------------------------------------------------------
(* allow_request: two loads. *)

Call(c) ==
    /\ pc[c] = "idle"
    /\ Goto(c, "check")
    /\ attempt' = [attempt EXCEPT ![c] = 0]
    /\ UNCHANGED <<breaker, again, late>>

CheckCount(c) ==
    /\ pc[c] = "check"
    /\ Goto(c, IF failures < Threshold THEN "admitted" ELSE "check_time")
    /\ UNCHANGED <<breaker, attempt, again, late>>

(* An open breaker ends the call with an error. *)
CheckTime(c) ==
    /\ pc[c] = "check_time"
    /\ Goto(c, IF openedAge = Never \/ openedAge < Recovery THEN "idle" ELSE "admitted")
    /\ UNCHANGED <<breaker, attempt, again, late>>

--------------------------------------------------------------------------------
(* send_with_retry *)

Request(c) ==
    /\ pc[c] = "admitted"
    /\ Goto(c, "waiting")
    /\ late' = IF IsOpen /\ late[c] < 2 THEN [late EXCEPT ![c] = @ + 1] ELSE late
    /\ UNCHANGED <<breaker, attempt, again>>

(* Mutant: a network error is retried however often it was. *)
AnswerRetryingForever(c, answer) ==
    /\ pc[c] = "waiting"
    /\ Goto(c, IF answer = "success" THEN "succeeded" ELSE "failed")
    /\ again' = [again EXCEPT ![c] = answer = "transient"]
    /\ UNCHANGED <<breaker, attempt, late>>

(* The gateway answers, or the request times out.  Only transient errors    *)
(* are retried, every error counts as a failure.                            *)
Answer(c, answer) ==
    /\ pc[c] = "waiting"
    /\ Goto(c, IF answer = "success" THEN "succeeded" ELSE "failed")
    /\ again' = [again EXCEPT ![c] = answer = "transient" /\ attempt[c] < MaxRetries]
    /\ UNCHANGED <<breaker, attempt, late>>

(* Mutant: the breaker is asked before the first attempt only. *)
WakeUnchecked(c) ==
    /\ pc[c] = "sleeping"
    /\ Goto(c, "admitted")
    /\ attempt' = [attempt EXCEPT ![c] = IF @ < MaxRetries THEN @ + 1 ELSE @]
    /\ UNCHANGED <<breaker, again, late>>

Wake(c) ==
    /\ pc[c] = "sleeping"
    /\ Goto(c, "check")
    /\ attempt' = [attempt EXCEPT ![c] = IF @ < MaxRetries THEN @ + 1 ELSE @]
    /\ UNCHANGED <<breaker, again, late>>

Recorded(c) == Goto(c, IF again[c] THEN "sleeping" ELSE "idle")

--------------------------------------------------------------------------------
(* record_failure: fetch_add, load, store. *)

AddFailure(c) ==
    /\ pc[c] = "failed"
    /\ failures' = IF failures < Threshold THEN failures + 1 ELSE failures
    /\ Goto(c, "counted")
    /\ UNCHANGED <<openedAge, attempt, again>>
    /\ SinceOpen

(* Mutant: the failure is counted and nothing else. *)
CountOnly(c) ==
    /\ pc[c] = "counted"
    /\ Recorded(c)
    /\ UNCHANGED <<breaker, attempt, again, late>>

TestThreshold(c) ==
    /\ pc[c] = "counted"
    /\ IF failures = Threshold THEN Goto(c, "opening") ELSE Recorded(c)
    /\ UNCHANGED <<breaker, attempt, again, late>>

StoreTime(c) ==
    /\ pc[c] = "opening"
    /\ openedAge' = 0
    /\ Recorded(c)
    /\ UNCHANGED <<failures, attempt, again>>
    /\ SinceOpen

(* record_success: two stores. *)

(* Mutant: a success takes one failure back. *)
DecayCount(c) ==
    /\ pc[c] = "succeeded"
    /\ failures' = failures - 1
    /\ Goto(c, "zeroed")
    /\ UNCHANGED <<openedAge, attempt, again>>
    /\ SinceOpen

ZeroCount(c) ==
    /\ pc[c] = "succeeded"
    /\ failures' = 0
    /\ Goto(c, "zeroed")
    /\ UNCHANGED <<openedAge, attempt, again>>
    /\ SinceOpen

ZeroTime(c) ==
    /\ pc[c] = "zeroed"
    /\ openedAge' = Never
    /\ Goto(c, "idle")
    /\ UNCHANGED <<failures, attempt, again>>
    /\ SinceOpen

--------------------------------------------------------------------------------

Tick ==
    /\ openedAge # Never
    /\ openedAge < Recovery
    /\ openedAge' = openedAge + 1
    /\ UNCHANGED <<failures, pc, attempt, again>>
    /\ SinceOpen

(* Whatever a caller does once it has called. *)
Proceed(c) ==
    \/ CheckCount(c) \/ CheckTime(c)
    \/ Request(c)
    \/ \E answer \in {"success", "transient", "permanent"} : Answer(c, answer)
    \/ Wake(c)
    \/ AddFailure(c) \/ TestThreshold(c) \/ StoreTime(c)
    \/ ZeroCount(c) \/ ZeroTime(c)

Next == Tick \/ \E c \in Callers : Call(c) \/ Proceed(c)

(* Time passes, and a thread that has called runs: requests have a timeout *)
(* and the wait between retries ends.  No thread has to call.              *)
Spec == Init /\ [][Next]_vars /\ WF_vars(Tick) /\ \A c \in Callers : WF_vars(Proceed(c))

--------------------------------------------------------------------------------

(* "Open -> HalfOpen": a breaker that opened admits requests again.        *)
AdmitsAgain == IsOpen ~> ~IsOpen

(* What the breaker is for: while it is open a thread gets at most one     *)
(* more request to the gateway, the one that was admitted before, whatever *)
(* the other threads record between its loads.                             *)
OneLateRequest == \A c \in Callers : late[c] <= 1

(* Every call ends, with an answer or an error, however the gateway fails. *)
CallsEnd == \A c \in Callers : pc[c] # "idle" ~> pc[c] = "idle"
================================================================================
