----------------------------- MODULE EpochRotation ------------------------------
(***************************************************************************)
(* EpochRotator (crypto/key_bridge.rs) and a host that looks whether a     *)
(* rotation is due and then rotates; nothing of the core does so yet.  The *)
(* epoch's id carries its counter, a u64.                                  *)
(***************************************************************************)
EXTENDS Integers, Sequences

CONSTANTS
    Hosts,      \* threads that look after the rotation
    Cadence,    \* cadence_ms as it was given, which may be 0 or less
    MaxTime,    \* bound on the clock
    EpochMax    \* u64::MAX

VARIABLES
    rotator,    \* current_epoch_id's counter, last_rotation_ms
    today,      \* now_ms
    plan,       \* per host: whether it has seen that a rotation is due
    rotations   \* history: epochs that began, and when

vars == <<rotator, today, plan, rotations>>

Larger(a, b) == IF a < b THEN b ELSE a
Every == Larger(Cadence, 1)    \* cadence_ms.max(1)

TypeOK ==
    /\ rotator.epoch \in 0..EpochMax /\ rotator.last \in 0..MaxTime
    /\ today \in 0..MaxTime
    /\ plan \in [Hosts -> BOOLEAN]
    /\ \A i \in DOMAIN rotations :
          rotations[i].epoch \in 0..EpochMax /\ rotations[i].at \in 0..MaxTime

Init ==
    /\ rotator = [epoch |-> 0, last |-> 0]
    /\ today = 0
    /\ plan = [h \in Hosts |-> FALSE]
    /\ rotations = <<[epoch |-> 0, at |-> 0]>>

Tick == today < MaxTime /\ today' = today + 1 /\ UNCHANGED <<rotator, plan, rotations>>

Due == today - rotator.last >= Every

IsDue(h) ==
    /\ ~plan[h] /\ Due
    /\ plan' = [plan EXCEPT ![h] = TRUE]
    /\ UNCHANGED <<rotator, today, rotations>>

(* rotate does not ask again whether it is due; a counter at its end is an   *)
(* error and changes nothing.                                                *)
Rotate(h) ==
    /\ plan[h]
    /\ plan' = [plan EXCEPT ![h] = FALSE]
    /\ IF rotator.epoch < EpochMax
       THEN /\ rotator' = [epoch |-> rotator.epoch + 1, last |-> today]
            /\ rotations' = Append(rotations, [epoch |-> rotator'.epoch, at |-> today])
       ELSE UNCHANGED <<rotator, rotations>>
    /\ UNCHANGED today

(* The process ends; the rotator is built again from what was stored.        *)
Restart ==
    /\ plan' = [h \in Hosts |-> FALSE]
    /\ UNCHANGED <<rotator, today, rotations>>

Next == Tick \/ Restart \/ \E h \in Hosts : IsDue(h) \/ Rotate(h)

Spec == Init /\ [][Next]_vars

(* A rotation gives a key that no epoch had before, also at the counter's    *)
(* end, where it fails instead.                                              *)
EpochsAreNew ==
    \A i, j \in DOMAIN rotations : i < j => rotations[i].epoch < rotations[j].epoch

(* "decides when to roll it forward": an epoch lasts for the cadence at      *)
(* least, when one thread looks after it.                                    *)
EpochsLast ==
    \A i \in 1..(Len(rotations) - 1) : rotations[i + 1].at - rotations[i].at >= Every
================================================================================
