----------------------------- MODULE BodyLifecycle -----------------------------
(***************************************************************************)
(* What the local store promises about message bodies: a message appears   *)
(* once, in the state its kind of arrival gives it, and from then on moves *)
(* only along the body state diagram.  The rows are never taken away.      *)
(***************************************************************************)
EXTENDS StateMachines

CONSTANTS Messages,     \* message ids
          NoRow         \* the state of an id that has no skeleton row

VARIABLE state          \* message id -> body state or NoRow

Init == state = [m \in Messages |-> NoRow]

Appear(m) == /\ state[m] = NoRow
             /\ state' = [state EXCEPT ![m] = "local_plain_available"]

Move(m) == \E s \in BodyStates : /\ BodyMoves(state[m], s)
                                 /\ state' = [state EXCEPT ![m] = s]

Next == \E m \in Messages : Appear(m) \/ Move(m)

Spec == Init /\ [][Next]_state
================================================================================
