------------------------------- MODULE LruCache --------------------------------
(* What a cache that drops the least recently used entry promises: which of *)
(* the keys it holds were last used before which.                           *)
EXTENDS Integers, FiniteSets

CONSTANTS Keys, Capacity

VARIABLES
    older,   \* per key that is held: the others that were last used before it
    served   \* the key of the last entry that was given out or put in

vars == <<older, served>>

Held == DOMAIN older

Init == Held = {} /\ served \notin Keys

(* Of the keys that are kept and k, it is k that was used last.             *)
UseLast(k, kept) ==
    /\ older' = [j \in kept \cup {k} |->
                    IF j = k THEN kept \ {k} ELSE older[j] \cap (kept \ {k})]
    /\ served' = k

(* An entry that is asked for or replaced.                                  *)
Use(k) == k \in Held /\ UseLast(k, Held)

Add(k) ==
    /\ k \notin Held
    /\ Cardinality(Held) < Capacity
    /\ UseLast(k, Held)

(* A full cache makes room with the key that was used before all others.    *)
Replace(k, first) ==
    /\ k \notin Held
    /\ Cardinality(Held) = Capacity
    /\ first \in Held /\ older[first] = {}
    /\ UseLast(k, Held \ {first})

Clear == Held' = {} /\ UNCHANGED served

Next == Clear \/ \E k \in Keys : Use(k) \/ Add(k) \/ \E first \in Held : Replace(k, first)

Spec == Init /\ [][Next]_vars
================================================================================
