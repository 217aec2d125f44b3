------------------------------ MODULE ShardCache -------------------------------
(***************************************************************************)
(* The cache of search shards (search/shard_cache.rs).  A call takes its   *)
(* stamp under one mutex and looks at the entries under another, so calls  *)
(* can reach the entries in another order than they were stamped.          *)
(***************************************************************************)
EXTENDS Integers, FiniteSets

CONSTANTS
    CacheThreads, ShardKeys, MaxEntries,
    MaxStamp   \* bound on the calls of a behaviour

VARIABLES
    counter,  \* counter
    entries,  \* last_access of each entry, 0 without one
    lookup,   \* per thread: the call that has its stamp
    served    \* history: the key of the last frame that was given out or put in

vars == <<counter, entries, lookup, served>>

NoKey == "none"
NoCall == [method |-> "none", key |-> CHOOSE k \in ShardKeys : TRUE, ts |-> 0]

TypeOK ==
    /\ counter \in 0..MaxStamp
    /\ entries \in [ShardKeys -> 0..MaxStamp]
    /\ lookup \in [CacheThreads ->
          [method : {"none", "get", "insert"}, key : ShardKeys, ts : 0..MaxStamp]]
    /\ served \in ShardKeys \cup {NoKey}

Init ==
    /\ counter = 0
    /\ entries = [k \in ShardKeys |-> 0]
    /\ lookup = [t \in CacheThreads |-> NoCall]
    /\ served = NoKey

Cached == {k \in ShardKeys : entries[k] > 0}

Stamp(t, method, k) ==
    /\ lookup[t].method = "none"
    /\ counter < MaxStamp
    /\ counter' = counter + 1
    /\ lookup' = [lookup EXCEPT ![t] = [method |-> method, key |-> k, ts |-> counter + 1]]
    /\ UNCHANGED <<entries, served>>

(* Mutant: a hit does not count as an access. *)
GetWithoutTouch(t) ==
    /\ lookup[t].method = "get"
    /\ UNCHANGED entries
    /\ lookup' = [lookup EXCEPT ![t] = NoCall]
    /\ served' = IF lookup[t].key \in Cached THEN lookup[t].key ELSE served
    /\ UNCHANGED counter

Get(t) ==
    /\ lookup[t].method = "get"
    /\ entries' = IF lookup[t].key \in Cached
                  THEN [entries EXCEPT ![lookup[t].key] = lookup[t].ts]
                  ELSE entries
    /\ lookup' = [lookup EXCEPT ![t] = NoCall]
    /\ served' = IF lookup[t].key \in Cached THEN lookup[t].key ELSE served
    /\ UNCHANGED counter

Oldest == CHOOSE k \in Cached : \A j \in Cached : entries[k] =< entries[j]

Insert(t) ==
    /\ lookup[t].method = "insert"
    /\ LET k == lookup[t].key
           full == Cardinality(Cached) >= MaxEntries /\ k \notin Cached
           kept == IF full THEN [entries EXCEPT ![Oldest] = 0] ELSE entries
       IN entries' = [kept EXCEPT ![k] = lookup[t].ts] /\ served' = k
    /\ lookup' = [lookup EXCEPT ![t] = NoCall]
    /\ UNCHANGED counter

Clear ==
    /\ entries' = [k \in ShardKeys |-> 0]
    /\ UNCHANGED <<counter, lookup, served>>

Next ==
    \/ \E t \in CacheThreads :
          \/ \E k \in ShardKeys, method \in {"get", "insert"} : Stamp(t, method, k)
          \/ Get(t) \/ Insert(t)
    \/ Clear

Spec == Init /\ [][Next]_vars

(* The stamps of the entries tell which were used before which.             *)
Lru == INSTANCE LruCache WITH
          Keys <- ShardKeys, Capacity <- MaxEntries,
          older <- [k \in Cached |-> {j \in Cached : entries[j] < entries[k]}]

(* "LRU cache for encrypted search shards": with one thread the stamps order *)
(* the entries as they were used, and a full cache drops the right one.      *)
DropsLeastRecent == Lru!Spec
================================================================================
