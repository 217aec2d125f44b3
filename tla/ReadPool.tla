------------------------------- MODULE ReadPool --------------------------------
(***************************************************************************)
(* The connections of LocalStoreDb (db.rs): the write connection under its *)
(* mutex, and the read-only ones, taken in turn under the mutex read_idx.  *)
(* A call of the bindings is the sequence of connections that it takes.    *)
(***************************************************************************)
EXTENDS Integers, Sequences

CONSTANTS
    Callers,     \* threads of the host
    PoolSize,    \* READ_POOL_SIZE; 0 for a store in memory
    StatsAlone,  \* the host makes no other call during get_storage_stats
    Nobody

VARIABLES
    readIdx,  \* read_idx, modulo the size of the pool
    turn,     \* who holds the mutex of read_idx
    conn,     \* who holds which connection; 0 is the write connection
    calls     \* per caller: what is left of its call, what it wants and keeps

vars == <<readIdx, turn, conn, calls>>

None == -1
Conns == 0..PoolSize

(* brief: the connection is given back when the query ends; keep: when the   *)
(* call returns.  get_timeline reads the rows, then their bodies one by one; *)
(* a search asks the full-text index, the fuzzy index and for the bodies;    *)
(* get_storage_stats counts on a connection that it still has when it asks   *)
(* for what can be evicted; an edit looks at the row, then writes.           *)
Program ==
    [timeline |-> <<"brief", "brief">>,
     search |-> <<"brief", "brief", "brief">>,
     stats |-> <<"brief", "keep", "brief", "brief">>,
     edit |-> <<"brief", "write">>]

Names == DOMAIN Program
Idle == [name |-> "none", left |-> <<>>, wants |-> None, keeps |-> {}]

TypeOK ==
    /\ readIdx \in 0..(IF PoolSize = 0 THEN 0 ELSE PoolSize - 1)
    /\ turn \in Callers \cup {Nobody}
    /\ conn \in [Conns -> Callers \cup {Nobody}]
    /\ \A c \in Callers :
          /\ calls[c].name \in Names \cup {"none"}
          /\ calls[c].wants \in Conns \cup {None}
          /\ calls[c].keeps \subseteq Conns

Init ==
    /\ readIdx = 0
    /\ turn = Nobody
    /\ conn = [i \in Conns |-> Nobody]
    /\ calls = [c \in Callers |-> Idle]

Busy(c) == calls[c].name # "none"
Next1(c) == Head(calls[c].left)
Has(c, i) == conn[i] = c

Begin(c, name) ==
    /\ ~Busy(c)
    /\ StatsAlone => \A d \in Callers :
          Busy(d) => name # "stats" /\ calls[d].name # "stats"
    /\ calls' = [calls EXCEPT ![c] = [Idle EXCEPT !.name = name, !.left = Program[name]]]
    /\ UNCHANGED <<readIdx, turn, conn>>

(* Mutant: the index grows past the pool. *)
TurnWithoutModulo(c) ==
    /\ calls[c].left # <<>> /\ calls[c].wants = None
    /\ Next1(c) # "write" /\ PoolSize > 0
    /\ turn = Nobody
    /\ turn' = c
    /\ calls' = [calls EXCEPT ![c].wants = readIdx + 1]
    /\ readIdx' = readIdx + 1
    /\ UNCHANGED conn

(* read: the index is advanced, and its mutex kept until the connection is   *)
(* there.                                                                    *)
Turn(c) ==
    /\ calls[c].left # <<>> /\ calls[c].wants = None
    /\ Next1(c) # "write" /\ PoolSize > 0
    /\ turn = Nobody
    /\ turn' = c
    /\ calls' = [calls EXCEPT ![c].wants = readIdx + 1]
    /\ readIdx' = (readIdx + 1) % PoolSize
    /\ UNCHANGED conn

(* write, and read of a store in memory: the write connection.               *)
TurnToWriter(c) ==
    /\ calls[c].left # <<>> /\ calls[c].wants = None
    /\ Next1(c) = "write" \/ PoolSize = 0
    /\ calls' = [calls EXCEPT ![c].wants = 0]
    /\ UNCHANGED <<readIdx, turn, conn>>

Take(c) ==
    /\ calls[c].wants # None
    /\ conn[calls[c].wants] = Nobody
    /\ conn' = [conn EXCEPT ![calls[c].wants] = c]
    /\ turn' = IF turn = c THEN Nobody ELSE turn
    /\ UNCHANGED <<readIdx, calls>>

(* Mutant: a query that met a writer is run again. *)
DoneUnlessWriting(c) ==
    /\ calls[c].wants # None
    /\ Has(c, calls[c].wants)
    /\ calls[c].wants \notin calls[c].keeps
    /\ calls' = [calls EXCEPT ![c].wants = None,
                             ![c].left = IF conn[0] \in {c, Nobody} THEN Tail(@) ELSE @]
    /\ conn' = [conn EXCEPT ![calls[c].wants] = Nobody]
    /\ UNCHANGED <<readIdx, turn>>

(* The query has run.                                                        *)
Done(c) ==
    /\ calls[c].wants # None
    /\ Has(c, calls[c].wants)
    /\ calls[c].wants \notin calls[c].keeps
    /\ IF Next1(c) = "keep"
       THEN /\ calls' = [calls EXCEPT ![c].left = Tail(@), ![c].wants = None,
                                      ![c].keeps = @ \cup {calls[c].wants}]
            /\ UNCHANGED conn
       ELSE /\ calls' = [calls EXCEPT ![c].left = Tail(@), ![c].wants = None]
            /\ conn' = [conn EXCEPT ![calls[c].wants] = Nobody]
    /\ UNCHANGED <<readIdx, turn>>

Return(c) ==
    /\ Busy(c) /\ calls[c].left = <<>>
    /\ conn' = [i \in Conns |-> IF i \in calls[c].keeps THEN Nobody ELSE conn[i]]
    /\ calls' = [calls EXCEPT ![c] = Idle]
    /\ UNCHANGED <<readIdx, turn>>

Proceed(c) == Turn(c) \/ TurnToWriter(c) \/ Take(c) \/ Done(c) \/ Return(c)

Next == \E c \in Callers : Proceed(c) \/ \E name \in Names : Begin(c, name)

(* The mutexes of the standard library are not fair, but nobody comes back   *)
(* for one for ever: a call that can go on again and again goes on.          *)
Fairness == \A c \in Callers : SF_vars(Turn(c)) /\ SF_vars(Take(c)) /\ WF_vars(Proceed(c))

Spec == Init /\ [][Next]_vars /\ Fairness

(* Every call that has begun returns, as long as the host makes no other     *)
(* call during get_storage_stats: what that call takes on top of the         *)
(* connection it keeps never comes round to it again.                        *)
CallsReturn == \A c \in Callers : Busy(c) ~> ~Busy(c)

(* "Pool of read-only connections for concurrent reads": nobody waits for a  *)
(* reader while there is a free connection.                                  *)
ReadsInParallel ==
    \A c \in Callers :
       (calls[c].wants > 0 /\ conn[calls[c].wants] \notin {Nobody, c})
          => \A i \in 1..PoolSize : conn[i] # Nobody
================================================================================
