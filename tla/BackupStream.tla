----------------------------- MODULE BackupStream ------------------------------
(***************************************************************************)
(* BackupSnapshot::stream_backup_batches (backup/snapshot.rs): rows are    *)
(* read in batches by LIMIT and OFFSET, each query on its own, while the   *)
(* store changes.                                                          *)
(***************************************************************************)
EXTENDS Integers, Sequences, FiniteSets, SequencesExt

CONSTANTS
    Rows,       \* message ids, numbered as they arrive
    BatchSize   \* BATCH_SIZE

VARIABLES
    skeletons,  \* message_skeleton rows that are not backed up, in table order
    bodies,     \* message_body rows, in table order
    gone,       \* rows that were taken out of the one or the other
    stream,     \* the call: step, offsets, what it read and what it sent
    began       \* history: the rows when it began, and whether one left since

vars == <<skeletons, bodies, gone, stream, began>>

Quiet == [step |-> "idle", sAt |-> 0, bAt |-> 0, batch |-> <<>>, sSent |-> <<>>, bSent |-> <<>>]
Nothing == [skeletons |-> {}, bodies |-> {}, left |-> FALSE]

TypeOK ==
    /\ skeletons \in Seq(Rows) /\ bodies \in Seq(Rows)
    /\ gone \subseteq Rows
    /\ stream.step \in {"idle", "skeletons", "bodies", "done"}
    /\ stream.sAt \in Nat /\ stream.bAt \in Nat
    /\ \A rows \in {stream.batch, stream.sSent, stream.bSent} : Range(rows) \subseteq Rows
    /\ began.left \in BOOLEAN

Init ==
    /\ skeletons = <<>> /\ bodies = <<>>
    /\ gone = {}
    /\ stream = Quiet
    /\ began = Nothing

(* LIMIT and OFFSET.                                                        *)
Batch(rows, offset) ==
    SubSeq(rows, offset + 1,
           IF offset + BatchSize < Len(rows) THEN offset + BatchSize ELSE Len(rows))

Begin ==
    /\ stream.step \in {"idle", "done"}
    /\ stream' = [Quiet EXCEPT !.step = "skeletons"]
    /\ began' = [skeletons |-> Range(skeletons), bodies |-> Range(bodies), left |-> FALSE]
    /\ UNCHANGED <<skeletons, bodies, gone>>

ReadSkeletons ==
    /\ stream.step = "skeletons"
    /\ stream' = [stream EXCEPT !.step = "bodies", !.batch = Batch(skeletons, stream.sAt)]
    /\ UNCHANGED <<skeletons, bodies, gone, began>>

(* Mutant: one short table ends the stream. *)
SendAndStopEarly ==
    /\ stream.step = "bodies"
    /\ LET read == Batch(bodies, stream.bAt)
           short(rows) == Len(rows) < BatchSize
       IN stream' = [stream EXCEPT
             !.step = IF short(stream.batch) \/ short(read) THEN "done" ELSE "skeletons",
             !.sAt = IF stream.batch = <<>> THEN @ ELSE @ + BatchSize,
             !.bAt = IF read = <<>> THEN @ ELSE @ + BatchSize,
             !.sSent = @ \o stream.batch, !.bSent = @ \o read, !.batch = <<>>]
    /\ UNCHANGED <<skeletons, bodies, gone, began>>

(* The bodies, the callback, the offsets, and the end when both were short. *)
Send ==
    /\ stream.step = "bodies"
    /\ LET read == Batch(bodies, stream.bAt)
           short(rows) == Len(rows) < BatchSize
       IN stream' = [stream EXCEPT
             !.step = IF short(stream.batch) /\ short(read) THEN "done" ELSE "skeletons",
             !.sAt = IF stream.batch = <<>> THEN @ ELSE @ + BatchSize,
             !.bAt = IF read = <<>> THEN @ ELSE @ + BatchSize,
             !.sSent = @ \o stream.batch, !.bSent = @ \o read, !.batch = <<>>]
    /\ UNCHANGED <<skeletons, bodies, gone, began>>

(* An error of the callback ends the call.                                  *)
CallbackFails ==
    /\ stream.step = "bodies"
    /\ stream' = Quiet
    /\ UNCHANGED <<skeletons, bodies, gone, began>>

Came == Range(skeletons) \cup Range(bodies) \cup gone

(* A message arrives, with a text or without.                               *)
Ingest(m) ==
    /\ m \notin Came /\ \A k \in Rows : k < m => k \in Came
    /\ skeletons' = Append(skeletons, m)
    /\ bodies' \in {bodies, Append(bodies, m)}
    /\ UNCHANGED <<gone, stream, began>>

(* A deletion for everyone takes the body's row away, the end of another    *)
(* backup takes the skeleton out of the filter.                             *)
Leave(m) ==
    /\ \/ \E i \in DOMAIN skeletons : skeletons[i] = m /\ skeletons' = RemoveAt(skeletons, i)
                                     /\ UNCHANGED bodies
       \/ \E i \in DOMAIN bodies : bodies[i] = m /\ bodies' = RemoveAt(bodies, i)
                                  /\ UNCHANGED skeletons
    /\ gone' = gone \cup {m}
    /\ began' = [began EXCEPT !.left = TRUE]
    /\ UNCHANGED stream

Next ==
    \/ Begin \/ ReadSkeletons \/ Send \/ CallbackFails
    \/ \E m \in Rows : Ingest(m) \/ Leave(m)

Spec == Init /\ [][Next]_vars

Once(rows, sent) == \A m \in rows : Cardinality({i \in DOMAIN sent : sent[i] = m}) = 1

(* A stream that ends has sent every row that was there when it began, and   *)
(* each once, if no row left the tables meanwhile: arrivals do not disturb   *)
(* it.                                                                       *)
StreamsAll ==
    stream.step = "done" /\ ~began.left
       => Once(began.skeletons, stream.sSent) /\ Once(began.bodies, stream.bSent)

(* The same whatever changes: rows that are still there were sent.           *)
StreamsAllThatStays ==
    stream.step = "done"
       => Once(began.skeletons \cap Range(skeletons), stream.sSent)
          /\ Once(began.bodies \cap Range(bodies), stream.bSent)
================================================================================
