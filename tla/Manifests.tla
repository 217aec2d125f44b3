------------------------------- MODULE Manifests -------------------------------
(***************************************************************************)
(* What a restore can tell from a list of manifests: the links between     *)
(* them (restore/manifest_verifier.rs).  A hash stands for all that is     *)
(* hashed; <<>> is the zero hash.  Backups come one after the other here;  *)
(* BackupChain has those that overlap.                                     *)
(***************************************************************************)
EXTENDS Integers, Sequences

CONSTANTS
    MaxManifests,  \* bound on what is published
    MaxProcesses   \* bound on the processes that publish

VARIABLES
    coordinator,  \* what the process that runs goes on from
    kept,         \* the gateway's list
    fetched       \* what a restore was given of it

vars == <<coordinator, kept, fetched>>

Hash(m) == <<m>>

TypeOK ==
    /\ coordinator.process \in 1..MaxProcesses
    /\ coordinator.generation \in 0..MaxManifests
    /\ \A list \in {kept, fetched} : \A i \in DOMAIN list :
          /\ list[i].process \in 1..MaxProcesses
          /\ list[i].generation \in 0..MaxManifests
          /\ list[i].body \in {"sound", "damaged"}
    /\ Len(kept) =< 1 + MaxManifests

(* BackupCoordinator::new.                                                   *)
New(process) == [process |-> process, generation |-> 0, previous |-> <<>>]

Init ==
    /\ coordinator = New(1)
    /\ kept = <<>>
    /\ fetched = <<>>

(* prepare_backup, with the id of a new segment.                             *)
Prepared ==
    [process |-> coordinator.process, generation |-> coordinator.generation,
     previous |-> coordinator.previous, segment |-> Len(kept) + 1, body |-> "sound"]

(* finalize_backup *)
Finalized(m) ==
    [coordinator EXCEPT !.generation = m.generation + 1, !.previous = Hash(m)]

(* The next manifest is posted; a POST that was applied may be repeated, and *)
(* it may be answered with an error, after which nothing is finalized.  What *)
(* was fetched before does not change by it.                                 *)
Publish ==
    /\ Len(kept) < MaxManifests /\ fetched = <<>>
    /\ \E posted \in {<<Prepared>>, <<Prepared, Prepared>>} : kept' = kept \o posted
    /\ coordinator' \in {coordinator, Finalized(Prepared)}
    /\ UNCHANGED fetched

(* The coordinator of the next process starts anew (CoreImpl::new).          *)
Restart ==
    /\ coordinator.process < MaxProcesses /\ fetched = <<>>
    /\ coordinator' = New(coordinator.process + 1)
    /\ UNCHANGED <<kept, fetched>>

Damaged(m) == [m EXCEPT !.body = "damaged"]

(* The gateway's list, less some, in any order, one of them damaged.         *)
Fetch ==
    /\ fetched = <<>>
    /\ \E order \in UNION {[1..n -> DOMAIN kept] : n \in 0..Len(kept)},
          bad \in 0..Len(kept) :
          fetched' = [i \in DOMAIN order |->
                         IF i = bad THEN Damaged(kept[order[i]]) ELSE kept[order[i]]]
    /\ UNCHANGED <<coordinator, kept>>

(* The restore is over. *)
Leave ==
    /\ fetched' = <<>>
    /\ UNCHANGED <<coordinator, kept>>

(* Mutant: the first manifest may have a predecessor. *)
VerifyLinks(list) ==
    \A i \in 2..Len(list) : list[i].previous = Hash(list[i - 1])

(* The generations are not looked at, except whether the first is 0: then it *)
(* may have a predecessor.                                                   *)
VerifyChain(list) ==
    \/ list = <<>>
    \/ /\ list[1].generation = 0 \/ list[1].previous = <<>>
       /\ \A i \in 2..Len(list) : list[i].previous = Hash(list[i - 1])

Next == Publish \/ Restart \/ Fetch \/ Leave

Spec == Init /\ [][Next]_vars

(* "Verify the manifest chain": whatever is lost, repeated, reordered or     *)
(* damaged, and however many processes published, a list that is accepted    *)
(* has the manifests of one of them, from its first on and none left out in  *)
(* between, and all but the last are as they were published.                 *)
AcceptedIsPrefix ==
    VerifyChain(fetched) =>
       \A i \in DOMAIN fetched :
          /\ fetched[i].process = fetched[1].process
          /\ fetched[i].generation = i - 1
          /\ i < Len(fetched) => \E j \in DOMAIN kept : fetched[i] = kept[j]

(* What the gateway keeps can be restored from.                              *)
KeptVerifies == VerifyChain(kept)

(* A restore notices that the end of the list is missing.                    *)
AcceptedIsAll ==
    VerifyChain(fetched) /\ fetched # <<>> =>
       \A j \in DOMAIN kept : \E i \in DOMAIN fetched :
          fetched[i].segment = kept[j].segment

(* A restore notices that the list of segments of the last one is not as it  *)
(* was published.                                                            *)
AcceptedIsSound == VerifyChain(fetched) => \A i \in DOMAIN fetched : fetched[i].body = "sound"
================================================================================
